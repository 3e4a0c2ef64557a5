---------------------------- MODULE ProjectProofs ----------------------------
(***************************************************************************)
(* Proofs about Project, for any number of models and windows: its two     *)
(* maps agree, only what is removed leaves, and the tree shows what is in. *)
(***************************************************************************)
EXTENDS Project, FiniteSetTheorems, WellFoundedInduction, TLAPS

-----------------------------------------------------------------------------
(* Sequences of models.                                                    *)

\* What a list of models has, and that it has it once.
LEMMA AppendList ==
  ASSUME NEW s \in Seq(Model), NEW x \in Model
  PROVE  /\ Append(s, x) \in Seq(Model) /\ ToSet(Append(s, x)) = ToSet(s) \cup {x}
         /\ IsInjective(s) /\ x \notin ToSet(s) => IsInjective(Append(s, x))
<1> DEFINE a == Append(s, x)
<1>1. /\ a \in Seq(Model) /\ Len(a) = Len(s) + 1 /\ a[Len(s) + 1] = x
      /\ \A i \in 1..Len(s) : a[i] = s[i]
      /\ DOMAIN a = 1..(Len(s) + 1) /\ DOMAIN s = 1..Len(s) /\ Len(s) \in Nat
  OBVIOUS
<1> HIDE DEF a
<1>2. ToSet(a) = ToSet(s) \cup {x}
  <2>1. \A i \in DOMAIN a : a[i] \in ToSet(s) \cup {x}
    BY <1>1 DEF ToSet
  <2>2. ToSet(s) \subseteq ToSet(a)
    BY <1>1 DEF ToSet
  <2>3. x \in ToSet(a)
    BY <1>1 DEF ToSet
  <2> QED
    BY <2>1, <2>2, <2>3 DEF ToSet
<1>3. ASSUME IsInjective(s), x \notin ToSet(s) PROVE IsInjective(a)
  BY <1>1, <1>3 DEF IsInjective, ToSet
<1> QED
  BY <1>1, <1>2, <1>3 DEF a

LEMMA LeftOut ==
  ASSUME NEW s \in Seq(Model), NEW i \in 1..Len(s)
  PROVE  LET r == RemoveAt(s, i)
         IN  /\ r \in Seq(Model) /\ DOMAIN r = 1..(Len(s) - 1)
             /\ \A j \in 1..(Len(s) - 1) : r[j] = s[IF j < i THEN j ELSE j + 1]
<1> DEFINE r == RemoveAt(s, i)
           front == SubSeq(s, 1, i - 1)
           rest == SubSeq(s, i + 1, Len(s))
<1>1. DOMAIN s = 1..Len(s) /\ Len(s) \in Nat
  OBVIOUS
<1>6. /\ front \in Seq(Model) /\ Len(front) = i - 1 /\ \A j \in 1..(i - 1) : front[j] = s[j]
      /\ rest \in Seq(Model) /\ Len(rest) = Len(s) - i /\ \A j \in 1..(Len(s) - i) : rest[j] = s[i + j]
  OBVIOUS
<1>7. r = front \o rest
  BY DEF RemoveAt
<1> HIDE DEF r, front, rest
<1>8. r \in Seq(Model) /\ Len(r) = Len(s) - 1 /\ DOMAIN r = 1..(Len(s) - 1)
  <2>1. \A P, Q \in Seq(Model) : P \o Q \in Seq(Model) /\ Len(P \o Q) = Len(P) + Len(Q)
    OBVIOUS
  <2>2. r \in Seq(Model) /\ Len(r) = Len(front) + Len(rest)
    BY <1>6, <1>7, <2>1, Zenon
  <2>3. DOMAIN r = 1..Len(r)
    BY <2>2
  <2> QED
    BY <1>1, <1>6, <2>2, <2>3
<1>9. ASSUME NEW j \in 1..(Len(s) - 1) PROVE r[j] = s[IF j < i THEN j ELSE j + 1]
  <2>1. j \in 1..(Len(front) + Len(rest))
    BY <1>1, <1>6
  <2>2. CASE j < i
    <3>1. r[j] = front[j]
      BY <1>1, <1>6, <1>7, <2>1, <2>2
    <3> QED
      BY <1>1, <1>6, <2>2, <3>1
  <2>3. CASE ~(j < i)
    <3>1. \A P, Q \in Seq(Model) : Len(P) = i - 1 /\ j \in 1..(Len(P) + Len(Q)) => (P \o Q)[j] = Q[j - (i - 1)]
      BY <1>1, <2>3
    <3>2. r[j] = rest[j - (i - 1)]
      BY <1>6, <1>7, <2>1, <3>1
    <3>3. j - (i - 1) \in 1..(Len(s) - i) /\ i + (j - (i - 1)) = j + 1
      BY <1>1, <2>3
    <3> QED
      BY <1>6, <2>3, <3>2, <3>3
  <2> QED
    BY <2>2, <2>3
<1> QED
  BY <1>8, <1>9 DEF r

LEMMA RemoveFromList ==
  ASSUME NEW s \in Seq(Model), NEW x \in ToSet(s), IsInjective(s)
  PROVE  /\ RemoveFirst(s, x) \in Seq(Model) /\ ToSet(RemoveFirst(s, x)) = ToSet(s) \ {x}
         /\ IsInjective(RemoveFirst(s, x))
<1> DEFINE I == {i \in 1..Len(s) : s[i] = x}
           k == SelectInSeq(s, LAMBDA v : v = x)
           r == RemoveFirst(s, x)
<1>1. DOMAIN s = 1..Len(s) /\ Len(s) \in Nat
  OBVIOUS
<1>2. PICK i \in 1..Len(s) : s[i] = x
  BY <1>1 DEF ToSet
<1>3. I = {i}
  BY <1>1, <1>2 DEF IsInjective
<1>4. k = i
  <2>1. k = CHOOSE y \in I : \A z \in I : y =< z
    BY <1>3 DEF SelectInSeq, Min
  <2> HIDE DEF I, k
  <2>2. i =< i
    BY <1>1
  <2> QED
    BY <1>3, <2>1, <2>2
<1>5. r = RemoveAt(s, i)
  BY <1>2, <1>4 DEF RemoveFirst
<1> HIDE DEF k, I, r
<1>6. /\ r \in Seq(Model) /\ DOMAIN r = 1..(Len(s) - 1)
      /\ \A j \in 1..(Len(s) - 1) : r[j] = s[IF j < i THEN j ELSE j + 1]
  BY <1>5, LeftOut
<1>8. r \in Seq(Model) /\ DOMAIN r = 1..(Len(s) - 1)
  BY <1>6
<1>9. \A j \in 1..(Len(s) - 1) : r[j] = s[IF j < i THEN j ELSE j + 1]
  BY <1>6
<1>10. IsInjective(r)
  <2>1. ASSUME NEW a \in 1..(Len(s) - 1), NEW b \in 1..(Len(s) - 1), r[a] = r[b] PROVE a = b
    <3>1. (IF a < i THEN a ELSE a + 1) = (IF b < i THEN b ELSE b + 1)
      BY <1>1, <1>9, <2>1 DEF IsInjective
    <3> QED
      BY <3>1
  <2> QED
    BY <1>8, <2>1 DEF IsInjective
<1>11. ToSet(r) = ToSet(s) \ {x}
  <2>1. ASSUME NEW j \in DOMAIN r PROVE r[j] \in ToSet(s) \ {x}
    <3> DEFINE h == IF j < i THEN j ELSE j + 1
    <3>1. j \in 1..(Len(s) - 1) /\ h \in 1..Len(s) /\ h # i
      BY <1>1, <1>8
    <3>2. r[j] = s[h]
      BY <1>9, <3>1
    <3> HIDE DEF h
    <3> QED
      BY <1>1, <1>2, <3>1, <3>2 DEF ToSet, IsInjective
  <2>2. ASSUME NEW h \in 1..Len(s), s[h] # x PROVE s[h] \in ToSet(r)
    <3> DEFINE j == IF h < i THEN h ELSE h - 1
    <3>1. h # i
      BY <1>2, <2>2
    <3>2. j \in 1..(Len(s) - 1) /\ (IF j < i THEN j ELSE j + 1) = h
      BY <1>1, <3>1
    <3>3. r[j] = s[h]
      BY <1>9, <3>2
    <3> HIDE DEF j
    <3> QED
      BY <1>8, <3>2, <3>3 DEF ToSet
  <2> QED
    BY <1>1, <2>1, <2>2 DEF ToSet
<1> QED
  BY <1>8, <1>10, <1>11 DEF r

-----------------------------------------------------------------------------
(* The two maps.                                                           *)

\* What a project is made of.
Parent == Model \cup {NoModel}
Shape(p) ==
  /\ p = [dm_models |-> p.dm_models, dm_child |-> p.dm_child, owned |-> p.owned, title |-> p.title]
  /\ p.dm_models \in [Parent -> Seq(Model)]
  /\ DOMAIN p.dm_child \subseteq Model /\ p.dm_child \in [DOMAIN p.dm_child -> Parent]
  /\ p.title \in [Model -> {"old", "new"}]

\* MapsAgree of a project that need not be the current one.
Agree(p) ==
  \A m \in Model, r \in Parent :
    /\ m \in ToSet(p.dm_models[r]) <=> m \in DOMAIN p.dm_child /\ p.dm_child[m] = r
    /\ m \in ToSet(p.dm_models[r]) => m \in p.owned
    /\ IsInjective(p.dm_models[r])

LEMMA Lists ==
  ASSUME NEW p, Shape(p), NEW r \in Parent
  PROVE  p.dm_models[r] \in Seq(Model) /\ ToSet(p.dm_models[r]) \subseteq Model
<1>1. p.dm_models[r] \in Seq(Model)
  BY DEF Shape
<1> QED
  BY <1>1 DEF ToSet

\* What add_model changes.
LEMMA Added ==
  ASSUME NEW p, Shape(p), NEW r \in Parent, NEW m \in Model
  PROVE  LET q == AddTitled(p, r, m)
         IN  /\ Shape(q) /\ DOMAIN q.dm_child = DOMAIN p.dm_child \cup {m}
             /\ q.dm_child[m] = r /\ q.owned = p.owned \cup {m}
             /\ \A c \in DOMAIN p.dm_child \ {m} : q.dm_child[c] = p.dm_child[c]
             /\ q.dm_models[r] = Append(p.dm_models[r], m)
             /\ \A x \in Parent \ {r} : q.dm_models[x] = p.dm_models[x]
             /\ q.title[m] = "old" /\ \A c \in Model \ {m} : q.title[c] = p.title[c]
<1> DEFINE q == AddTitled(p, r, m)
<1>1. q = [dm_models |-> [p.dm_models EXCEPT ![r] = Append(@, m)],
           dm_child |-> With(p.dm_child, m, r), owned |-> p.owned \cup {m},
           title |-> [p.title EXCEPT ![m] = "old"]]
  <2>1. PICK f, g, o, t : p = [dm_models |-> f, dm_child |-> g, owned |-> o, title |-> t]
    BY DEF Shape
  <2>2. p.dm_models = f /\ p.dm_child = g /\ p.owned = o /\ p.title = t
    BY <2>1
  <2> DEFINE p1 == [p EXCEPT !.title[m] = "old"]
             p2 == [p1 EXCEPT !.owned = @ \cup {m}]
             p3 == [p2 EXCEPT !.dm_models[r] = Append(@, m)]
             p4 == [p3 EXCEPT !.dm_child = With(@, m, r)]
  <2>3. p1 = [dm_models |-> f, dm_child |-> g, owned |-> o, title |-> [t EXCEPT ![m] = "old"]]
    BY <2>1
  <2>4. q = p4
    BY DEF AddTitled, AddModel
  <2> DEFINE t2 == [t EXCEPT ![m] = "old"]
             f2 == [f EXCEPT ![r] = Append(@, m)]
             g2 == With(g, m, r)
  <2>5. p2 = [dm_models |-> f, dm_child |-> g, owned |-> o \cup {m}, title |-> t2]
    <3> HIDE DEF t2
    <3>1. p1 = [dm_models |-> f, dm_child |-> g, owned |-> o, title |-> t2]
      BY <2>3 DEF t2
    <3> HIDE DEF p1
    <3> QED
      BY <3>1
  <2> HIDE DEF p2, t2
  <2>6. p3 = [dm_models |-> f2, dm_child |-> g, owned |-> o \cup {m}, title |-> t2]
    <3>1. p2.dm_models = f
      BY <2>5
    <3>2. p3 = [p2 EXCEPT !.dm_models = f2]
      BY <3>1
    <3> HIDE DEF p3, f2
    <3> QED
      BY <2>5, <3>2
  <2> HIDE DEF p3, f2
  <2>7. p4 = [dm_models |-> f2, dm_child |-> g2, owned |-> o \cup {m}, title |-> t2]
    <3>1. p3.dm_child = g
      BY <2>6
    <3>2. p4 = [p3 EXCEPT !.dm_child = g2]
      BY <3>1
    <3> HIDE DEF p4, g2
    <3> QED
      BY <2>6, <3>2
  <2> HIDE DEF p4, q
  <2> QED
    BY <2>2, <2>4, <2>7 DEF f2, t2
<1>2. /\ DOMAIN q.dm_child = DOMAIN p.dm_child \cup {m} /\ q.dm_child[m] = r
      /\ \A c \in DOMAIN p.dm_child \ {m} : q.dm_child[c] = p.dm_child[c]
  BY <1>1 DEF With
<1>3. q.dm_child = [c \in DOMAIN q.dm_child |-> q.dm_child[c]]
  BY <1>1 DEF With
<1>4. p.dm_models[r] \in Seq(Model) /\ Append(p.dm_models[r], m) \in Seq(Model)
  BY Lists, AppendList
<1>5. /\ q.dm_models \in [Parent -> Seq(Model)] /\ q.dm_models[r] = Append(p.dm_models[r], m)
      /\ \A x \in Parent \ {r} : q.dm_models[x] = p.dm_models[x]
  <2>1. q.dm_models = [p.dm_models EXCEPT ![r] = Append(p.dm_models[r], m)]
    BY <1>1
  <2> QED
    BY <1>4, <2>1 DEF Shape
<1>6. /\ q.title \in [Model -> {"old", "new"}]
      /\ q.title[m] = "old" /\ \A c \in Model \ {m} : q.title[c] = p.title[c]
  BY <1>1 DEF Shape
<1>7. q = [dm_models |-> q.dm_models, dm_child |-> q.dm_child, owned |-> q.owned, title |-> q.title]
      /\ q.owned = p.owned \cup {m}
  BY <1>1
<1>8. q.dm_child \in [DOMAIN q.dm_child -> Parent] /\ DOMAIN q.dm_child \subseteq Model
  BY <1>2, <1>3 DEF Shape
<1> HIDE DEF q
<1>9. Shape(q)
  BY <1>5, <1>6, <1>7, <1>8 DEF Shape
<1> QED
  BY <1>2, <1>5, <1>6, <1>7, <1>9 DEF q

\* A model that is in no project may be added to one.
LEMMA AddAgrees ==
  ASSUME NEW p, Shape(p), Agree(p), NEW r \in Parent, NEW m \in Model, m \notin DOMAIN p.dm_child
  PROVE  Agree(AddTitled(p, r, m))
<1> DEFINE q == AddTitled(p, r, m)
<1>1. /\ Shape(q) /\ DOMAIN q.dm_child = DOMAIN p.dm_child \cup {m}
      /\ q.dm_child[m] = r /\ q.owned = p.owned \cup {m}
      /\ \A c \in DOMAIN p.dm_child \ {m} : q.dm_child[c] = p.dm_child[c]
      /\ q.dm_models[r] = Append(p.dm_models[r], m)
      /\ \A x \in Parent \ {r} : q.dm_models[x] = p.dm_models[x]
  BY Added
<1> HIDE DEF q
<1>2. \A x \in Parent : m \notin ToSet(p.dm_models[x]) /\ IsInjective(p.dm_models[x])
  BY DEF Agree
<1>3. ToSet(q.dm_models[r]) = ToSet(p.dm_models[r]) \cup {m} /\ IsInjective(q.dm_models[r])
  BY <1>1, <1>2, Lists, AppendList
<1>4. ASSUME NEW c \in Model, NEW x \in Parent
      PROVE  /\ c \in ToSet(q.dm_models[x]) <=> c \in DOMAIN q.dm_child /\ q.dm_child[c] = x
             /\ c \in ToSet(q.dm_models[x]) => c \in q.owned
             /\ IsInjective(q.dm_models[x])
  <2>1. /\ c \in ToSet(p.dm_models[x]) <=> c \in DOMAIN p.dm_child /\ p.dm_child[c] = x
        /\ c \in ToSet(p.dm_models[x]) => c \in p.owned
    BY DEF Agree
  <2>2. CASE x = r
    BY <1>1, <1>3, <2>1, <2>2
  <2>3. CASE x # r
    BY <1>1, <1>2, <2>1, <2>3
  <2> QED
    BY <2>2, <2>3
<1> QED
  BY <1>4 DEF Agree, q

\* What remove_model erases.
Gone(p, m) == {m} \cup UNION {ToSet(p.dm_models[x]) : x \in Emptied(p, m)}

LEMMA Removed ==
  ASSUME NEW p, Shape(p), Agree(p), NEW m \in DOMAIN p.dm_child
  PROVE  LET r == p.dm_child[m]
             q == RemoveModel(p, r, m)
         IN  /\ Shape(q) /\ DOMAIN q.dm_child = DOMAIN p.dm_child \ Gone(p, m)
             /\ \A c \in DOMAIN q.dm_child : q.dm_child[c] = p.dm_child[c]
             /\ q.owned = p.owned \ {m} /\ q.title = p.title
             /\ \A x \in Emptied(p, m) : q.dm_models[x] = <<>>
             /\ \A x \in Parent \ Emptied(p, m) :
                  q.dm_models[x] = IF x = r THEN RemoveFirst(p.dm_models[x], m) ELSE p.dm_models[x]
<1> DEFINE r == p.dm_child[m]
           q == RemoveModel(p, r, m)
           e == Emptied(p, m)
<1>1. q = [dm_models |-> [x \in Parent |-> IF x \in e THEN <<>>
                                          ELSE IF x = r THEN RemoveFirst(p.dm_models[x], m)
                                          ELSE p.dm_models[x]],
           dm_child |-> Without(p.dm_child, Gone(p, m)), owned |-> p.owned \ {m}, title |-> p.title]
  <2> DEFINE p1 == [p EXCEPT !.owned = @ \ {m}]
  <2>1. p1 = [dm_models |-> p.dm_models, dm_child |-> p.dm_child, owned |-> p.owned \ {m}, title |-> p.title]
    <3>1. PICK f, g, o, t : p = [dm_models |-> f, dm_child |-> g, owned |-> o, title |-> t]
      BY DEF Shape
    <3> QED
      BY <3>1
  <2>2. Emptied(p1, m) = e
    BY <2>1 DEF Emptied
  <2>3. DOMAIN p1.dm_models = Parent
    BY <2>1 DEF Shape
  <2>4. q = RemoveByRange(p1, r, m)
    BY DEF RemoveModel
  <2> HIDE DEF p1, q, e
  <2>5. q = [p1 EXCEPT !.dm_child = Without(@, Gone(p, m)),
                       !.dm_models = [x \in DOMAIN p1.dm_models |-> IF x \in e THEN <<>>
                                          ELSE IF x = r THEN RemoveFirst(p1.dm_models[x], m)
                                          ELSE p1.dm_models[x]]]
    BY <2>1, <2>2, <2>4 DEF RemoveByRange, Gone, e
  <2> QED
    BY <2>1, <2>3, <2>5
<1>2. /\ DOMAIN q.dm_child = DOMAIN p.dm_child \ Gone(p, m)
      /\ q.dm_child = [c \in DOMAIN p.dm_child \ Gone(p, m) |-> p.dm_child[c]]
  BY <1>1 DEF Without, Restrict
<1>3. /\ q.owned = p.owned \ {m} /\ q.title = p.title
      /\ \A x \in Parent : q.dm_models[x] = IF x \in e THEN <<>>
                                          ELSE IF x = r THEN RemoveFirst(p.dm_models[x], m)
                                          ELSE p.dm_models[x]
      /\ q.dm_models = [x \in Parent |-> q.dm_models[x]]
      /\ q = [dm_models |-> q.dm_models, dm_child |-> q.dm_child, owned |-> q.owned, title |-> q.title]
  BY <1>1
<1>4. r \in Parent /\ m \in Model /\ m \in ToSet(p.dm_models[r]) /\ e \subseteq Parent
  BY DEF Shape, Agree, Emptied, Parent
<1> HIDE DEF q, e
<1>5. ASSUME NEW x \in Parent PROVE q.dm_models[x] \in Seq(Model)
  <2>1. <<>> \in Seq(Model)
    OBVIOUS
  <2>2. p.dm_models[x] \in Seq(Model)
    BY Lists
  <2>3. x = r => RemoveFirst(p.dm_models[x], m) \in Seq(Model)
    BY <1>4, <2>2, RemoveFromList DEF Agree
  <2> QED
    BY <1>3, <2>1, <2>2, <2>3
<1>6. Shape(q)
  <2>1. q.dm_models \in [Parent -> Seq(Model)]
    BY <1>3, <1>5
  <2> QED
    BY <1>2, <1>3, <2>1 DEF Shape
<1> QED
  BY <1>2, <1>3, <1>4, <1>6 DEF q, e

LEMMA RemoveAgrees ==
  ASSUME NEW p, Shape(p), Agree(p), NEW m \in DOMAIN p.dm_child
  PROVE  Agree(RemoveModel(p, p.dm_child[m], m))
<1> DEFINE r == p.dm_child[m]
           q == RemoveModel(p, r, m)
           e == Emptied(p, m)
<1>1. /\ Shape(q) /\ DOMAIN q.dm_child = DOMAIN p.dm_child \ Gone(p, m)
      /\ \A c \in DOMAIN q.dm_child : q.dm_child[c] = p.dm_child[c]
      /\ q.owned = p.owned \ {m}
      /\ \A x \in e : q.dm_models[x] = <<>>
      /\ \A x \in Parent \ e :
           q.dm_models[x] = IF x = r THEN RemoveFirst(p.dm_models[x], m) ELSE p.dm_models[x]
  BY Removed
<1>2. r \in Parent /\ m \in Model /\ m \in ToSet(p.dm_models[r]) /\ e \subseteq Parent
  BY DEF Shape, Agree, Emptied, Parent
<1>3. \A c \in Gone(p, m) : c = m \/ \E x \in e : c \in ToSet(p.dm_models[x])
  BY DEF Gone
<1>4. m \in Gone(p, m) /\ \A x \in e : ToSet(p.dm_models[x]) \subseteq Gone(p, m)
  BY DEF Gone
<1> HIDE DEF q, e
<1>5. ASSUME NEW c \in Model, NEW x \in Parent
      PROVE  /\ c \in ToSet(q.dm_models[x]) <=> c \in DOMAIN q.dm_child /\ q.dm_child[c] = x
             /\ c \in ToSet(q.dm_models[x]) => c \in q.owned
             /\ IsInjective(q.dm_models[x])
  <2>1. \A d \in Model, y \in Parent :
          /\ d \in ToSet(p.dm_models[y]) <=> d \in DOMAIN p.dm_child /\ p.dm_child[d] = y
          /\ d \in ToSet(p.dm_models[y]) => d \in p.owned
          /\ IsInjective(p.dm_models[y])
    BY DEF Agree
  <2>2. CASE x \in e
    <3>1. ToSet(q.dm_models[x]) = {} /\ IsInjective(q.dm_models[x])
      BY <1>1, <2>2 DEF ToSet, IsInjective
    <3> QED
      BY <1>1, <1>4, <2>1, <2>2, <3>1
  <2>3. CASE x \notin e
    <3>1. ToSet(q.dm_models[x]) = ToSet(p.dm_models[x]) \ {m} /\ IsInjective(q.dm_models[x])
      <4>1. CASE x = r
        BY <1>1, <1>2, <2>1, <2>3, <4>1, Lists, RemoveFromList
      <4>2. CASE x # r
        BY <1>1, <1>2, <2>1, <2>3, <4>2
      <4> QED
        BY <4>1, <4>2
    <3>2. ASSUME c \in ToSet(p.dm_models[x]), c # m PROVE c \notin Gone(p, m)
      BY <1>2, <1>3, <2>1, <2>3, <3>2
    <3> QED
      BY <1>1, <1>2, <1>4, <2>1, <3>1, <3>2
  <2> QED
    BY <2>2, <2>3
<1> QED
  BY <1>5 DEF Agree, q

\* Nobody can add to the project what a window will put out, or put anything below it.
Outs(cs) == {w.out : w \in cs}
OutsInv(p, cs) ==
  /\ cs \subseteq [model : Model, out : Model]
  /\ \A o \in Outs(cs) : o \notin DOMAIN p.dm_child \cup p.owned /\ p.dm_models[o] = <<>>
  /\ \A v, w \in cs : v.out = w.out => v = w
Sound(p, cs) == Shape(p) /\ Agree(p) /\ OutsInv(p, cs)
ProjectInv == Sound(prj, calcs) /\ removing \in [Model -> Nat]

\* A new model goes to the top or below a model that is in the project.
LEMMA PutKeeps ==
  ASSUME NEW p, NEW cs, Sound(p, cs), NEW r \in Parent \ Outs(cs), NEW m \in Model \ DOMAIN p.dm_child,
         r # m, NEW ds \in SUBSET cs, m \notin Outs(ds)
  PROVE  Sound(AddTitled(p, r, m), ds)
<1> DEFINE q == AddTitled(p, r, m)
<1>1. /\ Shape(q) /\ DOMAIN q.dm_child = DOMAIN p.dm_child \cup {m} /\ q.owned = p.owned \cup {m}
      /\ \A x \in Parent \ {r} : q.dm_models[x] = p.dm_models[x]
  BY Added DEF Sound
<1>2. Agree(q)
  BY AddAgrees DEF Sound
<1> HIDE DEF q
<1>3. ASSUME NEW o \in Outs(ds) PROVE o \in Parent /\ o # m /\ o # r /\ o \in Outs(cs)
  BY DEF Sound, OutsInv, Outs, Parent
<1>4. OutsInv(q, ds)
  <2>1. \A o \in Outs(ds) : o \notin DOMAIN q.dm_child \cup q.owned /\ q.dm_models[o] = <<>>
    BY <1>1, <1>3 DEF Sound, OutsInv
  <2>2. ds \subseteq [model : Model, out : Model] /\ \A v, w \in ds : v.out = w.out => v = w
    BY DEF Sound, OutsInv
  <2> QED
    BY <2>1, <2>2 DEF OutsInv
<1> QED
  BY <1>1, <1>2, <1>4 DEF Sound, q

\* remove_model keeps the two maps and takes only what is below the model.
LEMMA GoneIsBelow ==
  ASSUME NEW p, Shape(p), Agree(p), NEW m \in DOMAIN p.dm_child
  PROVE  Gone(p, m) \subseteq Below(p.dm_child, {m}) \cap Model
<1> DEFINE b == Below(p.dm_child, {m})
<1>1. m \in Model /\ DOMAIN p.dm_child \subseteq Model
  BY DEF Shape
<1>2. m \in b /\ b \subseteq Model
  BY <1>1 DEF Below
<1>3. \A c \in DOMAIN p.dm_child : p.dm_child[c] \in b => c \in b
  BY DEF Below, HasAllBelow
<1> HIDE DEF b
<1>4. ASSUME NEW x \in b, NEW c \in ToSet(p.dm_models[x]) PROVE c \in b
  <2>1. x \in Parent /\ c \in Model
    BY <1>2, <1>4, Lists DEF Parent
  <2>2. c \in DOMAIN p.dm_child /\ p.dm_child[c] = x
    BY <2>1 DEF Agree
  <2> QED
    BY <1>3, <2>2
<1>5. Emptied(p, m) \subseteq b
  <2>1. ASSUME NEW x \in b, p.dm_models[x] # <<>> PROVE Head(p.dm_models[x]) \in b
    <3>1. p.dm_models[x] \in Seq(Model)
      BY <1>2, Lists DEF Parent
    <3>2. Head(p.dm_models[x]) \in ToSet(p.dm_models[x])
      BY <2>1, <3>1 DEF ToSet
    <3> QED
      BY <1>4, <3>2
  <2>2. \A x \in b : p.dm_models[x] # <<>> => Head(p.dm_models[x]) \in b
    BY <2>1
  <2> QED
    BY <1>2, <2>2 DEF Emptied
<1> QED
  BY <1>2, <1>4, <1>5 DEF Gone, b

LEMMA TakeKeeps ==
  ASSUME NEW p, NEW cs, Sound(p, cs), NEW m \in DOMAIN p.dm_child
  PROVE  Sound(RemoveModel(p, p.dm_child[m], m), cs)
<1> DEFINE r == p.dm_child[m]
           q == RemoveModel(p, r, m)
<1>1. /\ Shape(q) /\ DOMAIN q.dm_child \subseteq DOMAIN p.dm_child /\ q.owned \subseteq p.owned
      /\ \A x \in Emptied(p, m) : q.dm_models[x] = <<>>
      /\ \A x \in Parent \ Emptied(p, m) : x # r => q.dm_models[x] = p.dm_models[x]
  BY Removed DEF Sound
<1>2. Agree(q)
  BY RemoveAgrees DEF Sound
<1>3. r \in Parent /\ m \in ToSet(p.dm_models[r])
  BY DEF Sound, Shape, Agree, Parent
<1> HIDE DEF q
<1>4. ASSUME NEW o \in Outs(cs)
      PROVE  o \notin DOMAIN q.dm_child \cup q.owned /\ q.dm_models[o] = <<>>
  <2>1. o \in Parent /\ p.dm_models[o] = <<>> /\ o \notin DOMAIN p.dm_child \cup p.owned
    BY DEF Sound, OutsInv, Outs, Parent
  <2>2. o # r
    BY <1>3, <2>1 DEF ToSet
  <2> QED
    BY <1>1, <2>1, <2>2
<1>5. OutsInv(q, cs)
  BY <1>4 DEF Sound, OutsInv
<1> QED
  BY <1>1, <1>2, <1>5 DEF Sound, q

\* Only the titles and owners of models change that are in no list.
LEMMA TitleKeeps ==
  ASSUME NEW p, NEW cs, Sound(p, cs), NEW m \in Model, NEW t \in {"old", "new"}
  PROVE  LET q == [p EXCEPT !.title[m] = t]
         IN  /\ Sound(q, cs) /\ q.dm_models = p.dm_models /\ q.dm_child = p.dm_child
             /\ q.owned = p.owned /\ q.title = [p.title EXCEPT ![m] = t]
<1> DEFINE q == [p EXCEPT !.title[m] = t]
           u == [p.title EXCEPT ![m] = t]
<1>1. PICK f, g, o, v : p = [dm_models |-> f, dm_child |-> g, owned |-> o, title |-> v]
  BY DEF Sound, Shape
<1>2. u \in [Model -> {"old", "new"}]
  BY DEF Sound, Shape
<1>3. q = [p EXCEPT !.title = u]
  OBVIOUS
<1> HIDE DEF q, u
<1>4. q = [dm_models |-> f, dm_child |-> g, owned |-> o, title |-> u]
  BY <1>1, <1>3
<1>5. /\ q.dm_models = p.dm_models /\ q.dm_child = p.dm_child /\ q.owned = p.owned /\ q.title = u
      /\ q = [dm_models |-> q.dm_models, dm_child |-> q.dm_child, owned |-> q.owned, title |-> q.title]
  BY <1>1, <1>4
<1>6. Sound(q, cs)
  BY <1>2, <1>5 DEF Sound, Shape, Agree, OutsInv
<1> QED
  BY <1>5, <1>6 DEF q, u

LEMMA DisownKeeps ==
  ASSUME NEW p, NEW cs, Sound(p, cs), NEW m \in Model, NEW o \in Model, o \notin DOMAIN p.dm_child,
         p.dm_models[o] = <<>>, o \notin Outs(cs)
  PROVE  LET q == [p EXCEPT !.owned = @ \ {o}]
         IN  /\ Sound(q, cs \cup {[model |-> m, out |-> o]})
             /\ q.dm_models = p.dm_models /\ q.dm_child = p.dm_child /\ q.title = p.title
             /\ q.owned = p.owned \ {o}
<1> DEFINE q == [p EXCEPT !.owned = @ \ {o}]
           w == [model |-> m, out |-> o]
           ds == cs \cup {w}
<1>1. PICK f, g, k, v : p = [dm_models |-> f, dm_child |-> g, owned |-> k, title |-> v]
  BY DEF Sound, Shape
<1>2. q = [dm_models |-> f, dm_child |-> g, owned |-> k \ {o}, title |-> v]
  <2>1. p.owned = k
    BY <1>1
  <2>2. q = [p EXCEPT !.owned = k \ {o}]
    BY <2>1
  <2> HIDE DEF q
  <2> QED
    BY <1>1, <2>2
<1> HIDE DEF q
<1>3. /\ q.dm_models = p.dm_models /\ q.dm_child = p.dm_child /\ q.owned = p.owned \ {o} /\ q.title = p.title
      /\ q = [dm_models |-> q.dm_models, dm_child |-> q.dm_child, owned |-> q.owned, title |-> q.title]
  BY <1>1, <1>2
<1>4. Shape(q)
  BY <1>3 DEF Sound, Shape
<1>5. Agree(q)
  BY <1>3 DEF Sound, Agree
<1>6. Outs(ds) = Outs(cs) \cup {o} /\ w.out = o /\ w \in [model : Model, out : Model]
  <2>1. w.out = o /\ w \in [model : Model, out : Model]
    OBVIOUS
  <2> HIDE DEF w
  <2> QED
    BY <2>1 DEF Outs
<1>7. OutsInv(q, ds)
  <2>1. \A x \in Outs(ds) : x \notin DOMAIN q.dm_child \cup q.owned /\ q.dm_models[x] = <<>>
    BY <1>3, <1>6 DEF Sound, OutsInv
  <2>2. ASSUME NEW x \in ds, NEW y \in ds, x.out = y.out PROVE x = y
    <3>1. \A z \in cs : z.out \in Outs(cs)
      BY DEF Outs
    <3> HIDE DEF w
    <3> QED
      BY <1>6, <2>2, <3>1 DEF Sound, OutsInv
  <2>3. ds \subseteq [model : Model, out : Model]
    BY <1>6 DEF Sound, OutsInv
  <2> QED
    BY <2>1, <2>2, <2>3 DEF OutsInv
<1> QED
  BY <1>3, <1>4, <1>5, <1>7 DEF Sound, q

LEMMA Initially == Init => ProjectInv
<1> SUFFICES ASSUME Init PROVE ProjectInv
  OBVIOUS
<1>1. /\ prj.dm_models = [m \in Parent |-> <<>>] /\ prj.dm_child = <<>> /\ prj.owned = {}
      /\ prj.title = [m \in Model |-> "old"]
      /\ prj = [dm_models |-> prj.dm_models, dm_child |-> prj.dm_child, owned |-> prj.owned, title |-> prj.title]
  BY DEF Init, Parent
<1>2. DOMAIN prj.dm_child = {} /\ prj.dm_child \in [DOMAIN prj.dm_child -> Parent]
  BY <1>1
<1>3. <<>> \in Seq(Model) /\ ToSet(<<>>) = {} /\ IsInjective(<<>>)
  BY DEF ToSet, IsInjective
<1>4. Shape(prj)
  BY <1>1, <1>2, <1>3 DEF Shape
<1>5. Agree(prj)
  BY <1>1, <1>2, <1>3 DEF Agree
<1>6. calcs = {} /\ removing \in [Model -> Nat]
  BY DEF Init
<1> QED
  BY <1>4, <1>5, <1>6 DEF ProjectInv, Sound, OutsInv, Outs

LEMMA FreshIsNew ==
  ASSUME ProjectInv, NEW m \in Model, Fresh(m)
  PROVE  m \in Model \ DOMAIN prj.dm_child /\ prj.dm_models[m] = <<>> /\ m \notin Outs(calcs)
BY DEF Fresh, Outs

\* What is in the project, is no window's output.
LEMMA OwnedIsNoOut ==
  ASSUME ProjectInv
  PROVE  /\ \A m \in Model : m \in prj.owned => m \in Parent \ Outs(calcs)
         /\ \A m \in DOMAIN prj.dm_child : m \in Model /\ prj.dm_child[m] \in Parent \ Outs(calcs)
<1>1. ASSUME NEW m \in DOMAIN prj.dm_child PROVE prj.dm_child[m] \notin Outs(calcs)
  <2>1. m \in Model /\ prj.dm_child[m] \in Parent
    BY DEF ProjectInv, Sound, Shape
  <2>2. m \in ToSet(prj.dm_models[prj.dm_child[m]])
    BY <2>1 DEF ProjectInv, Sound, Agree
  <2> QED
    BY <2>2 DEF ToSet, ProjectInv, Sound, OutsInv
<1> QED
  BY <1>1 DEF ProjectInv, Sound, OutsInv, Shape, Parent

\* The only thing a remove window does to the project.
Takes(m) ==
  /\ removing[m] > 0 /\ removing' = [removing EXCEPT ![m] = @ - 1] /\ m \in DOMAIN prj.dm_child
  /\ prj' = RemoveModel(prj, prj.dm_child[m], m)

\* What a step does to the project keeps it sound, and takes nothing but by a remove window.
LEMMA ProjectStep ==
  ASSUME ConstantsAssumption, ProjectInv, Next
  PROVE  /\ ProjectInv'
         /\ DOMAIN prj.dm_child \subseteq DOMAIN prj'.dm_child \/ \E m \in Model : Takes(m)
<1> DEFINE Same == Sound(prj', calcs') /\ DOMAIN prj.dm_child \subseteq DOMAIN prj'.dm_child
           Goal == /\ ProjectInv'
                   /\ DOMAIN prj.dm_child \subseteq DOMAIN prj'.dm_child \/ \E m \in Model : Takes(m)
<1>0. ASSUME Same, removing' \in [Model -> Nat] PROVE Goal
  BY <1>0 DEF ProjectInv, Sound, Shape, Agree, OutsInv, Outs
<1>a. NoModel \in Parent /\ NoModel \notin Model /\ NoModel \notin Outs(calcs)
  BY DEF ConstantsAssumption, Parent, ProjectInv, Sound, OutsInv, Outs
<1>b. Sound(prj, calcs) /\ removing \in [Model -> Nat]
  BY DEF ProjectInv
<1>c. ASSUME NEW r \in Parent \ Outs(calcs), NEW m \in Model \ DOMAIN prj.dm_child, r # m,
             prj' = AddTitled(prj, r, m), calcs' \subseteq calcs, m \notin Outs(calcs'),
             removing' = removing
      PROVE  Goal
  <2>1. Sound(prj', calcs')
    BY <1>b, <1>c, PutKeeps
  <2>2. DOMAIN prj.dm_child \subseteq DOMAIN prj'.dm_child
    BY <1>b, <1>c, Added DEF Sound
  <2> QED
    BY <1>0, <1>b, <1>c, <2>1, <2>2
<1>d. ASSUME prj' = prj, calcs' \subseteq calcs, removing' \in [Model -> Nat] PROVE Goal
  <2>1. Sound(prj', calcs')
    BY <1>b, <1>d DEF Sound, OutsInv, Outs
  <2> QED
    BY <1>0, <1>d, <2>1
<1>1. CASE \E m \in Model \cup {Root} : Select(m)
  BY <1>1, <1>b, <1>d DEF Select
<1>2. ASSUME NEW m \in Model, NEW t \in {"old", "new"}, RenameOk(m, t) PROVE Goal
  <2>1. prj' = [prj EXCEPT !.title[m] = t] /\ calcs' = calcs /\ removing' = removing
    BY <1>2 DEF RenameOk
  <2>2. Sound(prj', calcs') /\ prj'.dm_child = prj.dm_child
    BY <1>b, <2>1, TitleKeeps
  <2> QED
    BY <1>0, <1>b, <2>1, <2>2
<1>3. ASSUME NEW m \in Model, OpenRename(m) \/ CloseRename(m) PROVE Goal
  BY <1>3, <1>b, <1>d DEF OpenRename, CloseRename
<1>4. ASSUME NEW m \in Model, Insert(m) PROVE Goal
  BY <1>4, <1>a, <1>c, FreshIsNew DEF Insert
<1>5. ASSUME NEW m \in Model, Copy(m) PROVE Goal
  <2>1. CASE prj' = prj
    BY <1>5, <1>b, <1>d, <2>1 DEF Copy
  <2>2. CASE prj' # prj
    <3>1. m \in DOMAIN prj.dm_child /\ removing' = removing /\ calcs' = calcs
      BY <1>5, <2>2 DEF Copy
    <3>2. PICK new \in Model : Fresh(new) /\ prj' = AddTitled(prj, prj.dm_child[m], new)
      BY <1>5, <2>2 DEF Copy
    <3>3. prj.dm_child[m] # new
      <4>1. m \in ToSet(prj.dm_models[prj.dm_child[m]])
        BY <1>b, <3>1 DEF Sound, Agree, Shape
      <4> QED
        BY <3>2, <4>1, FreshIsNew DEF ToSet
    <3> QED
      BY <1>c, <3>1, <3>2, <3>3, FreshIsNew, OwnedIsNoOut
  <2> QED
    BY <2>1, <2>2
<1>6. ASSUME NEW m \in Model, OpenRemove(m) PROVE Goal
  BY <1>6, <1>b, <1>d DEF OpenRemove
<1>7. ASSUME NEW m \in Model, CloseRemove(m) PROVE Goal
  BY <1>7, <1>b, <1>d DEF CloseRemove
<1>8. ASSUME NEW m \in Model, RemoveOk(m) PROVE Goal
  <2>1. calcs' = calcs
    BY <1>8 DEF RemoveOk
  <2>2. removing' \in [Model -> Nat]
    BY <1>8, <1>b DEF RemoveOk
  <2>3. CASE prj' = prj
    BY <1>d, <2>1, <2>2, <2>3
  <2>4. CASE prj' # prj
    <3>1. /\ m \in DOMAIN prj.dm_child /\ prj' = RemoveModel(prj, prj.dm_child[m], m)
          /\ removing[m] > 0 /\ removing' = [removing EXCEPT ![m] = @ - 1]
      BY <1>8, <2>4 DEF RemoveOk
    <3>2. Sound(prj', calcs')
      BY <1>b, <2>1, <3>1, TakeKeeps
    <3>3. Takes(m)
      BY <3>1 DEF Takes
    <3>4. ProjectInv'
      BY <2>2, <3>2 DEF ProjectInv, Sound, Shape, Agree, OutsInv, Outs
    <3> QED
      BY <3>3, <3>4
  <2> QED
    BY <2>3, <2>4
<1>9. ASSUME NEW m \in Model, NEW n \in Model, OpenFile(m, n) PROVE Goal
  <2> DEFINE p == AddTitled(prj, NoModel, m)
  <2>1. Fresh(m) /\ Fresh(n) /\ m # n /\ prj' = AddTitled(p, m, n) /\ calcs' = calcs /\ removing' = removing
    BY <1>9 DEF OpenFile
  <2>2. Sound(p, calcs) /\ DOMAIN p.dm_child = DOMAIN prj.dm_child \cup {m}
    <3>1. NoModel \in Parent \ Outs(calcs) /\ m \in Model \ DOMAIN prj.dm_child /\ m \notin Outs(calcs)
      BY <1>a, <2>1, FreshIsNew
    <3>2. Sound(p, calcs)
      BY <1>a, <1>b, <3>1, PutKeeps
    <3>3. Shape(prj)
      BY <1>b DEF Sound
    <3>4. DOMAIN p.dm_child = DOMAIN prj.dm_child \cup {m}
      BY <1>a, <3>3, Added
    <3> QED
      BY <3>2, <3>4
  <2> HIDE DEF p
  <2>3. m \in Parent \ Outs(calcs) /\ n \in Model \ DOMAIN p.dm_child /\ n \notin Outs(calcs)
    BY <2>1, <2>2, FreshIsNew DEF Parent
  <2>4. Sound(prj', calcs')
    BY <2>1, <2>2, <2>3, PutKeeps
  <2>5. DOMAIN prj'.dm_child = DOMAIN p.dm_child \cup {n}
    <3>1. Shape(p) /\ m \in Parent
      BY <2>2, <2>3 DEF Sound
    <3> QED
      BY <2>1, <3>1, Added
  <2> QED
    BY <1>0, <1>b, <2>1, <2>2, <2>4, <2>5
<1>10. ASSUME NEW m \in Model, NEW n \in Model, CalcNow(m, n) PROVE Goal
  BY <1>10, <1>c, FreshIsNew, OwnedIsNoOut DEF CalcNow
<1>11. ASSUME NEW m \in Model, NEW n \in Model, OpenCalc(m, n) PROVE Goal
  <2>1. /\ Fresh(n) /\ calcs' = calcs \cup {[model |-> m, out |-> n]}
        /\ prj' = [prj EXCEPT !.owned = @ \ {n}] /\ removing' = removing
    BY <1>11 DEF OpenCalc
  <2>2. n \in Model \ DOMAIN prj.dm_child /\ prj.dm_models[n] = <<>> /\ n \notin Outs(calcs)
    BY <2>1, FreshIsNew
  <2>3. Sound(prj', calcs') /\ prj'.dm_child = prj.dm_child
    BY <1>b, <2>1, <2>2, DisownKeeps
  <2> QED
    BY <1>0, <1>b, <2>1, <2>3
<1>12. ASSUME NEW w \in calcs, CalcOk(w) PROVE Goal
  <2>1. calcs' = calcs \ {w} /\ removing' = removing
    BY <1>12 DEF CalcOk
  <2>2. w \in [model : Model, out : Model] /\ w.out \in Outs(calcs) /\ w.out \notin Outs(calcs')
    BY <1>b, <2>1 DEF Sound, OutsInv, Outs
  <2>3. CASE w.model \in prj.owned
    <3>1. prj' = AddTitled(prj, w.model, w.out)
      BY <1>12, <2>3 DEF CalcOk
    <3>2. w.out \in Model \ DOMAIN prj.dm_child /\ w.model # w.out /\ w.model \in Model
      BY <1>b, <2>2, <2>3 DEF Sound, OutsInv
    <3>3. calcs' \subseteq calcs
      BY <2>1
    <3> QED
      BY <1>c, <2>1, <2>2, <2>3, <3>1, <3>2, <3>3, OwnedIsNoOut
  <2>4. CASE w.model \notin prj.owned
    BY <1>12, <1>b, <1>d, <2>1, <2>4 DEF CalcOk
  <2> QED
    BY <2>3, <2>4
<1>13. ASSUME NEW w \in calcs, CloseCalc(w) PROVE Goal
  BY <1>13, <1>b, <1>d DEF CloseCalc
<1> QED
  BY <1>1, <1>2, <1>3, <1>4, <1>5, <1>6, <1>7, <1>8, <1>9, <1>10, <1>11, <1>12, <1>13 DEF Next

\* The inductive invariant of the two maps.
THEOREM ProjectHolds == Spec => []ProjectInv
<1>1. ProjectInv /\ [Next]_vars => ProjectInv'
  <2>1. ASSUME ProjectInv, UNCHANGED vars PROVE ProjectInv'
    BY <2>1 DEF vars, ProjectInv, Sound, Shape, Agree, OutsInv, Outs
  <2> QED
    BY <2>1, ProjectStep, ConstantsAssumption
<1> QED
  BY <1>1, Initially, PTL DEF Spec

\* The two maps of a project agree, and a model that is in them knows its project, for any
\* number of models and whatever windows are confirmed on what has changed since.
THEOREM MapsAlwaysAgree == Spec => []MapsAgree
<1>1. ProjectInv => MapsAgree
  BY DEF ProjectInv, Sound, Agree, MapsAgree, Parent
<1> QED
  BY <1>1, ProjectHolds, PTL

\* A model leaves the project only when it, or one above it, is removed.
THEOREM OnlyBelowIsRemoved == Spec => RemovesOnlyBelow
<1> DEFINE A == \A m \in DOMAIN prj.dm_child \ DOMAIN prj'.dm_child :
                  \E r \in Model : removing'[r] < removing[r] /\ m \in Below(prj.dm_child, {r})
<1>1. ASSUME ProjectInv, Next PROVE A
  <2>1. CASE DOMAIN prj.dm_child \subseteq DOMAIN prj'.dm_child
    BY <2>1
  <2>2. ASSUME NEW r \in Model, Takes(r) PROVE A
    <3>1. removing'[r] < removing[r]
      BY <1>1, <2>2 DEF Takes, ProjectInv
    <3>2. DOMAIN prj'.dm_child = DOMAIN prj.dm_child \ Gone(prj, r)
      BY <1>1, <2>2, Removed DEF Takes, ProjectInv, Sound
    <3>3. Gone(prj, r) \subseteq Below(prj.dm_child, {r})
      BY <1>1, <2>2, GoneIsBelow DEF Takes, ProjectInv, Sound
    <3> QED
      BY <3>1, <3>2, <3>3
  <2> QED
    BY <1>1, <2>1, <2>2, ProjectStep, ConstantsAssumption
<1>2. ProjectInv /\ [Next]_vars => [A]_vars
  BY <1>1
<1> QED
  BY <1>2, ProjectHolds, PTL DEF Spec, RemovesOnlyBelow

-----------------------------------------------------------------------------
(* The walk over the tree.                                                 *)

\* A set of numbers that is not empty has a least one.
LEMMA Least ==
  ASSUME NEW S \in SUBSET Nat, S # {}
  PROVE  \E n \in S : \A k \in S : n <= k
<1> DEFINE R == OpToRel(<, Nat)
<1>1. PICK n \in S : \A k \in S : ~(<<k, n>> \in R)
  <2>1. IsWellFoundedOn(R, Nat)
    BY NatLessThanWellFounded
  <2> HIDE DEF R
  <2> QED
    BY <2>1, WFMin
<1>2. ASSUME NEW k \in S PROVE n <= k
  <2> DEFINE e == <<k, n>>
  <2>1. n \in Nat /\ k \in Nat /\ e \notin R
    BY <1>1
  <2>2. e \in Nat \X Nat /\ e[1] = k /\ e[2] = n
    BY <2>1
  <2>3. ~(e[1] < e[2])
    <3> HIDE DEF e
    <3> QED
      BY <2>1, <2>2 DEF OpToRel
  <2>4. n \in Nat /\ k \in Nat /\ ~(k < n)
    BY <2>1, <2>2, <2>3, Zenon
  <2> HIDE DEF R, e
  <2> QED
    BY <2>4
<1> QED
  BY <1>2

\* What holds of 0, and of k + 1 when it holds of k, holds of them all.
LEMMA Numbers ==
  ASSUME NEW S, 0 \in S, \A k \in Nat : k \in S => k + 1 \in S
  PROVE  Nat \subseteq S
<1> SUFFICES ASSUME Nat \ S # {} PROVE FALSE
  OBVIOUS
<1>1. PICK n \in Nat \ S : \A k \in Nat \ S : n <= k
  BY Least
<1>2. n # 0 /\ n - 1 \in Nat
  OBVIOUS
<1>3. n - 1 \in S
  BY <1>1, <1>2
<1> QED
  BY <1>1, <1>2, <1>3

\* What two sequences have is what either has.
LEMMA Joined ==
  ASSUME NEW E, NEW s \in Seq(E), NEW t \in Seq(E)
  PROVE  s \o t \in Seq(E) /\ ToSet(s \o t) = ToSet(s) \cup ToSet(t)
<1> DEFINE u == s \o t
<1>1. /\ u \in Seq(E) /\ DOMAIN u = 1..(Len(s) + Len(t)) /\ Len(s) \in Nat /\ Len(t) \in Nat
      /\ DOMAIN s = 1..Len(s) /\ DOMAIN t = 1..Len(t)
      /\ \A i \in 1..(Len(s) + Len(t)) : u[i] = IF i <= Len(s) THEN s[i] ELSE t[i - Len(s)]
  OBVIOUS
<1> HIDE DEF u
<1>2. ASSUME NEW i \in DOMAIN u PROVE u[i] \in ToSet(s) \cup ToSet(t)
  <2>1. CASE i <= Len(s)
    <3>1. i \in DOMAIN s /\ u[i] = s[i]
      BY <1>1, <2>1
    <3> QED
      BY <3>1 DEF ToSet
  <2>2. CASE ~(i <= Len(s))
    <3>1. i - Len(s) \in DOMAIN t /\ u[i] = t[i - Len(s)]
      BY <1>1, <2>2
    <3> QED
      BY <3>1 DEF ToSet
  <2> QED
    BY <2>1, <2>2
<1>3. ASSUME NEW i \in DOMAIN s PROVE s[i] \in ToSet(u)
  <2>1. i \in DOMAIN u /\ u[i] = s[i]
    BY <1>1
  <2> QED
    BY <2>1 DEF ToSet
<1>4. ASSUME NEW i \in DOMAIN t PROVE t[i] \in ToSet(u)
  <2>1. Len(s) + i \in DOMAIN u /\ u[Len(s) + i] = t[i]
    BY <1>1
  <2> QED
    BY <2>1 DEF ToSet
<1>5. ToSet(s) \subseteq ToSet(u) /\ ToSet(t) \subseteq ToSet(u)
  BY <1>3, <1>4 DEF ToSet
<1> QED
  <2>1. ToSet(u) \subseteq ToSet(s) \cup ToSet(t)
    BY <1>2 DEF ToSet
  <2> QED
    BY <1>1, <1>5, <2>1 DEF u

\* What a sequence of sequences has, flattened.
LEMMA Flat ==
  ASSUME NEW E, NEW n \in Nat, NEW ss, ss = [i \in 1..n |-> ss[i]], \A i \in 1..n : ss[i] \in Seq(E)
  PROVE  FlattenSeq(ss) \in Seq(E) /\ ToSet(FlattenSeq(ss)) = UNION {ToSet(ss[i]) : i \in 1..n}
<1>1. ss \in Seq(Seq(E)) /\ Len(ss) = n
  <2>1. ss \in [1..n -> Seq(E)]
    OBVIOUS
  <2> QED
    BY <2>1
<1> DEFINE Good(k, f) == f = [i \in 1..k |-> IF i = 1 THEN ss[i] ELSE f[i - 1] \o ss[i]]
           S == {k \in Nat : \E f : Good(k, f)}
<1>2. 0 \in S
  <2> DEFINE f == [i \in 1..0 |-> 0]
  <2>1. Good(0, f)
    OBVIOUS
  <2> HIDE DEF f, Good
  <2> QED
    BY <2>1
<1>3. ASSUME NEW k \in Nat, k \in S PROVE k + 1 \in S
  <2>1. PICK f : Good(k, f)
    BY <1>3
  <2> DEFINE g == [i \in 1..(k + 1) |-> IF i <= k THEN f[i] ELSE IF i = 1 THEN ss[i] ELSE f[i - 1] \o ss[i]]
  <2>2. ASSUME NEW i \in 1..(k + 1) PROVE g[i] = IF i = 1 THEN ss[i] ELSE g[i - 1] \o ss[i]
    <3>1. i # 1 => i - 1 \in 1..(k + 1) /\ i - 1 <= k
      BY <2>2
    <3>2. i # 1 => g[i - 1] = f[i - 1]
      BY <3>1
    <3>3. i <= k => f[i] = IF i = 1 THEN ss[i] ELSE f[i - 1] \o ss[i]
      <4>1. \A j \in 1..k : f[j] = IF j = 1 THEN ss[j] ELSE f[j - 1] \o ss[j]
        BY <2>1
      <4>2. i <= k => i \in 1..k
        OBVIOUS
      <4> HIDE DEF g, Good
      <4> QED
        BY <4>1, <4>2
    <3>4. g[i] = IF i <= k THEN f[i] ELSE IF i = 1 THEN ss[i] ELSE f[i - 1] \o ss[i]
      BY <2>2
    <3> HIDE DEF g, Good
    <3> QED
      BY <3>2, <3>3, <3>4
  <2>3. Good(k + 1, g)
    <3>1. g = [i \in 1..(k + 1) |-> g[i]]
      OBVIOUS
    <3> HIDE DEF g
    <3> QED
      BY <2>2, <3>1
  <2> HIDE DEF g, Good
  <2> QED
    BY <2>3
<1> HIDE DEF S
<1>4. \E f : Good(n, f)
  <2>1. n \in S
    BY <1>2, <1>3, Numbers
  <2> QED
    BY <2>1 DEF S
<1> DEFINE flat == CHOOSE f : Good(n, f)
<1>5. FlattenSeq(ss) = IF n = 0 THEN ss ELSE flat[n]
  BY <1>1 DEF FlattenSeq
<1> HIDE DEF Good
<1>6. Good(n, flat)
  BY <1>4
<1> HIDE DEF flat
<1>7. \A i \in 1..n : flat[i] = IF i = 1 THEN ss[i] ELSE flat[i - 1] \o ss[i]
  BY <1>6 DEF Good
<1> DEFINE Upto(i) == UNION {ToSet(ss[j]) : j \in 1..i}
           T == {i \in Nat : i \in 1..n => flat[i] \in Seq(E) /\ ToSet(flat[i]) = Upto(i)}
<1>8. 0 \in T
  OBVIOUS
<1>9. ASSUME NEW i \in Nat, i \in T PROVE i + 1 \in T
  <2> SUFFICES ASSUME i + 1 \in 1..n PROVE flat[i + 1] \in Seq(E) /\ ToSet(flat[i + 1]) = Upto(i + 1)
    OBVIOUS
  <2>1. Upto(i + 1) = Upto(i) \cup ToSet(ss[i + 1]) /\ ss[i + 1] \in Seq(E)
    <3>1. \A j \in 1..(i + 1) : j \in 1..i \/ j = i + 1
      OBVIOUS
    <3>2. 1..i \subseteq 1..(i + 1) /\ i + 1 \in 1..(i + 1)
      OBVIOUS
    <3> QED
      BY <3>1, <3>2
  <2>2. CASE i = 0
    <3>1. flat[i + 1] = ss[i + 1]
      BY <1>7, <2>2
    <3>2. Upto(i) = {}
      BY <2>2
    <3> HIDE DEF Upto
    <3> QED
      BY <2>1, <3>1, <3>2
  <2>3. CASE i # 0
    <3>1. i \in 1..n /\ flat[i + 1] = flat[i] \o ss[i + 1]
      <4>1. i \in 1..n /\ i + 1 # 1 /\ (i + 1) - 1 = i
        BY <2>3
      <4>2. flat[i + 1] = IF i + 1 = 1 THEN ss[i + 1] ELSE flat[(i + 1) - 1] \o ss[i + 1]
        BY <1>7
      <4> QED
        BY <4>1, <4>2
    <3>2. flat[i] \in Seq(E) /\ ToSet(flat[i]) = Upto(i)
      BY <1>9, <3>1
    <3> HIDE DEF Upto
    <3>3. /\ flat[i] \o ss[i + 1] \in Seq(E)
          /\ ToSet(flat[i] \o ss[i + 1]) = ToSet(flat[i]) \cup ToSet(ss[i + 1])
      BY <2>1, <3>2, Joined
    <3> QED
      BY <2>1, <3>1, <3>2, <3>3
  <2> QED
    BY <2>2, <2>3
<1> HIDE DEF T
<1>10. n \in T
  BY <1>8, <1>9, Numbers
<1>11. CASE n = 0
  <2>1. FlattenSeq(ss) = ss /\ ss = <<>>
    BY <1>1, <1>5, <1>11
  <2> QED
    <3>1. UNION {ToSet(ss[i]) : i \in 1..n} = {}
      BY <1>11
    <3>2. ToSet(<<>>) = {} /\ <<>> \in Seq(E)
      BY DEF ToSet
    <3> QED
      BY <2>1, <3>1, <3>2
<1>12. CASE n # 0
  <2>1. n \in 1..n
    BY <1>12
  <2>2. flat[n] \in Seq(E) /\ ToSet(flat[n]) = Upto(n)
    BY <1>10, <2>1 DEF T
  <2> QED
    BY <1>5, <1>12, <2>2
<1> QED
  BY <1>11, <1>12

\* What a walk does at a level.
Add(r, c) == [op |-> "add", at |-> r, rec |-> c]
Prune(r) == [op |-> "prune", at |-> r, rec |-> r]
Event == [op : {"add", "prune"}, at : Parent, rec : Parent]
Deepest == Cardinality(Model) + 1

LEMMA Depth == ConstantsAssumption => Cardinality(Model) \in Nat /\ Deepest \in Nat /\ IsFiniteSet(Model)
BY FS_CardinalityType DEF ConstantsAssumption, Deepest

\* The events of one call, when those of the calls below are what below says.
LEMMA CallHas ==
  ASSUME NEW p, Shape(p), NEW r \in Parent, NEW below \in [Parent -> Seq(Event)]
  PROVE  /\ CallAt(p, r, below) \in Seq(Event)
         /\ ToSet(CallAt(p, r, below)) =
              {Prune(r)} \cup UNION {{Add(r, c)} \cup ToSet(below[c]) : c \in ToSet(p.dm_models[r])}
<1> DEFINE s == p.dm_models[r]
           Part(c) == <<Add(r, c)>> \o below[c]
           ss == [i \in 1..Len(s) |-> Part(s[i])]
<1>1. s \in Seq(Model) /\ DOMAIN s = 1..Len(s) /\ Len(s) \in Nat
  BY Lists
<1>2. ASSUME NEW c \in Model
      PROVE  Part(c) \in Seq(Event) /\ ToSet(Part(c)) = {Add(r, c)} \cup ToSet(below[c])
  <2>1. Add(r, c) \in Event /\ below[c] \in Seq(Event)
    BY DEF Add, Event, Parent
  <2>2. <<Add(r, c)>> \in Seq(Event) /\ ToSet(<<Add(r, c)>>) = {Add(r, c)}
    BY <2>1 DEF ToSet
  <2> DEFINE one == <<Add(r, c)>>
  <2>3. one \in Seq(Event) /\ ToSet(one) = {Add(r, c)}
    BY <2>2
  <2>4. Part(c) = one \o below[c]
    OBVIOUS
  <2> HIDE DEF one, Part
  <2>5. one \o below[c] \in Seq(Event) /\ ToSet(one \o below[c]) = ToSet(one) \cup ToSet(below[c])
    BY <2>1, <2>3, Joined
  <2> QED
    BY <2>3, <2>4, <2>5
<1>3. \A i \in 1..Len(s) : s[i] \in Model
  BY <1>1
<1> HIDE DEF Part, s
<1>4. FlattenSeq(ss) \in Seq(Event) /\ ToSet(FlattenSeq(ss)) = UNION {ToSet(ss[i]) : i \in 1..Len(s)}
  <2>1. ss = [i \in 1..Len(s) |-> ss[i]] /\ \A i \in 1..Len(s) : ss[i] \in Seq(Event)
    BY <1>2, <1>3
  <2> HIDE DEF ss
  <2> QED
    BY <1>1, <2>1, Flat
<1>5. UNION {ToSet(ss[i]) : i \in 1..Len(s)} = UNION {{Add(r, c)} \cup ToSet(below[c]) : c \in ToSet(s)}
  <2>1. \A i \in 1..Len(s) : ToSet(ss[i]) = {Add(r, s[i])} \cup ToSet(below[s[i]])
    BY <1>2, <1>3
  <2>2. ToSet(s) = {s[i] : i \in 1..Len(s)}
    BY <1>1 DEF ToSet
  <2> HIDE DEF ss
  <2> QED
    BY <2>1, <2>2
<1>6. CallAt(p, r, below) = FlattenSeq(ss) \o <<Prune(r)>>
  BY <1>1 DEF CallAt, Part, Add, Prune, s
<1> HIDE DEF ss
<1>7. <<Prune(r)>> \in Seq(Event) /\ ToSet(<<Prune(r)>>) = {Prune(r)}
  <2>1. Prune(r) \in Event
    BY DEF Prune, Event
  <2> QED
    BY <2>1 DEF ToSet
<1> DEFINE kids == FlattenSeq(ss)
           last == <<Prune(r)>>
<1>8. kids \in Seq(Event) /\ last \in Seq(Event) /\ CallAt(p, r, below) = kids \o last
  BY <1>4, <1>6, <1>7
<1>9. ToSet(kids) = UNION {{Add(r, c)} \cup ToSet(below[c]) : c \in ToSet(s)} /\ ToSet(last) = {Prune(r)}
  BY <1>4, <1>5, <1>7
<1> HIDE DEF kids, last
<1>10. kids \o last \in Seq(Event) /\ ToSet(kids \o last) = ToSet(kids) \cup ToSet(last)
  BY <1>8, Joined
<1> QED
  BY <1>8, <1>9, <1>10 DEF s

\* The walk is a recursive function, which exists.
Calls(p, f, d) == [r \in Parent |-> IF d = 0 THEN <<>> ELSE CallAt(p, r, f[d - 1])]
LEMMA Walked ==
  ASSUME ConstantsAssumption, NEW p, NEW t
  PROVE  \E f : f = [d \in 0..Deepest |-> Calls(p, f, d)] /\ Walk(p, t) = f[Deepest][NoModel]
<1> DEFINE Good(k, f) == f = [d \in 0..k |-> Calls(p, f, d)]
           S == {k \in Nat : \E f : Good(k, f)}
<1>1. 0 \in S
  <2> DEFINE f == [d \in 0..0 |-> [r \in Parent |-> <<>>]]
  <2>1. \A d \in 0..0 : f[d] = Calls(p, f, d)
    BY DEF Calls
  <2>2. f = [d \in 0..0 |-> f[d]]
    OBVIOUS
  <2> HIDE DEF f
  <2>3. Good(0, f)
    BY <2>1, <2>2
  <2> HIDE DEF Good
  <2> QED
    BY <2>3
<1>2. ASSUME NEW k \in Nat, k \in S PROVE k + 1 \in S
  <2>1. PICK f : Good(k, f)
    BY <1>2
  <2>2. \A d \in 0..k : f[d] = Calls(p, f, d)
    BY <2>1
  <2> DEFINE g == [d \in 0..(k + 1) |-> IF d <= k THEN f[d] ELSE Calls(p, f, d)]
  <2>3. ASSUME NEW d \in 0..(k + 1) PROVE g[d] = Calls(p, g, d)
    <3>1. d # 0 => g[d - 1] = f[d - 1]
      OBVIOUS
    <3>2. g[d] = Calls(p, f, d)
      <4>1. d <= k => d \in 0..k
        OBVIOUS
      <4> HIDE DEF Good
      <4> QED
        BY <2>2, <4>1
    <3> HIDE DEF g, Good
    <3> QED
      BY <3>1, <3>2 DEF Calls
  <2>4. g = [d \in 0..(k + 1) |-> g[d]]
    OBVIOUS
  <2> HIDE DEF g
  <2>5. Good(k + 1, g)
    BY <2>3, <2>4
  <2> HIDE DEF Good
  <2> QED
    BY <2>5
<1> HIDE DEF S
<1>3. \E f : Good(Deepest, f)
  <2>1. Deepest \in S
    BY <1>1, <1>2, Depth, Numbers
  <2> QED
    BY <2>1 DEF S
<1> DEFINE f == CHOOSE f : Good(Deepest, f)
<1>4. Walk(p, t) = f[Deepest][NoModel]
  BY DEF Walk, Calls, Deepest, Parent
<1> HIDE DEF Good
<1>5. Good(Deepest, f)
  BY <1>3
<1> HIDE DEF f
<1> QED
  BY <1>4, <1>5 DEF Good

-----------------------------------------------------------------------------
(* What the tree shows.                                                    *)

Top(f) == {m \in DOMAIN f : f[m] = NoModel}
Shown(f) == Below(f, Top(f))

\* The models shown are those at the top and below those shown, and no others.
LEMMA ShownIs ==
  ASSUME NEW f, NoModel \notin DOMAIN f
  PROVE  /\ Shown(f) \subseteq DOMAIN f
         /\ \A c \in DOMAIN f : f[c] \in Shown(f) \cup {NoModel} <=> c \in Shown(f)
         /\ \A S : (\A c \in DOMAIN f : f[c] \in S \cup {NoModel} => c \in S) => Shown(f) \subseteq S
<1>1. Shown(f) \subseteq DOMAIN f /\ Top(f) \subseteq Shown(f)
  BY DEF Shown, Below, Top
<1>2. \A c \in DOMAIN f : f[c] \in Shown(f) => c \in Shown(f)
  BY <1>1 DEF Shown, Below, HasAllBelow
<1>3. ASSUME NEW S, \A c \in DOMAIN f : f[c] \in S \cup {NoModel} => c \in S
      PROVE  Shown(f) \subseteq S
  <2> DEFINE T == S \cap DOMAIN f
  <2>1. T \in SUBSET (Top(f) \cup DOMAIN f) /\ Top(f) \subseteq T /\ HasAllBelow(f, T)
    BY <1>3 DEF Top, HasAllBelow
  <2> HIDE DEF T
  <2>2. Shown(f) \subseteq T
    BY <2>1 DEF Shown, Below
  <2> QED
    BY <2>2 DEF T
<1>4. ASSUME NEW c \in Shown(f) PROVE f[c] \in Shown(f) \cup {NoModel}
  <2> DEFINE S == {x \in Shown(f) : f[x] \in Shown(f) \cup {NoModel}}
  <2>1. \A x \in DOMAIN f : f[x] \in S \cup {NoModel} => x \in S
    BY <1>1, <1>2 DEF Top
  <2> HIDE DEF S
  <2>2. Shown(f) \subseteq S
    BY <1>3, <2>1
  <2> QED
    BY <2>2 DEF S
<1>5. \A c \in DOMAIN f : f[c] = NoModel => c \in Shown(f)
  BY <1>1 DEF Top
<1> QED
  BY <1>1, <1>2, <1>3, <1>4, <1>5

\* The walk comes by each level shown, and no other: it adds all of the level and prunes it.
Visited(p) == Shown(p.dm_child) \cup {NoModel}
Wanted(p) == {Prune(r) : r \in Visited(p)}
               \cup UNION {{Add(r, c) : c \in ToSet(p.dm_models[r])} : r \in Visited(p)}
LEMMA WalkHas ==
  ASSUME ConstantsAssumption, NEW p, Shape(p), Agree(p), NEW t
  PROVE  Walk(p, t) \in Seq(Event) /\ ToSet(Walk(p, t)) = Wanted(p)
<1> DEFINE g == p.dm_child
           Kids(r) == ToSet(p.dm_models[r])
<1>1. PICK f : f = [d \in 0..Deepest |-> Calls(p, f, d)] /\ Walk(p, t) = f[Deepest][NoModel]
  BY Walked
<1>2. /\ Deepest \in Nat /\ Deepest = Cardinality(Model) + 1 /\ Cardinality(Model) \in Nat
      /\ IsFiniteSet(Model) /\ NoModel \notin Model /\ NoModel \in Parent
  BY Depth DEF Deepest, ConstantsAssumption, Parent
<1>3. \A d \in 0..Deepest : f[d] = Calls(p, f, d)
  BY <1>1
<1>4. \A d \in 0..Deepest : d # 0 => d - 1 \in 0..Deepest
  BY <1>2
<1>5. DOMAIN g \subseteq Model /\ \A c \in DOMAIN g : g[c] \in Parent
  BY DEF Shape
<1>6. \A c \in Model, r \in Parent : c \in Kids(r) <=> c \in DOMAIN g /\ g[c] = r
  BY DEF Agree
<1>7. \A r \in Parent : Kids(r) \subseteq Model
  BY Lists
<1>8. \A r \in Visited(p) : r \in Parent
  BY <1>2, <1>5, ShownIs DEF Visited, Parent
<1> HIDE DEF g, Kids
<1>9. ASSUME NEW d \in 0..Deepest, d # 0, f[d - 1] \in [Parent -> Seq(Event)], NEW r \in Parent
      PROVE  /\ f[d][r] \in Seq(Event)
             /\ ToSet(f[d][r]) = {Prune(r)} \cup UNION {{Add(r, c)} \cup ToSet(f[d - 1][c]) : c \in Kids(r)}
  <2>1. f[d][r] = CallAt(p, r, f[d - 1])
    BY <1>3, <1>9 DEF Calls
  <2> QED
    BY <1>9, <2>1, CallHas DEF Kids
<1>10. \A d \in 0..Deepest : f[d] \in [Parent -> Seq(Event)]
  <2> DEFINE S == {d \in Nat : d \in 0..Deepest => f[d] \in [Parent -> Seq(Event)]}
  <2>1. 0 \in S
    <3>1. 0 \in 0..Deepest /\ f[0] = [r \in Parent |-> <<>>]
      BY <1>2, <1>3 DEF Calls
    <3>2. <<>> \in Seq(Event)
      OBVIOUS
    <3> QED
      BY <3>1, <3>2
  <2>2. ASSUME NEW d \in Nat, d \in S PROVE d + 1 \in S
    <3> SUFFICES ASSUME d + 1 \in 0..Deepest PROVE f[d + 1] \in [Parent -> Seq(Event)]
      OBVIOUS
    <3>1. d \in 0..Deepest /\ d + 1 # 0 /\ (d + 1) - 1 = d
      BY <1>2
    <3>2. f[d] \in [Parent -> Seq(Event)]
      BY <2>2, <3>1
    <3>3. \A r \in Parent : f[d + 1][r] \in Seq(Event)
      BY <1>9, <3>1, <3>2
    <3>4. f[d + 1] = [r \in Parent |-> f[d + 1][r]]
      BY <1>3 DEF Calls
    <3> QED
      BY <3>3, <3>4
  <2> HIDE DEF S
  <2>3. Nat \subseteq S
    BY <2>1, <2>2, Numbers
  <2> QED
    BY <1>2, <2>3 DEF S
<1>11. ASSUME NEW d \in 0..Deepest, d # 0, NEW r \in Parent
       PROVE  ToSet(f[d][r]) = {Prune(r)} \cup UNION {{Add(r, c)} \cup ToSet(f[d - 1][c]) : c \in Kids(r)}
  BY <1>4, <1>9, <1>10, <1>11
<1>12. Walk(p, t) \in Seq(Event)
  BY <1>1, <1>2, <1>10
<1>13. ToSet(Walk(p, t)) \subseteq Wanted(p)
  <2> DEFINE S == {d \in Nat : d \in 0..Deepest => \A r \in Visited(p) : ToSet(f[d][r]) \subseteq Wanted(p)}
  <2>1. 0 \in S
    <3>0. 0 \in 0..Deepest /\ f[0] = [r \in Parent |-> <<>>]
      BY <1>2, <1>3 DEF Calls
    <3>1. \A r \in Parent : f[0][r] = <<>>
      BY <3>0
    <3>2. ToSet(<<>>) = {}
      BY DEF ToSet
    <3> QED
      BY <1>8, <3>1, <3>2
  <2>2. ASSUME NEW d \in Nat, d \in S PROVE d + 1 \in S
    <3> SUFFICES ASSUME d + 1 \in 0..Deepest, NEW r \in Visited(p) PROVE ToSet(f[d + 1][r]) \subseteq Wanted(p)
      OBVIOUS
    <3>1. d \in 0..Deepest /\ d + 1 # 0 /\ (d + 1) - 1 = d /\ r \in Parent
      BY <1>2, <1>8
    <3>2. ToSet(f[d + 1][r]) = {Prune(r)} \cup UNION {{Add(r, c)} \cup ToSet(f[d][c]) : c \in Kids(r)}
      BY <1>11, <3>1
    <3>3. ASSUME NEW c \in Kids(r) PROVE ToSet(f[d][c]) \subseteq Wanted(p)
      <4>1. c \in DOMAIN g /\ g[c] = r
        BY <1>6, <1>7, <3>1
      <4>2. c \in Visited(p)
        BY <1>2, <1>5, <4>1, ShownIs DEF Visited, g
      <4> QED
        BY <2>2, <3>1, <4>2
    <3>4. Prune(r) \in Wanted(p) /\ \A c \in Kids(r) : Add(r, c) \in Wanted(p)
      BY DEF Wanted, Kids
    <3> QED
      BY <3>2, <3>3, <3>4
  <2> HIDE DEF S
  <2>3. Deepest \in S
    BY <1>2, <2>1, <2>2, Numbers
  <2>4. \A r \in Visited(p) : ToSet(f[Deepest][r]) \subseteq Wanted(p)
    BY <1>2, <2>3 DEF S
  <2> QED
    BY <1>1, <2>4 DEF Visited
<1> DEFINE W == ToSet(Walk(p, t))
           Path(a, r) == /\ (r = NoModel /\ a = {}) \/ r \in a
                         /\ \A y \in a : y \in DOMAIN g /\ g[y] \in a \cup {NoModel} /\ g[y] # r
           Full(r) == \E d \in 1..Deepest, a \in SUBSET Model :
                        Path(a, r) /\ Cardinality(a) = Deepest - d /\ ToSet(f[d][r]) \subseteq W
           X == {r \in Parent : Full(r)}
<1> HIDE DEF W
<1>14. NoModel \in X
  <2>1. Deepest \in 1..Deepest /\ Cardinality({}) = Deepest - Deepest /\ Path({}, NoModel)
    BY <1>2, FS_EmptySet
  <2>2. ToSet(f[Deepest][NoModel]) \subseteq W
    BY <1>1 DEF W
  <2> QED
    BY <1>2, <2>1, <2>2
<1>15. ASSUME NEW c \in DOMAIN g, g[c] \in X PROVE c \in X
  <2> DEFINE r == g[c]
  <2>1. r \in Parent /\ c \in Model /\ c # NoModel
    BY <1>2, <1>5
  <2>2. PICK d \in 1..Deepest, a \in SUBSET Model :
          Path(a, r) /\ Cardinality(a) = Deepest - d /\ ToSet(f[d][r]) \subseteq W
    BY <1>15
  <2> HIDE DEF X, Full
  <2> DEFINE b == a \cup {c}
  <2>3. c \notin a
    BY <2>2
  <2>4. Path(b, c) /\ b \in SUBSET Model
    BY <2>1, <2>2, <2>3
  <2>5. Cardinality(b) = Cardinality(a) + 1 /\ Cardinality(b) <= Cardinality(Model)
    <3>1. IsFiniteSet(a)
      BY <1>2, FS_Subset
    <3>2. Cardinality(b) = Cardinality(a) + 1
      BY <2>3, <3>1, FS_AddElement
    <3>3. Cardinality(b) <= Cardinality(Model)
      BY <1>2, <2>4, FS_Subset
    <3> QED
      BY <3>2, <3>3
  <2>6. d - 1 \in 1..Deepest /\ Cardinality(b) = Deepest - (d - 1) /\ d \in 0..Deepest /\ d # 0
    BY <1>2, <2>2, <2>5
  <2>7. ToSet(f[d - 1][c]) \subseteq W
    <3>1. c \in Kids(r)
      BY <1>6, <2>1
    <3>2. ToSet(f[d][r]) = {Prune(r)} \cup UNION {{Add(r, x)} \cup ToSet(f[d - 1][x]) : x \in Kids(r)}
      BY <1>11, <2>1, <2>6
    <3> HIDE DEF Path, r
    <3> QED
      BY <2>2, <3>1, <3>2
  <2> HIDE DEF b, Path
  <2>8. Full(c)
    BY <2>4, <2>6, <2>7 DEF Full
  <2> QED
    BY <2>1, <2>8 DEF X, Parent
<1>16. Visited(p) \subseteq X
  <2> HIDE DEF X
  <2>1. \A c \in DOMAIN g : g[c] \in X \cup {NoModel} => c \in X
    BY <1>14, <1>15
  <2>2. Shown(g) \subseteq X
    BY <1>2, <1>5, <2>1, ShownIs
  <2> QED
    BY <1>14, <2>2 DEF Visited, g
<1>17. ASSUME NEW r \in Visited(p) PROVE Prune(r) \in W /\ \A c \in Kids(r) : Add(r, c) \in W
  <2>1. PICK d \in 1..Deepest : ToSet(f[d][r]) \subseteq W
    BY <1>16
  <2>2. r \in Parent /\ d \in 0..Deepest /\ d # 0
    BY <1>2, <1>8
  <2>3. ToSet(f[d][r]) = {Prune(r)} \cup UNION {{Add(r, x)} \cup ToSet(f[d - 1][x]) : x \in Kids(r)}
    BY <1>11, <2>2
  <2> HIDE DEF X, Full, Path
  <2> QED
    BY <2>1, <2>3
<1>18. Wanted(p) \subseteq W
  BY <1>17 DEF Wanted, Kids
<1> QED
  BY <1>12, <1>13, <1>18 DEF W

\* A tree whose rows each have a node.
TreeShape(t) ==
  /\ t = [dm_mapper |-> t.dm_mapper, dm_data_store |-> t.dm_data_store, dm_current |-> t.dm_current]
  /\ t.dm_mapper = [m \in DOMAIN t.dm_mapper |-> t.dm_mapper[m]]
  /\ t.dm_data_store = [m \in DOMAIN t.dm_data_store |-> t.dm_data_store[m]]
  /\ DOMAIN t.dm_data_store \subseteq DOMAIN t.dm_mapper /\ DOMAIN t.dm_mapper \subseteq Model
  /\ t.dm_current \in DOMAIN t.dm_mapper \cup {Root, NoModel}

\* All it has of the models of a project is right, and a node it keeps for later is of none of those
\* it is to show: those would be taken for shown.
Row(p, m) == [parent |-> p.dm_child[m], title |-> p.title[m]]
Fits(p, t) ==
  /\ TreeShape(t)
  /\ \A m \in DOMAIN t.dm_data_store \cap Shown(p.dm_child) : t.dm_data_store[m] = Row(p, m)
  /\ \A m \in DOMAIN t.dm_mapper \cap DOMAIN p.dm_child : t.dm_mapper[m] = p.dm_child[m]
  /\ Shown(p.dm_child) \cap DOMAIN t.dm_mapper \subseteq DOMAIN t.dm_data_store

\* The rows of what the project does not show any more.
Stale(p, t) == DOMAIN t.dm_data_store \ Shown(p.dm_child)
StillThere(ms, t, s) ==
  \A m \in ms : /\ m \in DOMAIN s.dm_data_store /\ s.dm_data_store[m] = t.dm_data_store[m]
                /\ m \in DOMAIN s.dm_mapper /\ s.dm_mapper[m] = t.dm_mapper[m]

LEMMA KidShown ==
  ASSUME ConstantsAssumption, NEW p, Shape(p), Agree(p)
  PROVE  /\ DOMAIN p.dm_child \subseteq Model /\ Shown(p.dm_child) \subseteq DOMAIN p.dm_child
         /\ NoModel \notin Model /\ Visited(p) \subseteq Parent
         /\ \A r \in Visited(p), c \in Model :
              c \in ToSet(p.dm_models[r]) <=> c \in Shown(p.dm_child) /\ p.dm_child[c] = r
         /\ \A c \in Shown(p.dm_child) : p.dm_child[c] \in Visited(p)
<1>1. DOMAIN p.dm_child \subseteq Model /\ NoModel \notin Model
  BY DEF Shape, ConstantsAssumption
<1>2. /\ Shown(p.dm_child) \subseteq DOMAIN p.dm_child
      /\ \A c \in DOMAIN p.dm_child : p.dm_child[c] \in Visited(p) <=> c \in Shown(p.dm_child)
  BY <1>1, ShownIs DEF Visited
<1>3. Visited(p) \subseteq Parent
  BY <1>1, <1>2 DEF Visited, Parent
<1> QED
  BY <1>1, <1>2, <1>3 DEF Agree

LEMMA AddFits ==
  ASSUME ConstantsAssumption, NEW p, Shape(p), Agree(p), NEW s, Fits(p, s),
         NEW r \in Visited(p), NEW c \in ToSet(p.dm_models[r])
  PROVE  LET u == AddNode(p, s, c, r)
         IN  /\ Fits(p, u) /\ c \in Shown(p.dm_child)
             /\ DOMAIN u.dm_data_store = DOMAIN s.dm_data_store \cup {c}
             /\ DOMAIN u.dm_mapper = DOMAIN s.dm_mapper \cup {c}
             /\ Stale(p, u) = Stale(p, s) /\ StillThere(Stale(p, s), s, u)
<1> DEFINE u == AddNode(p, s, c, r)
<1>1. c \in Shown(p.dm_child) /\ p.dm_child[c] = r /\ c \in Model
  <2>1. c \in Model
    BY KidShown, Lists
  <2> QED
    BY <2>1, KidShown
<1>2. CASE c \in DOMAIN s.dm_mapper
  <2>1. u = s
    BY <1>2 DEF AddNode
  <2>2. c \in DOMAIN s.dm_data_store
    BY <1>1, <1>2 DEF Fits
  <2>3. StillThere(Stale(p, s), s, s)
    BY DEF StillThere, Stale, Fits, TreeShape
  <2> HIDE DEF u
  <2> QED
    BY <1>1, <1>2, <2>1, <2>2, <2>3 DEF u
<1>3. CASE c \notin DOMAIN s.dm_mapper
  <2> DEFINE mp == With(s.dm_mapper, c, r)
             ds == With(s.dm_data_store, c, [parent |-> r, title |-> p.title[c]])
  <2>1. PICK f, g, k : s = [dm_mapper |-> f, dm_data_store |-> g, dm_current |-> k]
    BY DEF Fits, TreeShape
  <2>2. u = [s EXCEPT !.dm_mapper = mp, !.dm_data_store = ds]
    <3>1. AddNode(p, s, c, r) = [s EXCEPT !.dm_mapper = With(@, c, r),
                 !.dm_data_store = With(@, c, [parent |-> r, title |-> p.title[c]])]
      BY <1>3 DEF AddNode
    <3>2. s.dm_mapper = f /\ s.dm_data_store = g
      BY <2>1
    <3> HIDE DEF u
    <3> QED
      BY <2>1, <3>1 DEF u
  <2>3. /\ DOMAIN mp = DOMAIN s.dm_mapper \cup {c} /\ mp[c] = r
        /\ \A m \in DOMAIN s.dm_mapper : mp[m] = s.dm_mapper[m]
        /\ mp = [m \in DOMAIN mp |-> mp[m]]
    BY <1>3 DEF With
  <2>4. /\ DOMAIN ds = DOMAIN s.dm_data_store \cup {c} /\ ds[c] = Row(p, c)
        /\ \A m \in DOMAIN s.dm_data_store : ds[m] = s.dm_data_store[m]
        /\ ds = [m \in DOMAIN ds |-> ds[m]]
    BY <1>1, <1>3 DEF With, Row, Fits, TreeShape
  <2> HIDE DEF mp, ds, u
  <2>5. u = [dm_mapper |-> mp, dm_data_store |-> ds, dm_current |-> k] /\ s.dm_current = k
    BY <2>1, <2>2
  <2>6. /\ u.dm_mapper = mp /\ u.dm_data_store = ds /\ u.dm_current = s.dm_current
        /\ u = [dm_mapper |-> u.dm_mapper, dm_data_store |-> u.dm_data_store, dm_current |-> u.dm_current]
    BY <2>5
  <2>7. Fits(p, u)
    <3>1. TreeShape(u)
      BY <1>1, <2>3, <2>4, <2>6 DEF Fits, TreeShape
    <3>2. \A m \in DOMAIN ds \cap Shown(p.dm_child) : ds[m] = Row(p, m)
      BY <2>4 DEF Fits
    <3>3. \A m \in DOMAIN mp \cap DOMAIN p.dm_child : mp[m] = p.dm_child[m]
      BY <1>1, <2>3 DEF Fits
    <3>4. Shown(p.dm_child) \cap DOMAIN mp \subseteq DOMAIN ds
      BY <2>3, <2>4 DEF Fits
    <3> QED
      BY <2>6, <3>1, <3>2, <3>3, <3>4 DEF Fits
  <2>8. Stale(p, u) = Stale(p, s)
    BY <1>1, <2>4, <2>6 DEF Stale
  <2>9. StillThere(Stale(p, s), s, u)
    BY <2>3, <2>4, <2>6 DEF StillThere, Stale, Fits, TreeShape
  <2> QED
    BY <1>1, <2>3, <2>4, <2>6, <2>7, <2>8, <2>9 DEF u
<1> QED
  BY <1>2, <1>3

\* The nodes a level loses, and the rows that go with them.
Lost(p, s, r) == {m \in DOMAIN s.dm_mapper : s.dm_mapper[m] = r /\ m \notin ToSet(p.dm_models[r])}
LostRows(p, s, r) == Below(RowParent(s), Lost(p, s, r))
LEMMA PruneFits ==
  ASSUME ConstantsAssumption, NEW p, Shape(p), Agree(p), NEW s, Fits(p, s), NEW r \in Visited(p)
  PROVE  LET u == PruneLevel(p, s, r)
         IN  /\ Fits(p, u) /\ LostRows(p, s, r) \cap Shown(p.dm_child) = {}
             /\ DOMAIN u.dm_data_store = DOMAIN s.dm_data_store \ LostRows(p, s, r)
             /\ DOMAIN u.dm_mapper = DOMAIN s.dm_mapper \ Lost(p, s, r)
             /\ Lost(p, s, r) \cap DOMAIN p.dm_child = {}
             /\ \A m \in DOMAIN u.dm_data_store : u.dm_data_store[m] = s.dm_data_store[m]
             /\ \A m \in DOMAIN u.dm_mapper : u.dm_mapper[m] = s.dm_mapper[m]
<1> DEFINE u == PruneLevel(p, s, r)
           gone == Lost(p, s, r)
           b == LostRows(p, s, r)
           sh == Shown(p.dm_child)
<1>1. /\ DOMAIN p.dm_child \subseteq Model /\ sh \subseteq DOMAIN p.dm_child /\ NoModel \notin Model
      /\ \A c \in Model : c \in ToSet(p.dm_models[r]) <=> c \in sh /\ p.dm_child[c] = r
      /\ \A c \in DOMAIN p.dm_child : p.dm_child[c] = r => c \in ToSet(p.dm_models[r])
  <2>1. \A c \in DOMAIN p.dm_child : p.dm_child[c] = r => c \in ToSet(p.dm_models[r])
    BY KidShown DEF Agree
  <2> QED
    BY <2>1, KidShown
<1>2. gone \cap DOMAIN p.dm_child = {} /\ gone \subseteq DOMAIN s.dm_mapper
  BY <1>1 DEF Lost, Fits
<1>3. /\ u.dm_mapper = [m \in DOMAIN s.dm_mapper \ gone |-> s.dm_mapper[m]]
      /\ u.dm_data_store = [m \in DOMAIN s.dm_data_store \ b |-> s.dm_data_store[m]]
      /\ u.dm_current = IF s.dm_current \in gone THEN NoModel ELSE s.dm_current
      /\ u = [dm_mapper |-> u.dm_mapper, dm_data_store |-> u.dm_data_store, dm_current |-> u.dm_current]
  <2>1. Without(s.dm_mapper, gone) = [m \in DOMAIN s.dm_mapper \ gone |-> s.dm_mapper[m]]
    BY DEF Without, Restrict
  <2>2. Without(s.dm_data_store, b) = [m \in DOMAIN s.dm_data_store \ b |-> s.dm_data_store[m]]
    BY DEF Without, Restrict
  <2>3. u = [dm_mapper     |-> Without(s.dm_mapper, gone),
             dm_data_store |-> Without(s.dm_data_store, b),
             dm_current    |-> IF s.dm_current \in gone THEN NoModel ELSE s.dm_current]
    BY DEF PruneLevel, Lost, LostRows
  <2> HIDE DEF u, gone, b
  <2> QED
    BY <2>1, <2>2, <2>3
<1>4. gone \subseteq b
  BY DEF LostRows, Below
<1>5. b \cap sh = {}
  <2> DEFINE S == (gone \cup DOMAIN s.dm_data_store) \ sh
  <2>1. gone \subseteq S
    BY <1>1, <1>2
  <2>2. ASSUME NEW c \in DOMAIN s.dm_data_store, s.dm_data_store[c].parent \in S PROVE c \in S
    <3>1. ASSUME c \in sh PROVE FALSE
      <4>1. s.dm_data_store[c] = Row(p, c)
        BY <3>1 DEF Fits
      <4>2. s.dm_data_store[c].parent = p.dm_child[c]
        BY <4>1 DEF Row
      <4>3. p.dm_child[c] \in sh \cup {NoModel}
        BY <3>1, KidShown DEF Visited
      <4>4. NoModel \notin S
        BY <1>1, <1>2 DEF Fits, TreeShape
      <4> QED
        BY <2>2, <4>2, <4>3, <4>4
    <3> QED
      BY <3>1
  <2>3. DOMAIN RowParent(s) = DOMAIN s.dm_data_store
        /\ \A c \in DOMAIN s.dm_data_store : RowParent(s)[c] = s.dm_data_store[c].parent
    BY DEF RowParent
  <2>4. HasAllBelow(RowParent(s), S)
    BY <2>2, <2>3 DEF HasAllBelow
  <2>5. S \in SUBSET (gone \cup DOMAIN RowParent(s)) /\ S \cap sh = {}
    BY <2>3
  <2> HIDE DEF S, gone
  <2>6. b \subseteq S
    BY <2>1, <2>4, <2>5 DEF LostRows, Below, gone
  <2> QED
    BY <2>5, <2>6
<1> HIDE DEF u, gone, b, sh
<1>6. /\ DOMAIN u.dm_data_store = DOMAIN s.dm_data_store \ b /\ DOMAIN u.dm_mapper = DOMAIN s.dm_mapper \ gone
      /\ \A m \in DOMAIN u.dm_data_store : u.dm_data_store[m] = s.dm_data_store[m]
      /\ \A m \in DOMAIN u.dm_mapper : u.dm_mapper[m] = s.dm_mapper[m]
      /\ u.dm_mapper = [m \in DOMAIN u.dm_mapper |-> u.dm_mapper[m]]
      /\ u.dm_data_store = [m \in DOMAIN u.dm_data_store |-> u.dm_data_store[m]]
  BY <1>3
<1>7. Fits(p, u)
  <2>1. TreeShape(u)
    <3>1. u.dm_current \in DOMAIN u.dm_mapper \cup {Root, NoModel}
      BY <1>3, <1>6 DEF Fits, TreeShape
    <3>2. DOMAIN u.dm_data_store \subseteq DOMAIN u.dm_mapper /\ DOMAIN u.dm_mapper \subseteq Model
      BY <1>4, <1>6 DEF Fits, TreeShape
    <3> QED
      BY <1>3, <1>6, <3>1, <3>2 DEF TreeShape
  <2>2. \A m \in DOMAIN u.dm_data_store \cap sh : u.dm_data_store[m] = Row(p, m)
    BY <1>6 DEF Fits, sh
  <2>3. \A m \in DOMAIN u.dm_mapper \cap DOMAIN p.dm_child : u.dm_mapper[m] = p.dm_child[m]
    BY <1>6 DEF Fits
  <2>4. sh \cap DOMAIN u.dm_mapper \subseteq DOMAIN u.dm_data_store
    BY <1>5, <1>6 DEF Fits, sh
  <2> QED
    BY <2>1, <2>2, <2>3, <2>4 DEF Fits, sh
<1> QED
  BY <1>2, <1>5, <1>6, <1>7 DEF u, gone, b, sh

\* All the rows that are stale are below the level r, by the nodes they have.
StaleBelow(p, t, r) ==
  LET ms == Stale(p, t)
  IN  /\ r \in Visited(p)
      /\ \A m \in ms : t.dm_data_store[m].parent = t.dm_mapper[m] /\ t.dm_mapper[m] \in ms \cup {r}
      /\ \A s \in SUBSET ms : (\A m \in ms : t.dm_mapper[m] \in s \cup {r} => m \in s) => s = ms

\* They go when that level is pruned, and not before.
LEMMA PruneStale ==
  ASSUME ConstantsAssumption, NEW p, Shape(p), Agree(p), NEW t, NEW at, StaleBelow(p, t, at),
         NEW s, Fits(p, s), Stale(p, s) = Stale(p, t), StillThere(Stale(p, t), t, s), NEW r \in Visited(p)
  PROVE  LET u == PruneLevel(p, s, r)
         IN  /\ r = at => Stale(p, u) = {}
             /\ r # at => Stale(p, u) = Stale(p, t) /\ StillThere(Stale(p, t), t, u)
<1> DEFINE u == PruneLevel(p, s, r)
           ms == Stale(p, t)
           sh == Shown(p.dm_child)
           gone == Lost(p, s, r)
           b == LostRows(p, s, r)
           f == RowParent(s)
<1>1. /\ DOMAIN u.dm_data_store = DOMAIN s.dm_data_store \ b /\ b \cap sh = {}
      /\ DOMAIN u.dm_mapper = DOMAIN s.dm_mapper \ gone /\ gone \cap DOMAIN p.dm_child = {}
      /\ \A m \in DOMAIN u.dm_data_store : u.dm_data_store[m] = s.dm_data_store[m]
      /\ \A m \in DOMAIN u.dm_mapper : u.dm_mapper[m] = s.dm_mapper[m]
  BY PruneFits
<1>2. /\ sh \subseteq DOMAIN p.dm_child /\ NoModel \notin Model
      /\ \A c \in Model : c \in ToSet(p.dm_models[r]) <=> c \in sh /\ p.dm_child[c] = r
  BY KidShown
<1>3. /\ \A m \in ms : t.dm_data_store[m].parent = t.dm_mapper[m] /\ t.dm_mapper[m] \in ms \cup {at}
      /\ \A x \in SUBSET ms : (\A m \in ms : t.dm_mapper[m] \in x \cup {at} => m \in x) => x = ms
  BY DEF StaleBelow
<1>4. /\ DOMAIN s.dm_data_store \subseteq DOMAIN s.dm_mapper /\ DOMAIN s.dm_mapper \subseteq Model
      /\ DOMAIN f = DOMAIN s.dm_data_store
      /\ \A c \in DOMAIN f : f[c] = s.dm_data_store[c].parent
      /\ \A c \in DOMAIN f \cap sh : f[c] \in Visited(p)
  <2>1. ASSUME NEW c \in DOMAIN s.dm_data_store \cap sh PROVE s.dm_data_store[c].parent = p.dm_child[c]
    <3>1. s.dm_data_store[c] = Row(p, c)
      BY DEF Fits
    <3> QED
      BY <3>1 DEF Row
  <2>2. DOMAIN f = DOMAIN s.dm_data_store /\ \A c \in DOMAIN f : f[c] = s.dm_data_store[c].parent
    BY DEF RowParent
  <2> HIDE DEF f
  <2> QED
    BY <2>1, <2>2, KidShown DEF Fits, TreeShape
<1>5. /\ ms = DOMAIN f \ sh /\ r \in sh \cup {NoModel} /\ at \in sh \cup {NoModel}
      /\ \A m \in ms : m \in DOMAIN s.dm_mapper /\ s.dm_mapper[m] = t.dm_mapper[m] /\ f[m] = t.dm_mapper[m]
      /\ \A m \in ms : s.dm_data_store[m] = t.dm_data_store[m]
  BY <1>3, <1>4 DEF Stale, StillThere, StaleBelow, Visited
<1>6. /\ gone = {m \in DOMAIN s.dm_mapper : s.dm_mapper[m] = r /\ m \notin ToSet(p.dm_models[r])}
      /\ gone \subseteq b
      /\ \A x \in SUBSET (gone \cup DOMAIN f) :
           gone \subseteq x /\ (\A c \in DOMAIN f : f[c] \in x => c \in x) => b \subseteq x
  BY DEF Lost, LostRows, Below, HasAllBelow
<1>7. b = {m \in gone \cup DOMAIN f : \A x \in SUBSET (gone \cup DOMAIN f) :
             gone \subseteq x /\ (\A c \in DOMAIN f : f[c] \in x => c \in x) => m \in x}
  BY DEF LostRows, Below, HasAllBelow
<1> HIDE DEF u, ms, gone, b, f, sh
<1>8. Stale(p, u) = ms \ b
  BY <1>1, <1>4, <1>5 DEF Stale, sh
<1>9. ASSUME r # at PROVE ms \cap b = {}
  <2>1. gone \cap ms = {}
    BY <1>2, <1>3, <1>4, <1>5, <1>6, <1>9
  <2>2. gone \cap DOMAIN f = {}
    BY <1>1, <1>2, <1>5, <2>1
  <2>3. ASSUME NEW c \in DOMAIN f PROVE f[c] \notin gone
    <3>1. CASE c \in sh
      BY <1>1, <1>2, <1>4, <1>6, <3>1 DEF Visited, sh
    <3>2. CASE c \notin sh
      <4>1. f[c] \in ms \cup {at}
        BY <1>3, <1>5, <3>2
      <4>2. at \notin gone
        BY <1>1, <1>2, <1>4, <1>5, <1>6
      <4> QED
        BY <2>1, <4>1, <4>2
    <3> QED
      BY <3>1, <3>2
  <2>4. b \subseteq gone
    BY <1>6, <2>3
  <2> QED
    BY <2>1, <2>4
<1>10. ASSUME r = at PROVE ms \subseteq b
  <2>1. ASSUME NEW x \in SUBSET (gone \cup DOMAIN f), gone \subseteq x,
               \A c \in DOMAIN f : f[c] \in x => c \in x
        PROVE  ms \subseteq x
    <3> DEFINE y == x \cap ms
    <3>1. ASSUME NEW m \in ms, t.dm_mapper[m] \in y \cup {at} PROVE m \in y
      <4>1. m \in DOMAIN f /\ m \in Model /\ m \notin sh /\ f[m] = t.dm_mapper[m]
        BY <1>4, <1>5
      <4>2. CASE t.dm_mapper[m] = at
        BY <1>2, <1>5, <1>6, <1>10, <2>1, <4>1, <4>2
      <4>3. CASE t.dm_mapper[m] \in y
        BY <2>1, <4>1, <4>3
      <4> QED
        BY <3>1, <4>2, <4>3
    <3>2. y = ms
      BY <1>3, <3>1
    <3> QED
      BY <3>2
  <2>2. ms \subseteq gone \cup DOMAIN f
    BY <1>5
  <2> QED
    BY <1>7, <2>1, <2>2
<1>11. ASSUME r # at PROVE StillThere(ms, t, u)
  <2>1. \A m \in ms : m \in DOMAIN u.dm_data_store /\ u.dm_data_store[m] = t.dm_data_store[m]
    BY <1>1, <1>4, <1>5, <1>9, <1>11
  <2>2. \A m \in ms : m \in DOMAIN u.dm_mapper /\ u.dm_mapper[m] = t.dm_mapper[m]
    BY <1>1, <1>5, <1>6, <1>9, <1>11
  <2> QED
    BY <2>1, <2>2 DEF StillThere
<1> QED
  BY <1>8, <1>9, <1>10, <1>11 DEF u, ms

\* What is made of the tree is a recursive function, which exists.
After(p, s, e) == IF e.op = "add" THEN AddNode(p, s, e.rec, e.at) ELSE PruneLevel(p, s, e.at)
LEMMA Synced ==
  ASSUME NEW p, NEW t, Len(Walk(p, t)) \in Nat
  PROVE  \E f : /\ f[0] = t /\ SyncLevel(p, t) = f[Len(Walk(p, t))]
                /\ \A k \in 1..Len(Walk(p, t)) : f[k] = After(p, f[k - 1], Walk(p, t)[k])
<1> DEFINE w == Walk(p, t)
           Good(k, f) == f = [i \in 0..k |-> IF i = 0 THEN t ELSE After(p, f[i - 1], w[i])]
           S == {k \in Nat : \E f : Good(k, f)}
<1>1. 0 \in S
  <2> DEFINE f == [i \in 0..0 |-> t]
  <2>1. Good(0, f)
    OBVIOUS
  <2> HIDE DEF f, Good
  <2> QED
    BY <2>1
<1>2. ASSUME NEW k \in Nat, k \in S PROVE k + 1 \in S
  <2>1. PICK f : Good(k, f)
    BY <1>2
  <2>2. \A i \in 0..k : f[i] = IF i = 0 THEN t ELSE After(p, f[i - 1], w[i])
    BY <2>1
  <2> DEFINE g == [i \in 0..(k + 1) |-> IF i <= k THEN f[i] ELSE After(p, f[i - 1], w[i])]
  <2> HIDE DEF w, Good
  <2>3. ASSUME NEW i \in 0..(k + 1) PROVE g[i] = IF i = 0 THEN t ELSE After(p, g[i - 1], w[i])
    <3>1. i # 0 => g[i - 1] = f[i - 1]
      OBVIOUS
    <3>2. i <= k => i \in 0..k
      OBVIOUS
    <3>3. g[i] = IF i <= k THEN f[i] ELSE After(p, f[i - 1], w[i])
      OBVIOUS
    <3>4. i = 0 => i <= k
      OBVIOUS
    <3> HIDE DEF g
    <3> QED
      BY <2>2, <3>1, <3>2, <3>3, <3>4
  <2>4. g = [i \in 0..(k + 1) |-> g[i]]
    OBVIOUS
  <2> HIDE DEF g
  <2>5. Good(k + 1, g)
    BY <2>3, <2>4 DEF Good
  <2> QED
    BY <2>5
<1> HIDE DEF S
<1>3. \E f : Good(Len(w), f)
  <2>1. Len(w) \in S
    BY <1>1, <1>2, Numbers
  <2> QED
    BY <2>1 DEF S
<1> DEFINE f == CHOOSE f : Good(Len(w), f)
<1>4. SyncLevel(p, t) = f[Len(w)]
  BY DEF SyncLevel, After
<1> HIDE DEF Good, w
<1>5. Good(Len(w), f)
  BY <1>3
<1> HIDE DEF f
<1>6. \A k \in 0..Len(w) : f[k] = IF k = 0 THEN t ELSE After(p, f[k - 1], w[k])
  BY <1>5 DEF Good
<1>7. Len(w) \in Nat
  BY DEF w
<1>8. f[0] = t /\ \A k \in 1..Len(w) : f[k] = After(p, f[k - 1], w[k])
  BY <1>6, <1>7
<1> QED
  BY <1>4, <1>8 DEF w

\* What the tree is to show, and what it shows when it is synced: the models of the project
\* and no others.
TreeOk(p, t) == Fits(p, t) /\ DOMAIN t.dm_data_store = Shown(p.dm_child)
LEMMA SyncShows ==
  ASSUME ConstantsAssumption, NEW p, Shape(p), Agree(p), NEW t, Fits(p, t), NEW at, StaleBelow(p, t, at)
  PROVE  LET u == SyncLevel(p, t)
         IN  TreeOk(p, u) /\ DOMAIN u.dm_mapper \subseteq DOMAIN t.dm_mapper \cup Shown(p.dm_child)
<1> DEFINE w == Walk(p, t)
           sh == Shown(p.dm_child)
<1>1. w \in Seq(Event) /\ Len(w) \in Nat /\ ToSet(w) = Wanted(p) /\ DOMAIN w = 1..Len(w)
  BY WalkHas
<1>2. PICK f : /\ f[0] = t /\ SyncLevel(p, t) = f[Len(w)]
               /\ \A k \in 1..Len(w) : f[k] = After(p, f[k - 1], w[k])
  BY <1>1, Synced
<1> HIDE DEF w
<1>3. ASSUME NEW k \in 1..Len(w)
      PROVE  \/ \E r \in Visited(p) : w[k] = Prune(r)
             \/ \E r \in Visited(p) : \E c \in ToSet(p.dm_models[r]) : w[k] = Add(r, c)
  <2>1. w[k] \in Wanted(p)
    BY <1>1 DEF ToSet
  <2> QED
    BY <2>1 DEF Wanted
<1> DEFINE Included(k) == \A j \in 1..k : w[j].op = "add" => w[j].rec \in DOMAIN f[k].dm_data_store
           Left(k) == \/ Stale(p, f[k]) = {}
                      \/ /\ Stale(p, f[k]) = Stale(p, t) /\ StillThere(Stale(p, t), t, f[k])
                         /\ \A j \in 1..k : w[j] # Prune(at)
           J(k) == /\ Fits(p, f[k]) /\ DOMAIN f[k].dm_mapper \subseteq DOMAIN t.dm_mapper \cup sh
                   /\ Included(k) /\ Left(k)
           S == {k \in Nat : k \in 0..Len(w) => J(k)}
<1>4. 0 \in S
  <2>1. StillThere(Stale(p, t), t, t)
    BY DEF StillThere, Stale, Fits, TreeShape
  <2> QED
    BY <1>2, <2>1
<1>5. ASSUME NEW k \in Nat, k \in S PROVE k + 1 \in S
  <2> SUFFICES ASSUME k + 1 \in 0..Len(w) PROVE J(k + 1)
    OBVIOUS
  <2>1. k + 1 \in 1..Len(w) /\ k \in 0..Len(w) /\ (k + 1) - 1 = k
    BY <1>1
  <2>2. Fits(p, f[k]) /\ DOMAIN f[k].dm_mapper \subseteq DOMAIN t.dm_mapper \cup sh /\ Included(k) /\ Left(k)
    BY <1>5, <2>1
  <2>3. f[k + 1] = After(p, f[k], w[k + 1])
    BY <1>2, <2>1
  <2>4. \A j \in 1..(k + 1) : j \in 1..k \/ j = k + 1
    OBVIOUS
  <2> HIDE DEF S
  <2>5. ASSUME NEW r \in Visited(p), NEW c \in ToSet(p.dm_models[r]), w[k + 1] = Add(r, c) PROVE J(k + 1)
    <3>1. w[k + 1].op = "add" /\ w[k + 1].at = r /\ w[k + 1].rec = c /\ \A x : w[k + 1] # Prune(x)
      BY <2>5 DEF Add, Prune
    <3>2. f[k + 1] = AddNode(p, f[k], c, r)
      BY <2>3, <3>1 DEF After
    <3>3. /\ Fits(p, f[k + 1]) /\ c \in sh
          /\ DOMAIN f[k + 1].dm_data_store = DOMAIN f[k].dm_data_store \cup {c}
          /\ DOMAIN f[k + 1].dm_mapper = DOMAIN f[k].dm_mapper \cup {c}
          /\ Stale(p, f[k + 1]) = Stale(p, f[k]) /\ StillThere(Stale(p, f[k]), f[k], f[k + 1])
      BY <2>2, <3>2, AddFits
    <3>4. Included(k + 1)
      BY <2>2, <2>4, <3>1, <3>3
    <3>5. Left(k + 1)
      <4>1. CASE Stale(p, f[k]) = {}
        BY <3>3, <4>1
      <4>2. CASE /\ Stale(p, f[k]) = Stale(p, t) /\ StillThere(Stale(p, t), t, f[k])
                 /\ \A j \in 1..k : w[j] # Prune(at)
        <5>1. StillThere(Stale(p, t), t, f[k + 1])
          BY <3>3, <4>2 DEF StillThere
        <5>2. \A j \in 1..(k + 1) : w[j] # Prune(at)
          BY <2>4, <3>1, <4>2
        <5> QED
          BY <3>3, <4>2, <5>1, <5>2
      <4> QED
        BY <2>2, <4>1, <4>2
    <3> HIDE DEF Included, Left
    <3> QED
      BY <2>2, <3>3, <3>4, <3>5
  <2>6. ASSUME NEW r \in Visited(p), w[k + 1] = Prune(r) PROVE J(k + 1)
    <3>1. w[k + 1].op = "prune" /\ w[k + 1].at = r /\ w[k + 1].op # "add"
      BY <2>6 DEF Prune
    <3>2. f[k + 1] = PruneLevel(p, f[k], r)
      BY <2>3, <3>1 DEF After
    <3>3. /\ Fits(p, f[k + 1]) /\ LostRows(p, f[k], r) \cap sh = {}
          /\ DOMAIN f[k + 1].dm_data_store = DOMAIN f[k].dm_data_store \ LostRows(p, f[k], r)
          /\ DOMAIN f[k + 1].dm_mapper = DOMAIN f[k].dm_mapper \ Lost(p, f[k], r)
      BY <2>2, <3>2, PruneFits
    <3>4. Included(k + 1)
      <4>1. ASSUME NEW j \in 1..k, w[j].op = "add" PROVE w[j].rec \in sh
        <5>1. j \in 1..Len(w)
          BY <1>1, <2>1
        <5>3. \A x : w[j] # Prune(x)
          BY <4>1 DEF Prune
        <5>4. PICK x \in Visited(p) : \E c \in ToSet(p.dm_models[x]) : w[j] = Add(x, c)
          BY <1>3, <5>1, <5>3
        <5>2. PICK c \in ToSet(p.dm_models[x]) : w[j] = Add(x, c)
          BY <5>4
        <5>5. c \in Model /\ w[j].rec = c
          BY <5>2, KidShown, Lists DEF Add
        <5> QED
          BY <5>2, <5>5, KidShown
      <4> QED
        BY <2>2, <2>4, <3>1, <3>3, <4>1
    <3>5. Left(k + 1)
      <4>1. CASE Stale(p, f[k]) = {}
        BY <3>3, <4>1 DEF Stale
      <4>2. CASE /\ Stale(p, f[k]) = Stale(p, t) /\ StillThere(Stale(p, t), t, f[k])
                 /\ \A j \in 1..k : w[j] # Prune(at)
        <5>1. /\ r = at => Stale(p, f[k + 1]) = {}
              /\ r # at => Stale(p, f[k + 1]) = Stale(p, t) /\ StillThere(Stale(p, t), t, f[k + 1])
          BY <2>2, <3>2, <4>2, PruneStale
        <5>2. r # at => \A j \in 1..(k + 1) : w[j] # Prune(at)
          <6>1. r # at => Prune(r) # Prune(at)
            BY DEF Prune
          <6> QED
            BY <2>4, <2>6, <4>2, <6>1
        <5> QED
          BY <5>1, <5>2
      <4> QED
        BY <2>2, <4>1, <4>2
    <3> HIDE DEF Included, Left
    <3> QED
      BY <2>2, <3>3, <3>4, <3>5
  <2> HIDE DEF J
  <2> QED
    BY <1>3, <2>1, <2>5, <2>6
<1> HIDE DEF S
<1>6. J(Len(w))
  <2>1. Len(w) \in S
    BY <1>1, <1>4, <1>5, Numbers
  <2> QED
    BY <1>1, <2>1 DEF S
<1> DEFINE u == SyncLevel(p, t)
<1>7. u = f[Len(w)]
  BY <1>2
<1> HIDE DEF u
<1>8. Stale(p, u) = {}
  <2>1. Prune(at) \in ToSet(w)
    BY <1>1 DEF Wanted, StaleBelow
  <2>2. \E j \in 1..Len(w) : w[j] = Prune(at)
    BY <1>1, <2>1 DEF ToSet
  <2> QED
    BY <1>6, <1>7, <2>2
<1>9. sh \subseteq DOMAIN u.dm_data_store
  <2>1. ASSUME NEW c \in sh PROVE c \in DOMAIN u.dm_data_store
    <3> DEFINE r == p.dm_child[c]
    <3>1. r \in Visited(p) /\ c \in ToSet(p.dm_models[r])
      BY KidShown
    <3> HIDE DEF r
    <3>2. Add(r, c) \in ToSet(w)
      BY <1>1, <3>1 DEF Wanted
    <3>3. PICK j \in 1..Len(w) : w[j] = Add(r, c)
      BY <1>1, <3>2 DEF ToSet
    <3>4. w[j].op = "add" /\ w[j].rec = c
      BY <3>3 DEF Add
    <3> QED
      BY <1>6, <1>7, <3>4
  <2> QED
    BY <2>1
<1> QED
  BY <1>6, <1>7, <1>8, <1>9 DEF TreeOk, Stale, u

LEMMA BelowIs ==
  ASSUME NEW f, NEW m \in DOMAIN f
  PROVE  /\ m \in Below(f, {m}) /\ Below(f, {m}) \subseteq DOMAIN f
         /\ \A c \in DOMAIN f : f[c] \in Below(f, {m}) => c \in Below(f, {m})
         /\ \A c \in Below(f, {m}) : c = m \/ f[c] \in Below(f, {m})
         /\ \A s : m \in s /\ (\A c \in DOMAIN f : f[c] \in s => c \in s) => Below(f, {m}) \subseteq s
<1> DEFINE b == Below(f, {m})
<1>1. /\ m \in b /\ b \subseteq DOMAIN f
      /\ \A c \in DOMAIN f : f[c] \in b => c \in b
  BY DEF Below, HasAllBelow
<1>2. ASSUME NEW s, m \in s, \A c \in DOMAIN f : f[c] \in s => c \in s PROVE b \subseteq s
  <2> DEFINE x == s \cap DOMAIN f
  <2>1. x \in SUBSET ({m} \cup DOMAIN f) /\ {m} \subseteq x /\ HasAllBelow(f, x)
    BY <1>2 DEF HasAllBelow
  <2> HIDE DEF x
  <2>2. b \subseteq x
    BY <2>1 DEF Below
  <2> QED
    BY <2>2 DEF x
<1> HIDE DEF b
<1>3. ASSUME NEW c \in b PROVE c = m \/ f[c] \in b
  <2> DEFINE s == {x \in b : x = m \/ f[x] \in b}
  <2>1. m \in s /\ \A x \in DOMAIN f : f[x] \in s => x \in s
    BY <1>1
  <2> HIDE DEF s
  <2>2. b \subseteq s
    BY <1>2, <2>1
  <2> QED
    BY <2>2 DEF s
<1> QED
  BY <1>1, <1>2, <1>3 DEF b

\* A tree made for the project before a model is added will do for the project after.
LEMMA AddReady ==
  ASSUME ConstantsAssumption, NEW p, Shape(p), Agree(p), NEW t, Fits(p, t), Stale(p, t) = {},
         NEW r \in Parent, NEW m \in Model, m \notin DOMAIN p.dm_child, p.dm_models[m] = <<>>,
         m \notin DOMAIN t.dm_mapper
  PROVE  Fits(AddTitled(p, r, m), t) /\ Stale(AddTitled(p, r, m), t) = {}
<1> DEFINE q == AddTitled(p, r, m)
           f == p.dm_child
           g == q.dm_child
<1>1. /\ Shape(q) /\ DOMAIN g = DOMAIN f \cup {m} /\ g[m] = r
      /\ \A c \in DOMAIN f : g[c] = f[c]
      /\ \A c \in DOMAIN f : q.title[c] = p.title[c]
  <2>1. DOMAIN f \subseteq Model
    BY DEF Shape
  <2> QED
    BY <2>1, Added
<1>2. \A c \in DOMAIN f : f[c] # m /\ c \in Model
  <2>1. ASSUME NEW c \in DOMAIN f PROVE c \in Model /\ c \in ToSet(p.dm_models[f[c]])
    BY DEF Shape, Agree
  <2> QED
    BY <2>1 DEF ToSet
<1>3. NoModel \notin DOMAIN f /\ NoModel \notin DOMAIN g
  BY <1>1, <1>2 DEF ConstantsAssumption
<1> HIDE DEF q
<1>4. Shown(f) \subseteq Shown(g)
  <2> HIDE DEF f, g
  <2>1. \A c \in DOMAIN f : f[c] \in Shown(g) \cup {NoModel} => c \in Shown(g)
    BY <1>1, <1>3, ShownIs
  <2> QED
    BY <1>3, <2>1, ShownIs
<1>5. Shown(g) \subseteq Shown(f) \cup {m}
  <2> HIDE DEF f, g
  <2> DEFINE s == Shown(f) \cup {m}
  <2>1. \A c \in DOMAIN g : g[c] \in s \cup {NoModel} => c \in s
    BY <1>1, <1>2, <1>3, ShownIs
  <2> HIDE DEF s
  <2>2. Shown(g) \subseteq s
    BY <1>3, <2>1, ShownIs
  <2> QED
    BY <2>2 DEF s
<1>6. Shown(f) \subseteq DOMAIN f
  BY <1>3, ShownIs
<1>7. Stale(q, t) = {}
  BY <1>4 DEF Stale
<1>8. \A c \in DOMAIN t.dm_data_store \cap Shown(g) : t.dm_data_store[c] = Row(q, c)
  <2>1. ASSUME NEW c \in DOMAIN t.dm_data_store \cap Shown(g) PROVE t.dm_data_store[c] = Row(q, c)
    <3>1. c \in Shown(f) /\ c \in DOMAIN f
      BY <1>6 DEF Stale
    <3>2. t.dm_data_store[c] = Row(p, c)
      BY <3>1 DEF Fits
    <3> QED
      BY <1>1, <3>1, <3>2 DEF Row
  <2> QED
    BY <2>1
<1>9. \A c \in DOMAIN t.dm_mapper \cap DOMAIN g : t.dm_mapper[c] = g[c]
  BY <1>1 DEF Fits
<1>10. Shown(g) \cap DOMAIN t.dm_mapper \subseteq DOMAIN t.dm_data_store
  BY <1>5 DEF Fits
<1> QED
  BY <1>7, <1>8, <1>9, <1>10 DEF Fits, q

\* What a removal makes stale is below the level it was on.
LEMMA RemoveReady ==
  ASSUME ConstantsAssumption, NEW p, Shape(p), Agree(p), NEW t, TreeOk(p, t), NEW m \in DOMAIN p.dm_child
  PROVE  LET q == RemoveModel(p, p.dm_child[m], m)
         IN  Fits(q, t) /\ \E at : StaleBelow(q, t, at)
<1> DEFINE q == RemoveModel(p, p.dm_child[m], m)
           f == p.dm_child
           g == q.dm_child
           b == Below(f, {m})
<1>1. /\ Shape(q) /\ DOMAIN g = DOMAIN f \ Gone(p, m) /\ q.title = p.title
      /\ \A c \in DOMAIN g : g[c] = f[c]
  BY Removed
<1>2. m \in Gone(p, m) /\ Gone(p, m) \subseteq b
  BY GoneIsBelow DEF Gone
<1>3. /\ m \in b /\ b \subseteq DOMAIN f /\ DOMAIN f \subseteq Model /\ NoModel \notin DOMAIN f
      /\ \A c \in DOMAIN f : f[c] \in b => c \in b
      /\ \A c \in b : c = m \/ f[c] \in b
  <2>1. DOMAIN f \subseteq Model /\ NoModel \notin DOMAIN f
    BY DEF Shape, ConstantsAssumption
  <2> QED
    BY <2>1, BelowIs
<1>4. \A s : m \in s /\ (\A c \in DOMAIN f : f[c] \in s => c \in s) => b \subseteq s
  BY BelowIs
<1> HIDE DEF q, f, g, b
<1>5. /\ Shown(f) \subseteq DOMAIN f
      /\ \A c \in DOMAIN f : f[c] \in Shown(f) \cup {NoModel} <=> c \in Shown(f)
      /\ \A s : (\A c \in DOMAIN f : f[c] \in s \cup {NoModel} => c \in s) => Shown(f) \subseteq s
  BY <1>3, ShownIs
<1>6. /\ Shown(g) \subseteq DOMAIN g
      /\ \A c \in DOMAIN g : g[c] \in Shown(g) \cup {NoModel} <=> c \in Shown(g)
      /\ \A s : (\A c \in DOMAIN g : g[c] \in s \cup {NoModel} => c \in s) => Shown(g) \subseteq s
  BY <1>1, <1>3, ShownIs
<1>7. Shown(g) \subseteq Shown(f)
  BY <1>1, <1>5, <1>6
<1>8. Shown(g) \cap b = {}
  <2> DEFINE s == Shown(g) \ b
  <2>1. \A c \in DOMAIN g : g[c] \in s \cup {NoModel} => c \in s
    BY <1>1, <1>2, <1>3, <1>6
  <2> HIDE DEF s
  <2>2. Shown(g) \subseteq s
    BY <1>6, <2>1
  <2> QED
    BY <2>2 DEF s
<1>9. Shown(f) \subseteq Shown(g) \cup b
  <2> DEFINE s == Shown(g) \cup b
  <2>1. \A c \in DOMAIN f : f[c] \in s \cup {NoModel} => c \in s
    BY <1>1, <1>2, <1>3, <1>6
  <2> HIDE DEF s
  <2>2. Shown(f) \subseteq s
    BY <1>5, <2>1
  <2> QED
    BY <2>2 DEF s
<1>10. DOMAIN t.dm_data_store = Shown(f) /\ Fits(p, t)
  BY DEF TreeOk, f
<1>11. Stale(q, t) = Shown(f) \cap b
  BY <1>7, <1>8, <1>9, <1>10 DEF Stale, g
<1>12. Fits(q, t)
  <2>1. ASSUME NEW c \in DOMAIN t.dm_data_store \cap Shown(g) PROVE t.dm_data_store[c] = Row(q, c)
    <3>1. t.dm_data_store[c] = Row(p, c)
      BY <1>10 DEF Fits, f
    <3> QED
      BY <1>1, <1>6, <3>1 DEF Row, f, g
  <2>2. \A c \in DOMAIN t.dm_mapper \cap DOMAIN g : t.dm_mapper[c] = g[c]
    BY <1>1, <1>10 DEF Fits, f
  <2>3. Shown(g) \cap DOMAIN t.dm_mapper \subseteq DOMAIN t.dm_data_store
    BY <1>7, <1>10
  <2> QED
    BY <1>10, <2>1, <2>2, <2>3 DEF Fits, g
<1>13. CASE m \notin Shown(f)
  <2> DEFINE s == b \ Shown(f)
  <2>1. m \in s /\ \A c \in DOMAIN f : f[c] \in s => c \in s
    BY <1>3, <1>5, <1>13
  <2> HIDE DEF s
  <2>2. b \subseteq s
    BY <1>4, <2>1
  <2>3. Stale(q, t) = {}
    BY <1>11, <2>2 DEF s
  <2>4. StaleBelow(q, t, NoModel)
    BY <2>3 DEF StaleBelow, Visited
  <2> QED
    BY <1>12, <2>4 DEF q
<1>14. CASE m \in Shown(f)
  <2> DEFINE at == f[m]
             ms == Shown(f) \cap b
  <2>1. at \notin b
    <3> SUFFICES ASSUME at \in b PROVE FALSE
      OBVIOUS
    <3> DEFINE s == Shown(f) \ b
    <3>1. \A c \in DOMAIN f : f[c] \in s \cup {NoModel} => c \in s
      BY <1>3, <1>5
    <3> HIDE DEF s
    <3>2. Shown(f) \subseteq s
      BY <1>5, <3>1
    <3> QED
      BY <1>3, <1>14, <3>2 DEF s
  <2>2. at \in Visited(q)
    <3>1. at \in Shown(f) \cup {NoModel}
      BY <1>5, <1>14
    <3> QED
      BY <1>9, <2>1, <3>1 DEF Visited, g
  <2>3. ASSUME NEW x \in ms
        PROVE  t.dm_mapper[x] = f[x] /\ t.dm_data_store[x].parent = f[x] /\ f[x] \in ms \cup {at}
    <3>1. x \in DOMAIN t.dm_data_store /\ x \in DOMAIN t.dm_mapper /\ x \in DOMAIN f
      BY <1>5, <1>10 DEF Fits, TreeShape
    <3>2. t.dm_mapper[x] = f[x]
      BY <1>10, <3>1 DEF Fits, f
    <3>3. t.dm_data_store[x] = Row(p, x)
      BY <1>10, <3>1 DEF Fits, f
    <3>4. t.dm_data_store[x].parent = f[x]
      BY <3>3 DEF Row, f
    <3>5. f[x] \in ms \cup {at}
      BY <1>3, <1>5, <3>1
    <3> QED
      BY <3>2, <3>4, <3>5
  <2>4. ASSUME NEW s \in SUBSET ms, \A x \in ms : t.dm_mapper[x] \in s \cup {at} => x \in s
        PROVE  s = ms
    <3> DEFINE y == s \cup (b \ Shown(f))
    <3>1. m \in y
      BY <1>3, <1>14, <2>3, <2>4
    <3>2. ASSUME NEW c \in DOMAIN f, f[c] \in y PROVE c \in y
      <4>1. c \in b
        BY <1>3, <3>2
      <4>2. c \in Shown(f) => f[c] \in s
        BY <1>3, <1>5, <3>2
      <4>3. c \in Shown(f) => c \in s
        BY <2>3, <2>4, <4>1, <4>2
      <4> QED
        BY <4>1, <4>3
    <3> HIDE DEF y
    <3>3. b \subseteq y
      BY <1>4, <3>1, <3>2
    <3> QED
      BY <3>3 DEF y
  <2> HIDE DEF ms, at
  <2>5. Stale(q, t) = ms
    BY <1>11 DEF ms
  <2>6. StaleBelow(q, t, at)
    BY <2>2, <2>3, <2>4, <2>5 DEF StaleBelow
  <2> QED
    BY <1>12, <2>6 DEF q
<1> QED
  BY <1>13, <1>14

\* Titles: the tree hears of a new one if a node listens to the model.
LEMMA RetitleShows ==
  ASSUME ConstantsAssumption, NEW p, Shape(p), NEW t, TreeOk(p, t), NEW m \in Model, NEW new \in {"old", "new"}
  PROVE  LET q == [p EXCEPT !.title[m] = new]
             u == [t EXCEPT !.dm_data_store[m].title = new]
         IN  /\ m \in DOMAIN t.dm_data_store => TreeOk(q, u) /\ DOMAIN u.dm_mapper = DOMAIN t.dm_mapper
             /\ m \notin DOMAIN t.dm_data_store => TreeOk(q, t)
<1> DEFINE q == [p EXCEPT !.title[m] = new]
           u == [t EXCEPT !.dm_data_store[m].title = new]
           sh == Shown(p.dm_child)
<1>1. /\ q.dm_child = p.dm_child /\ q.title[m] = new /\ \A c \in Model \ {m} : q.title[c] = p.title[c]
  <2>1. PICK f, g, o, v : p = [dm_models |-> f, dm_child |-> g, owned |-> o, title |-> v]
    BY DEF Shape
  <2>2. p.title = v /\ v \in [Model -> {"old", "new"}]
    BY <2>1 DEF Shape
  <2> DEFINE w == [v EXCEPT ![m] = new]
  <2>3. w[m] = new /\ \A c \in Model \ {m} : w[c] = v[c]
    BY <2>2
  <2>4. q = [p EXCEPT !.title = w]
    BY <2>2
  <2> HIDE DEF q, w
  <2>5. q = [dm_models |-> f, dm_child |-> g, owned |-> o, title |-> w]
    BY <2>1, <2>4
  <2> QED
    BY <2>1, <2>3, <2>5
<1>2. sh \subseteq Model /\ DOMAIN t.dm_data_store = sh /\ Fits(p, t)
  <2>1. DOMAIN p.dm_child \subseteq Model /\ NoModel \notin DOMAIN p.dm_child
    BY DEF Shape, ConstantsAssumption
  <2> QED
    BY <2>1, ShownIs DEF TreeOk
<1> HIDE DEF q
<1>3. ASSUME NEW c \in sh, c # m PROVE t.dm_data_store[c] = Row(q, c)
  <2>1. t.dm_data_store[c] = Row(p, c)
    BY <1>2 DEF Fits
  <2> QED
    BY <1>1, <1>2, <1>3, <2>1 DEF Row
<1>4. ASSUME m \notin DOMAIN t.dm_data_store PROVE TreeOk(q, t)
  BY <1>1, <1>2, <1>3, <1>4 DEF Fits, TreeOk
<1>5. ASSUME m \in DOMAIN t.dm_data_store PROVE TreeOk(q, u) /\ DOMAIN u.dm_mapper = DOMAIN t.dm_mapper
  <2> DEFINE row == [t.dm_data_store[m] EXCEPT !.title = new]
             ds == [t.dm_data_store EXCEPT ![m] = row]
  <2>1. row = Row(q, m)
    <3>1. t.dm_data_store[m] = [parent |-> p.dm_child[m], title |-> p.title[m]]
      BY <1>2, <1>5 DEF Fits, Row
    <3>2. row = [parent |-> p.dm_child[m], title |-> new]
      BY <3>1
    <3> QED
      BY <1>1, <3>2 DEF Row
  <2>2. PICK f, g, k : t = [dm_mapper |-> f, dm_data_store |-> g, dm_current |-> k]
    BY <1>2 DEF Fits, TreeShape
  <2>3. u = [t EXCEPT !.dm_data_store = ds]
    OBVIOUS
  <2> HIDE DEF row, u
  <2>4. /\ DOMAIN ds = DOMAIN t.dm_data_store /\ ds[m] = Row(q, m)
        /\ \A c \in DOMAIN t.dm_data_store \ {m} : ds[c] = t.dm_data_store[c]
        /\ ds = [c \in DOMAIN ds |-> ds[c]]
    BY <1>5, <2>1
  <2> HIDE DEF ds
  <2>5. u = [dm_mapper |-> f, dm_data_store |-> ds, dm_current |-> k]
    BY <2>2, <2>3
  <2>6. /\ u.dm_mapper = t.dm_mapper /\ u.dm_data_store = ds /\ u.dm_current = t.dm_current
        /\ u = [dm_mapper |-> u.dm_mapper, dm_data_store |-> u.dm_data_store, dm_current |-> u.dm_current]
    BY <2>2, <2>5
  <2>7. TreeShape(u)
    BY <1>2, <2>4, <2>6 DEF Fits, TreeShape
  <2>8. \A c \in DOMAIN u.dm_data_store \cap sh : u.dm_data_store[c] = Row(q, c)
    BY <1>2, <1>3, <2>4, <2>6
  <2> QED
    BY <1>1, <1>2, <2>4, <2>6, <2>7, <2>8 DEF Fits, TreeOk
<1> QED
  BY <1>4, <1>5 DEF q, u

\* The inductive invariant of the tree: no node is of a model that a window will add, as it would
\* be taken for shown when the model comes.
TreeInv == TreeOk(prj, tree) /\ Outs(calcs) \cap DOMAIN tree.dm_mapper = {} /\ aborted # "mapper"

LEMMA TreeInitially == ConstantsAssumption /\ Init => TreeInv
<1> SUFFICES ASSUME ConstantsAssumption, Init PROVE TreeInv
  OBVIOUS
<1>1. /\ tree = [dm_mapper |-> <<>>, dm_data_store |-> <<>>, dm_current |-> Root]
      /\ prj.dm_child = <<>> /\ calcs = {} /\ aborted = "no"
  BY DEF Init
<1>2. DOMAIN prj.dm_child = {} /\ Shown(prj.dm_child) = {}
  <2>1. DOMAIN prj.dm_child = {}
    BY <1>1
  <2> QED
    BY <2>1, ShownIs
<1>3. DOMAIN tree.dm_mapper = {} /\ DOMAIN tree.dm_data_store = {} /\ TreeShape(tree)
  BY <1>1 DEF TreeShape
<1> QED
  BY <1>1, <1>2, <1>3 DEF TreeInv, TreeOk, Fits, Outs

LEMMA TreeStep ==
  ASSUME ConstantsAssumption, ProjectInv, ProjectInv', TreeInv, Next
  PROVE  TreeInv'
<1>a. /\ Shape(prj) /\ Agree(prj) /\ OutsInv(prj, calcs) /\ Shape(prj') /\ Agree(prj') /\ OutsInv(prj', calcs')
      /\ TreeOk(prj, tree) /\ Outs(calcs) \cap DOMAIN tree.dm_mapper = {} /\ aborted # "mapper"
  BY DEF ProjectInv, Sound, TreeInv, Shape, Agree, OutsInv, Outs
<1>b. Fits(prj, tree) /\ Stale(prj, tree) = {} /\ DOMAIN tree.dm_data_store \subseteq DOMAIN tree.dm_mapper
  BY <1>a DEF TreeOk, Stale, Fits, TreeShape
<1>c. ASSUME TreeOk(prj', tree'), DOMAIN tree'.dm_mapper = DOMAIN tree.dm_mapper, calcs' \subseteq calcs,
             aborted' # "mapper"
      PROVE  TreeInv'
  <2>1. Outs(calcs') \subseteq Outs(calcs)
    BY <1>c DEF Outs
  <2>2. Outs(calcs') \cap DOMAIN tree'.dm_mapper = {}
    BY <1>a, <1>c, <2>1
  <2> QED
    BY <1>c, <2>2 DEF TreeInv, TreeOk, Fits, TreeShape, Shown, Below, Top, HasAllBelow, Outs, Row
<1>d. ASSUME Fits(prj', tree), NEW at, StaleBelow(prj', tree, at), NotifyViews, calcs' \subseteq calcs,
             aborted' = aborted
      PROVE  TreeInv'
  <2>1. tree' = SyncLevel(prj', tree)
    BY <1>d DEF NotifyViews
  <2>2. /\ TreeOk(prj', tree')
        /\ DOMAIN tree'.dm_mapper \subseteq DOMAIN tree.dm_mapper \cup Shown(prj'.dm_child)
    BY <1>a, <1>d, <2>1, SyncShows
  <2>3. Outs(calcs') \subseteq Outs(calcs)
    BY <1>d DEF Outs
  <2>4. Shown(prj'.dm_child) \subseteq DOMAIN prj'.dm_child
    BY <1>a, KidShown
  <2>5. Outs(calcs') \cap DOMAIN tree'.dm_mapper = {}
    BY <1>a, <2>2, <2>3, <2>4 DEF OutsInv
  <2> QED
    BY <1>a, <1>d, <2>2, <2>5 DEF TreeInv, TreeOk, Fits, TreeShape, Shown, Below, Top, HasAllBelow, Outs, Row
<1>e. ASSUME NEW r \in Parent, NEW m \in Model, m \notin DOMAIN prj.dm_child, prj.dm_models[m] = <<>>,
             m \notin DOMAIN tree.dm_mapper, prj' = AddTitled(prj, r, m), NotifyViews,
             calcs' \subseteq calcs, aborted' = aborted
      PROVE  TreeInv'
  <2>1. Fits(prj', tree) /\ Stale(prj', tree) = {}
    BY <1>a, <1>b, <1>e, AddReady
  <2>2. StaleBelow(prj', tree, NoModel)
    BY <2>1 DEF StaleBelow, Visited
  <2> QED
    BY <1>d, <1>e, <2>1, <2>2
<1>f. ASSUME prj' = prj, tree' = tree, calcs' \subseteq calcs, aborted' # "mapper" PROVE TreeInv'
  BY <1>a, <1>c, <1>f
<1>g. ASSUME NEW m \in Model, Fresh(m)
      PROVE  m \notin DOMAIN prj.dm_child /\ prj.dm_models[m] = <<>> /\ m \notin DOMAIN tree.dm_mapper
  BY <1>g DEF Fresh
<1>h. NoModel \in Parent /\ NoModel \notin Model /\ Model \subseteq Parent
  BY DEF ConstantsAssumption, Parent
<1>1. ASSUME NEW m \in Model \cup {Root}, Select(m) PROVE TreeInv'
  <2>1. m \in DOMAIN tree.dm_mapper \cup {Root}
    BY <1>1, <1>b DEF Select
  <2>2. /\ tree' = [tree EXCEPT !.dm_current = m] /\ aborted' = aborted /\ prj' = prj /\ calcs' = calcs
    BY <1>1, <2>1 DEF Select
  <2>3. PICK f, g, k : tree = [dm_mapper |-> f, dm_data_store |-> g, dm_current |-> k]
    BY <1>b DEF Fits, TreeShape
  <2>4. /\ tree'.dm_mapper = tree.dm_mapper /\ tree'.dm_data_store = tree.dm_data_store /\ tree'.dm_current = m
        /\ tree' = [dm_mapper |-> tree'.dm_mapper, dm_data_store |-> tree'.dm_data_store, dm_current |-> tree'.dm_current]
    BY <2>2, <2>3
  <2>5. TreeOk(prj', tree')
    BY <1>a, <2>1, <2>2, <2>4 DEF TreeOk, Fits, TreeShape
  <2> QED
    BY <1>a, <1>c, <2>2, <2>4, <2>5
<1>2. ASSUME NEW m \in Model, NEW new \in {"old", "new"}, RenameOk(m, new) PROVE TreeInv'
  <2>1. prj' = [prj EXCEPT !.title[m] = new] /\ calcs' = calcs
    BY <1>2 DEF RenameOk
  <2>2. CASE m \in DOMAIN tree.dm_data_store
    <3>1. tree' = [tree EXCEPT !.dm_data_store[m].title = new] /\ aborted' = aborted
      BY <1>2, <1>b, <2>2 DEF RenameOk
    <3>2. TreeOk(prj', tree') /\ DOMAIN tree'.dm_mapper = DOMAIN tree.dm_mapper
      BY <1>a, <2>1, <2>2, <3>1, RetitleShows
    <3> QED
      BY <1>a, <1>c, <2>1, <3>1, <3>2
  <2>3. CASE m \notin DOMAIN tree.dm_data_store
    <3>1. TreeOk(prj', tree)
      BY <1>a, <2>1, <2>3, RetitleShows
    <3>2. tree' = tree
      BY <1>2, <2>3 DEF RenameOk
    <3>3. aborted' # "mapper"
      <4>1. m \notin DOMAIN tree.dm_mapper => tree.dm_current # m
        BY <1>b DEF Fits, TreeShape, ConstantsAssumption
      <4> QED
        BY <1>2, <1>a, <2>3, <4>1 DEF RenameOk
    <3> QED
      BY <1>c, <2>1, <3>1, <3>2, <3>3
  <2> QED
    BY <2>2, <2>3
<1>3. ASSUME NEW m \in Model, OpenRename(m) \/ CloseRename(m) PROVE TreeInv'
  BY <1>3, <1>a, <1>f DEF OpenRename, CloseRename
<1>4. ASSUME NEW m \in Model, Insert(m) PROVE TreeInv'
  BY <1>4, <1>e, <1>g, <1>h DEF Insert
<1>5. ASSUME NEW m \in Model, Copy(m) PROVE TreeInv'
  <2>1. CASE prj' = prj /\ tree' = tree /\ aborted' # "mapper"
    BY <1>5, <1>f, <2>1 DEF Copy
  <2>2. CASE ~(prj' = prj /\ tree' = tree /\ aborted' # "mapper")
    <3>1. m \in DOMAIN prj.dm_child /\ NotifyViews /\ aborted' = aborted /\ calcs' = calcs
      BY <1>5, <2>2 DEF Copy
    <3>2. PICK new \in Model : Fresh(new) /\ prj' = AddTitled(prj, prj.dm_child[m], new)
      BY <1>5, <2>2 DEF Copy
    <3>3. prj.dm_child[m] \in Parent
      BY <1>a, <3>1 DEF Shape
    <3> QED
      BY <1>e, <1>g, <3>1, <3>2, <3>3
  <2> QED
    BY <2>1, <2>2
<1>6. ASSUME NEW m \in Model, OpenRemove(m) \/ CloseRemove(m) PROVE TreeInv'
  BY <1>6, <1>a, <1>f DEF OpenRemove, CloseRemove
<1>7. ASSUME NEW m \in Model, RemoveOk(m) PROVE TreeInv'
  <2>1. CASE prj' = prj /\ tree' = tree /\ aborted' # "mapper"
    BY <1>7, <1>f, <2>1 DEF RemoveOk
  <2>2. CASE ~(prj' = prj /\ tree' = tree /\ aborted' # "mapper")
    <3>1. /\ m \in DOMAIN prj.dm_child /\ prj' = RemoveModel(prj, prj.dm_child[m], m) /\ NotifyViews
          /\ aborted' = aborted /\ calcs' = calcs
      BY <1>7, <1>a, <2>2 DEF RemoveOk
    <3>2. Fits(prj', tree) /\ \E at : StaleBelow(prj', tree, at)
      BY <1>a, <3>1, RemoveReady
    <3> QED
      BY <1>d, <3>1, <3>2
  <2> QED
    BY <2>1, <2>2
<1>8. ASSUME NEW m \in Model, NEW n \in Model, OpenFile(m, n) PROVE TreeInv'
  <2> DEFINE p == AddTitled(prj, NoModel, m)
  <2>1. Fresh(m) /\ Fresh(n) /\ m # n /\ prj' = AddTitled(p, m, n) /\ calcs' = calcs /\ NotifyViews /\ aborted' = aborted
    BY <1>8 DEF OpenFile
  <2>2. Fits(p, tree) /\ Stale(p, tree) = {}
    BY <1>a, <1>b, <1>g, <1>h, <2>1, AddReady
  <2>3. Shape(p) /\ DOMAIN p.dm_child = DOMAIN prj.dm_child \cup {m} /\ p.dm_models[n] = prj.dm_models[n]
    <3>1. n \in Parent \ {NoModel} /\ Shape(prj) /\ NoModel \in Parent
      BY <1>a, <1>h
    <3> QED
      BY <3>1, Added
  <2>4. Agree(p)
    BY <1>a, <1>g, <1>h, <2>1, AddAgrees
  <2> HIDE DEF p
  <2>5. n \notin DOMAIN p.dm_child /\ p.dm_models[n] = <<>> /\ n \notin DOMAIN tree.dm_mapper /\ m \in Parent
    BY <1>g, <1>h, <2>1, <2>3
  <2>6. Fits(prj', tree) /\ Stale(prj', tree) = {}
    BY <2>1, <2>2, <2>3, <2>4, <2>5, AddReady
  <2>7. StaleBelow(prj', tree, NoModel)
    BY <2>6 DEF StaleBelow, Visited
  <2> QED
    BY <1>d, <2>1, <2>6, <2>7
<1>9. ASSUME NEW m \in Model, NEW n \in Model, CalcNow(m, n) PROVE TreeInv'
  BY <1>9, <1>e, <1>g, <1>h DEF CalcNow
<1>10. ASSUME NEW m \in Model, NEW n \in Model, OpenCalc(m, n) PROVE TreeInv'
  <2> DEFINE w == [model |-> m, out |-> n]
  <2>1. /\ Fresh(n) /\ calcs' = calcs \cup {w} /\ tree' = tree /\ aborted' = aborted
        /\ prj' = [prj EXCEPT !.owned = @ \ {n}]
    BY <1>10 DEF OpenCalc
  <2>2. prj'.dm_child = prj.dm_child /\ prj'.title = prj.title
    <3>1. PICK f, g, o, v : prj = [dm_models |-> f, dm_child |-> g, owned |-> o, title |-> v]
      BY <1>a DEF Shape
    <3> QED
      BY <2>1, <3>1
  <2>3. TreeOk(prj', tree')
    BY <1>a, <2>1, <2>2 DEF TreeOk, Fits, Row
  <2>4. Outs(calcs') = Outs(calcs) \cup {n}
    <3>1. w.out = n
      OBVIOUS
    <3> HIDE DEF w
    <3> QED
      BY <2>1, <3>1 DEF Outs
  <2>5. Outs(calcs') \cap DOMAIN tree'.dm_mapper = {}
    BY <1>a, <1>g, <2>1, <2>4
  <2> QED
    BY <1>a, <2>1, <2>3, <2>5 DEF TreeInv, TreeOk, Fits, TreeShape, Shown, Below, Top, HasAllBelow, Outs, Row
<1>11. ASSUME NEW w \in calcs, CalcOk(w) PROVE TreeInv'
  <2>1. calcs' \subseteq calcs /\ aborted' = aborted
    BY <1>11 DEF CalcOk
  <2>2. w \in [model : Model, out : Model] /\ w.out \in Outs(calcs)
    BY <1>a DEF OutsInv, Outs
  <2>3. CASE w.model \in prj.owned
    <3>1. prj' = AddTitled(prj, w.model, w.out) /\ NotifyViews
      BY <1>11, <2>3 DEF CalcOk
    <3>2. w.model \in Parent /\ w.out \in Model
      BY <1>h, <2>2
    <3>3. w.out \notin DOMAIN prj.dm_child /\ prj.dm_models[w.out] = <<>> /\ w.out \notin DOMAIN tree.dm_mapper
      BY <1>a, <2>2 DEF OutsInv
    <3> QED
      BY <1>e, <2>1, <3>1, <3>2, <3>3
  <2>4. CASE w.model \notin prj.owned
    BY <1>11, <1>a, <1>f, <2>1, <2>4 DEF CalcOk
  <2> QED
    BY <2>3, <2>4
<1>12. ASSUME NEW w \in calcs, CloseCalc(w) PROVE TreeInv'
  BY <1>12, <1>a, <1>f DEF CloseCalc
<1> QED
  BY <1>1, <1>2, <1>3, <1>4, <1>5, <1>6, <1>7, <1>8, <1>9, <1>10, <1>11, <1>12 DEF Next

\* The inductive invariant of the tree and the project together.
THEOREM TreeHolds == Spec => [](ProjectInv /\ TreeInv)
<1> DEFINE Inv == ProjectInv /\ TreeInv
<1>1. Init => Inv
  BY Initially, TreeInitially, ConstantsAssumption
<1>2. ASSUME Inv, [Next]_vars PROVE Inv'
  <2>1. CASE UNCHANGED vars
    <3>1. prj' = prj /\ tree' = tree /\ calcs' = calcs /\ removing' = removing /\ aborted' = aborted
      BY <2>1 DEF vars
    <3>2. ProjectInv'
      BY <1>2, <3>1 DEF ProjectInv, Sound, Shape, Agree, OutsInv, Outs
    <3>3. TreeInv'
      <4>1. TreeOk(prj', tree') /\ Outs(calcs') \cap DOMAIN tree'.dm_mapper = {} /\ aborted' # "mapper"
        BY <1>2, <3>1 DEF TreeInv
      <4> QED
        BY <4>1 DEF TreeInv, TreeOk, Fits, TreeShape, Shown, Below, Top, HasAllBelow, Outs, Row
    <3> QED
      BY <3>2, <3>3
  <2>2. CASE Next
    BY <1>2, <2>2, ProjectStep, TreeStep, ConstantsAssumption
  <2> QED
    BY <1>2, <2>1, <2>2
<1>3. Inv /\ [Next]_vars => Inv'
  BY <1>2
<1> QED
  BY <1>1, <1>3, PTL DEF Spec

\* The tree shows the models one can reach from the top of the project, each below its parent
\* and by its title, for any number of models, however deep, and whatever windows confirm.
THEOREM TreeAlwaysShows == Spec => []TreeShowsProject
<1>1. TreeInv => TreeShowsProject
  <2> SUFFICES ASSUME TreeInv PROVE TreeShowsProject
    OBVIOUS
  <2> DEFINE ds == tree.dm_data_store
             f == prj.dm_child
  <2>1. /\ ds = [m \in DOMAIN ds |-> ds[m]] /\ DOMAIN ds = Shown(f)
        /\ \A m \in Shown(f) : ds[m] = [parent |-> f[m], title |-> prj.title[m]]
        /\ aborted # "mapper"
    BY DEF TreeInv, TreeOk, Fits, TreeShape, Row
  <2> HIDE DEF ds
  <2>2. ds = [m \in Shown(f) |-> [parent |-> f[m], title |-> prj.title[m]]]
    BY <2>1
  <2> QED
    BY <2>1, <2>2 DEF TreeShowsProject, Shown, Top, ds
<1> QED
  BY <1>1, TreeHolds, PTL
=============================================================================
