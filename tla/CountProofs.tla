----------------------------- MODULE CountProofs -----------------------------
(***************************************************************************)
(* The counters, for every value of the constants: a buffered delete finds *)
(* its key, pendingDeletes counts the buffered deletes, size is the sum    *)
(* that the corrections of applyToLeaf keep, and Len is off by no more     *)
(* than the upserts and counted puts that are still buffered.              *)
(***************************************************************************)
EXTENDS MapProofs

-----------------------------------------------------------------------------
(* Cardinalities. *)

(* Two sets with the same number of elements. *)
LEMMA SameSize ==
  ASSUME NEW S, NEW T, IsFiniteSet(S), NEW f \in [S -> T],
         \A x, y \in S : f[x] = f[y] => x = y,
         \A t \in T : \E x \in S : f[x] = t
  PROVE  IsFiniteSet(T) /\ Cardinality(T) = Cardinality(S)
<1>1. f \in Bijection(S, T)
  BY DEF Bijection, Injection, Surjection, IsInjective
<1>2. ExistsBijection(S, T)
  BY <1>1 DEF ExistsBijection
<1> QED
  BY <1>2, FS_Bijection

(* Disjoint sets add up. *)
LEMMA DisjointSizes ==
  ASSUME NEW S, NEW T, IsFiniteSet(S), IsFiniteSet(T), S \cap T = {}
  PROVE  /\ IsFiniteSet(S \cup T)
         /\ Cardinality(S \cup T) = Cardinality(S) + Cardinality(T)
         /\ Cardinality(S) \in Nat /\ Cardinality(T) \in Nat
<1>1. /\ IsFiniteSet(S \cup T)
      /\ Cardinality(S \cup T) = Cardinality(S) + Cardinality(T) - Cardinality(S \cap T)
  BY FS_Union
<1>2. Cardinality(S \cap T) = 0 /\ Cardinality(S) \in Nat /\ Cardinality(T) \in Nat
  BY FS_EmptySet, FS_CardinalityType
<1> QED
  BY <1>1, <1>2

(* A set without some of its elements. *)
LEMMA RemainderSize ==
  ASSUME NEW S, NEW T, IsFiniteSet(S), T \subseteq S
  PROVE  /\ IsFiniteSet(T) /\ IsFiniteSet(S \ T)
         /\ Cardinality(S \ T) = Cardinality(S) - Cardinality(T)
         /\ Cardinality(S) \in Nat /\ Cardinality(T) \in Nat
         /\ Cardinality(T) <= Cardinality(S)
<1>1. IsFiniteSet(T) /\ IsFiniteSet(S \ T) /\ Cardinality(T) <= Cardinality(S)
  BY FS_Subset, FS_Difference
<1>2. Cardinality(S \ T) = Cardinality(S) - Cardinality(S \cap T)
  BY FS_Difference
<1>3. S \cap T = T
  OBVIOUS
<1> QED
  BY <1>1, <1>2, <1>3, FS_CardinalityType

-----------------------------------------------------------------------------
(* What a batch does to the number of entries. *)

(* The keys that map to something. *)
Present(f) == {k \in Key : f[k] # Absent}

(* The messages that find nothing. *)
FreshSlots(kv, msgs) == {s \in Slots(msgs) : Fresh(kv, msgs, s)}

(* Slots, one by one. *)
LEMMA SlotIs ==
  ASSUME NEW msgs \in [Key -> Seq(Msg)]
  PROVE  /\ \A s : s \in Slots(msgs) <=> /\ s = <<s[1], s[2]>> /\ s[1] \in Key
                                        /\ s[2] \in 1..Len(msgs[s[1]])
         /\ \A k, j : <<k, j>> \in Slots(msgs) <=> k \in Key /\ j \in 1..Len(msgs[k])
<1>1. \A k \in Key : DOMAIN msgs[k] = 1..Len(msgs[k])
  <2> SUFFICES ASSUME NEW k \in Key PROVE DOMAIN msgs[k] = 1..Len(msgs[k])
    OBVIOUS
  <2>1. msgs[k] \in Seq(Msg)
    OBVIOUS
  <2> QED
    BY <2>1, LenProperties
<1>2. \A s : s \in Slots(msgs) <=> \E k \in Key : s \in {k} \X DOMAIN msgs[k]
  BY DEF Slots
<1>3. \A s, k : s \in {k} \X DOMAIN msgs[k] <=>
              s = <<s[1], s[2]>> /\ s[1] = k /\ s[2] \in DOMAIN msgs[k]
  OBVIOUS
<1>4. \A s : s \in Slots(msgs) <=> s = <<s[1], s[2]>> /\ s[1] \in Key /\ s[2] \in 1..Len(msgs[s[1]])
  BY <1>1, <1>2, <1>3
<1>5. \A k, j : <<k, j>>[1] = k /\ <<k, j>>[2] = j
  OBVIOUS
<1> QED
  BY <1>4, <1>5

(* A delete leaves nothing, any other message leaves something. *)
LEMMA ApplyPresent ==
  ASSUME NEW m \in Msg, NEW o \in Opt
  PROVE  Apply(m, o) = Absent <=> m.kind = "del"
<1>1. CASE m.kind = "put"
  BY <1>1, MessagesAssumption DEF Apply, Msg
<1>2. CASE m.kind = "del"
  BY <1>2 DEF Apply
<1>3. CASE m.kind = "ups"
  <2>1. m.fn \in [Opt -> Value]
    BY <1>3, MessagesAssumption DEF Msg
  <2> QED
    BY <1>3, <2>1, MessagesAssumption DEF Apply
<1>4. m.kind \in {"put", "del", "ups"}
  BY DEF Msg
<1> QED
  BY <1>1, <1>2, <1>3, <1>4

(***************************************************************************)
(* The entries before a batch and its messages that find nothing are as    *)
(* many as the entries after it and its deletes: both are the values,      *)
(* counted over every key and every point of its history, that are there.  *)
(***************************************************************************)
LEMMA Balance ==
  ASSUME NEW kv \in [Key -> Opt], NEW msgs \in [Key -> Seq(Msg)],
         NEW new, \A k \in Key : new[k] = After(msgs[k], kv[k])
  PROVE  /\ IsFiniteSet(Present(kv)) /\ IsFiniteSet(Present(new))
         /\ IsFiniteSet(FreshSlots(kv, msgs)) /\ IsFiniteSet(Deletes(msgs))
         /\ Cardinality(Present(kv)) + Cardinality(FreshSlots(kv, msgs))
              = Cardinality(Present(new)) + Cardinality(Deletes(msgs))
<1> DEFINE len == [k \in Key |-> Len(msgs[k])]
           run(k) == Run(msgs[k], kv[k])
           P == Present(kv)
           Q == Present(new)
           S == Slots(msgs)
           F == FreshSlots(kv, msgs)
           D == Deletes(msgs)
           W == {w \in Key \X Nat : w[2] <= len[w[1]] /\ run(w[1])[w[2]] # Absent}
           P0 == {w \in W : w[2] = 0}
           W1 == {w \in W : w[2] # 0}
           Q0 == {w \in W : w[2] = len[w[1]]}
           W2 == {w \in W : w[2] # len[w[1]]}
<1>1. \A k \in Key : msgs[k] \in Seq(Msg) /\ kv[k] \in Opt /\ len[k] \in Nat /\ len[k] = Len(msgs[k])
  <2> SUFFICES ASSUME NEW k \in Key PROVE msgs[k] \in Seq(Msg) /\ kv[k] \in Opt /\ Len(msgs[k]) \in Nat
    OBVIOUS
  <2>1. msgs[k] \in Seq(Msg)
    OBVIOUS
  <2> QED
    BY <2>1, LenProperties
<1> HIDE DEF len
<1>2. ASSUME NEW k \in Key
      PROVE  /\ run(k)[0] = kv[k] /\ run(k)[len[k]] = new[k]
             /\ \A i \in 1..len[k] : /\ msgs[k][i] \in Msg
                                     /\ run(k)[i] = Absent <=> msgs[k][i].kind = "del"
  <2> DEFINE s == msgs[k]
             o == kv[k]
             r == Run(s, o)
  <2>1. s \in Seq(Msg) /\ o \in Opt /\ len[k] = Len(s)
    BY <1>1
  <2>2. new[k] = After(s, o)
    OBVIOUS
  <2> HIDE DEF s, o
  <2>3. /\ r \in [0..Len(s) -> Opt] /\ r[0] = o
        /\ \A i \in 1..Len(s) : r[i] = Apply(s[i], r[i-1])
    BY ONLY <2>1, RunProperties
  <2> HIDE DEF r
  <2>4. \A i \in 1..Len(s) : s[i] \in Msg /\ i - 1 \in 0..Len(s)
    <3>1. Len(s) \in Nat /\ DOMAIN s = 1..Len(s) /\ \A i \in 1..Len(s) : s[i] \in Msg
      BY <2>1, LenProperties, ElementOfSeq
    <3> QED
      BY <3>1
  <2>5. \A i \in 1..Len(s) : r[i] = Absent <=> s[i].kind = "del"
    BY <2>3, <2>4, ApplyPresent
  <2> QED
    BY <2>1, <2>2, <2>3, <2>4, <2>5 DEF s, o, r, After
<1> HIDE DEF run
<1>3. IsFiniteSet(S) /\ IsFiniteSet(Key) /\ P \subseteq Key /\ Q \subseteq Key
      /\ F \subseteq S /\ D \subseteq S
  BY SlotsFinite, ConstantsAssumption DEF Present, FreshSlots, Deletes
<1>4. IsFiniteSet(P) /\ IsFiniteSet(Q) /\ IsFiniteSet(F) /\ IsFiniteSet(D)
  BY <1>3, FS_Subset
<1>5. \A s : s \in S <=> s = <<s[1], s[2]>> /\ s[1] \in Key /\ s[2] \in 1..len[s[1]]
  <2>1. \A s : s \in S <=> s = <<s[1], s[2]>> /\ s[1] \in Key /\ s[2] \in 1..Len(msgs[s[1]])
    BY SlotIs
  <2> QED
    BY <1>1, <2>1
<1>6. \A s \in S : /\ s \in F <=> run(s[1])[s[2] - 1] = Absent
                   /\ s \in D <=> run(s[1])[s[2]] = Absent
  BY <1>2, <1>5 DEF FreshSlots, Fresh, Deletes, At, run
<1>7. \A w : w \in W <=> w = <<w[1], w[2]>> /\ w[1] \in Key /\ w[2] \in Nat
                         /\ w[2] <= len[w[1]] /\ run(w[1])[w[2]] # Absent
  OBVIOUS
<1>8. \A k, i : <<k, i>>[1] = k /\ <<k, i>>[2] = i
  OBVIOUS
<1>p. \A k \in Key : (k \in P <=> kv[k] # Absent) /\ (k \in Q <=> new[k] # Absent)
  BY DEF Present
<1>w. /\ \A w : w \in P0 <=> w \in W /\ w[2] = 0
      /\ \A w : w \in W1 <=> w \in W /\ w[2] # 0
      /\ \A w : w \in Q0 <=> w \in W /\ w[2] = len[w[1]]
      /\ \A w : w \in W2 <=> w \in W /\ w[2] # len[w[1]]
  OBVIOUS
<1> HIDE DEF S, F, D, P, Q, W, P0, W1, Q0, W2
<1>9. IsFiniteSet(P0) /\ Cardinality(P0) = Cardinality(P)
  <2> DEFINE f == [k \in P |-> <<k, 0>>]
  <2>1. \A k \in P : <<k, 0>> \in P0
    BY <1>1, <1>2, <1>3, <1>7, <1>8, <1>p, <1>w
  <2>2. f \in [P -> P0] /\ \A k \in P : f[k] = <<k, 0>>
    BY <2>1
  <2>3. \A t \in P0 : t[1] \in P /\ t = <<t[1], 0>>
    BY <1>2, <1>7, <1>p, <1>w
  <2> HIDE DEF f
  <2>4. \A x, y \in P : f[x] = f[y] => x = y
    BY <1>8, <2>2
  <2>5. \A t \in P0 : \E x \in P : f[x] = t
    BY <2>2, <2>3
  <2> QED
    BY ONLY <1>4, <2>2, <2>4, <2>5, SameSize
<1>10. IsFiniteSet(Q0) /\ Cardinality(Q0) = Cardinality(Q)
  <2> DEFINE f == [k \in Q |-> <<k, len[k]>>]
  <2>1. \A k \in Q : <<k, len[k]>> \in Q0
    BY <1>1, <1>2, <1>3, <1>7, <1>8, <1>p, <1>w
  <2>2. f \in [Q -> Q0] /\ \A k \in Q : f[k] = <<k, len[k]>>
    BY <2>1
  <2>3. \A t \in Q0 : t[1] \in Q /\ t = <<t[1], len[t[1]]>>
    BY <1>2, <1>7, <1>p, <1>w
  <2> HIDE DEF f
  <2>4. \A x, y \in Q : f[x] = f[y] => x = y
    BY <1>8, <2>2
  <2>5. \A t \in Q0 : \E x \in Q : f[x] = t
    BY <2>2, <2>3
  <2> QED
    BY ONLY <1>4, <2>2, <2>4, <2>5, SameSize
<1>11. W1 = S \ D
  <2>1. ASSUME NEW w, w \in W1 PROVE w \in S \ D
    <3>1. w[1] \in Key /\ len[w[1]] \in Nat /\ w[2] \in 1..len[w[1]]
      BY <1>1, <1>7, <1>w, <2>1
    <3> QED
      BY <1>5, <1>6, <1>7, <1>w, <2>1, <3>1
  <2>2. ASSUME NEW w, w \in S \ D PROVE w \in W1
    <3>1. w[1] \in Key /\ len[w[1]] \in Nat /\ w[2] \in 1..len[w[1]]
      BY <1>1, <1>5, <2>2
    <3>2. w[2] \in Nat /\ w[2] # 0 /\ w[2] <= len[w[1]]
      BY <3>1
    <3> QED
      BY <1>5, <1>6, <1>7, <1>w, <2>2, <3>1, <3>2
  <2> QED
    BY <2>1, <2>2
<1>12. IsFiniteSet(S \ F) /\ IsFiniteSet(S \ D)
       /\ Cardinality(S \ F) = Cardinality(S) - Cardinality(F)
       /\ Cardinality(S \ D) = Cardinality(S) - Cardinality(D)
       /\ Cardinality(S) \in Nat /\ Cardinality(F) \in Nat /\ Cardinality(D) \in Nat
  BY <1>3, RemainderSize
<1>13. IsFiniteSet(W2) /\ Cardinality(W2) = Cardinality(S \ F)
  <2> DEFINE f == [s \in S \ F |-> <<s[1], s[2] - 1>>]
  <2>1. ASSUME NEW s \in S \ F PROVE <<s[1], s[2] - 1>> \in W2
    <3>1. s[1] \in Key /\ len[s[1]] \in Nat /\ s[2] \in 1..len[s[1]]
      BY <1>1, <1>5
    <3>2. s[2] - 1 \in Nat /\ s[2] - 1 <= len[s[1]] /\ s[2] - 1 # len[s[1]]
      BY <3>1
    <3>3. run(s[1])[s[2] - 1] # Absent
      BY <1>6
    <3> QED
      BY <1>7, <1>8, <1>w, <3>1, <3>2, <3>3
  <2>2. f \in [S \ F -> W2] /\ \A s \in S \ F : f[s] = <<s[1], s[2] - 1>>
    BY <2>1
  <2>3. ASSUME NEW t \in W2 PROVE \E x \in S \ F : f[x] = t
    <3> DEFINE x == <<t[1], t[2] + 1>>
    <3>1. /\ t = <<t[1], t[2]>> /\ t[1] \in Key /\ t[2] \in Nat /\ t[2] <= len[t[1]]
          /\ run(t[1])[t[2]] # Absent /\ t[2] # len[t[1]] /\ len[t[1]] \in Nat
      BY <1>1, <1>7, <1>w
    <3>2. x[1] = t[1] /\ x[2] = t[2] + 1 /\ x = <<x[1], x[2]>>
      BY <1>8
    <3>3. x[2] \in 1..len[x[1]] /\ x[2] - 1 = t[2]
      BY <3>1, <3>2
    <3> HIDE DEF x
    <3>4. x \in S /\ x \notin F
      BY <1>5, <1>6, <3>1, <3>2, <3>3
    <3>5. f[x] = <<t[1], t[2]>>
      BY <2>2, <3>2, <3>3, <3>4
    <3> QED
      BY <3>1, <3>4, <3>5
  <2> HIDE DEF f
  <2>4. ASSUME NEW x \in S \ F, NEW y \in S \ F, f[x] = f[y] PROVE x = y
    <3>1. /\ x = <<x[1], x[2]>> /\ y = <<y[1], y[2]>>
          /\ x[1] \in Key /\ y[1] \in Key /\ len[x[1]] \in Nat /\ len[y[1]] \in Nat
          /\ x[2] \in 1..len[x[1]] /\ y[2] \in 1..len[y[1]]
      BY <1>1, <1>5
    <3>2. x[1] = y[1] /\ x[2] - 1 = y[2] - 1
      BY <1>8, <2>2, <2>4
    <3>3. x[2] = y[2]
      BY <3>1, <3>2
    <3> QED
      BY <3>1, <3>2, <3>3
  <2> QED
    BY ONLY <1>12, <2>2, <2>3, <2>4, SameSize
<1>14. /\ W = P0 \cup W1 /\ P0 \cap W1 = {}
       /\ W = Q0 \cup W2 /\ Q0 \cap W2 = {}
  BY <1>w
<1>15. IsFiniteSet(W1)
  BY <1>11, <1>12
<1>16. /\ Cardinality(W) = Cardinality(P0) + Cardinality(W1)
       /\ Cardinality(P0) \in Nat /\ Cardinality(W1) \in Nat
  BY <1>9, <1>14, <1>15, DisjointSizes
<1>17. /\ Cardinality(W) = Cardinality(Q0) + Cardinality(W2)
       /\ Cardinality(Q0) \in Nat /\ Cardinality(W2) \in Nat
  BY <1>10, <1>13, <1>14, DisjointSizes
<1> DEFINE p == Cardinality(P)
           q == Cardinality(Q)
           a == Cardinality(S)
           d == Cardinality(D)
           e == Cardinality(F)
<1>18. p \in Nat /\ q \in Nat /\ a \in Nat /\ d \in Nat /\ e \in Nat
  BY <1>9, <1>10, <1>12, <1>16, <1>17
<1>19. p + (a - d) = q + (a - e)
  BY <1>9, <1>10, <1>11, <1>12, <1>13, <1>16, <1>17
<1>20. p + e = q + d
  <2> HIDE DEF p, q, a, d, e
  <2> QED
    BY <1>18, <1>19
<1> QED
  BY <1>4, <1>20 DEF P, Q, F, D

-----------------------------------------------------------------------------
(* Buffered messages that find their key. *)

DeleteMsgs == {m \in Msg : m.kind = "del"}
CountedPuts == {m \in Msg : m.kind = "put" /\ m.counted}
UncountedPuts == {m \in Msg : m.kind = "put" /\ ~m.counted}
UpsertMsgs == {m \in Msg : m.kind = "ups"}

(* Every message of M that is buffered for key k will find it there. *)
Hits(h, r, k, M) ==
  \A l \in 1..r[1] : \A j \in 1..Len(MsgsAt(h, k, l)) :
    MsgsAt(h, k, l)[j] \in M => Run(MsgsAt(h, k, l), Vals(h, r, k)[l-1])[j-1] # Absent

(* Neither splits ... *)
LEMMA HitsSame ==
  ASSUME NEW h, NEW r, ShapeIn(h, r), NEW g, NEW s, ShapeIn(g, s), NEW k \in Key,
         SamePile(g, s, h, r, k), NEW M, Hits(h, r, k, M)
  PROVE  Hits(g, s, k, M)
<1>1. r[1] \in Nat /\ s[1] \in Nat /\ r[1] <= s[1]
  BY Owners DEF SamePile
<1>2. \A l \in 0..r[1] : Vals(g, s, k)[l] = Vals(h, r, k)[l]
  BY SamePileVals
<1> SUFFICES ASSUME NEW l \in 1..s[1], NEW j \in 1..Len(MsgsAt(g, k, l)),
                    MsgsAt(g, k, l)[j] \in M
             PROVE  Run(MsgsAt(g, k, l), Vals(g, s, k)[l-1])[j-1] # Absent
  BY DEF Hits
<1>3. CASE l <= r[1]
  <2>1. l \in 1..r[1] /\ l - 1 \in 0..r[1]
    BY <1>1, <1>3
  <2>2. MsgsAt(g, k, l) = MsgsAt(h, k, l) /\ Vals(g, s, k)[l-1] = Vals(h, r, k)[l-1]
    BY <1>2, <2>1 DEF SamePile
  <2> QED
    BY <2>1, <2>2 DEF Hits
<1>4. CASE ~(l <= r[1])
  <2>1. l \in r[1]+1..s[1]
    BY <1>1, <1>4
  <2>2. MsgsAt(g, k, l) = <<>>
    BY <2>1 DEF SamePile
  <2>3. Len(<<>>) = 0 /\ 1..0 = {}
    OBVIOUS
  <2> QED
    BY <2>2, <2>3
<1> QED
  BY <1>3, <1>4

(* ... nor flushes change what a message finds. *)
LEMMA HitsMoved ==
  ASSUME NEW h, NEW r, ShapeIn(h, r), NEW g, ShapeIn(g, r), NEW k \in Key,
         NEW L, Moved(g, h, r, k, L), NEW M, Hits(h, r, k, M)
  PROVE  Hits(g, r, k, M)
<1> DEFINE v == Vals(h, r, k)
           w == Vals(g, r, k)
           R == r[1]
<1>1. R \in Nat /\ L \in 1..R
  <2>1. R \in Nat
    BY Owners
  <2> QED
    BY <2>1 DEF Moved
<1>2. \A l \in 0..R : l # L - 1 => w[l] = v[l]
  BY MovedVals
<1>3. /\ v \in [0..R -> Opt]
      /\ \A l \in 1..R : v[l] = After(MsgsAt(h, k, l), v[l-1])
  BY ValsProperties
<1>4. \A l \in 1..R : MsgsAt(h, k, l) \in Seq(Msg)
  BY PileTypes
<1>5. \A l \in 1..R : \A j \in 1..Len(MsgsAt(h, k, l)) :
        MsgsAt(h, k, l)[j] \in M => Run(MsgsAt(h, k, l), v[l-1])[j-1] # Absent
  BY DEF Hits
<1> HIDE DEF v, w
<1> SUFFICES ASSUME NEW l \in 1..R, NEW j \in 1..Len(MsgsAt(g, k, l)),
                    MsgsAt(g, k, l)[j] \in M
             PROVE  Run(MsgsAt(g, k, l), w[l-1])[j-1] # Absent
  BY DEF Hits, w
<1> HIDE DEF R
<1>6. CASE l = L
  <2>1. MsgsAt(g, k, l) = <<>>
    BY <1>6 DEF Moved
  <2>2. Len(<<>>) = 0 /\ 1..0 = {}
    OBVIOUS
  <2> QED
    BY <2>1, <2>2
<1>7. CASE l # L /\ l # L - 1
  <2>1. MsgsAt(g, k, l) = MsgsAt(h, k, l)
    BY <1>7 DEF Moved, R
  <2>2. w[l-1] = v[l-1]
    <3>1. l - 1 \in 0..R /\ l - 1 # L - 1
      BY <1>1, <1>7
    <3> QED
      BY <1>2, <3>1
  <2> QED
    BY <1>5, <2>1, <2>2
<1>8. CASE l = L - 1
  <2> DEFINE a == MsgsAt(h, k, l)
             m == MsgsAt(h, k, L)
             x == v[l-1]
             n == Len(a)
             y == After(a, x)
             u == a \o m
  <2>1. L # 1 /\ l - 1 \in 0..R /\ l - 1 # L - 1 /\ l \in 1..R /\ L - 1 = l
    BY <1>1, <1>8
  <2>2. MsgsAt(g, k, l) = u /\ w[l-1] = x
    BY <1>2, <1>8, <2>1 DEF Moved
  <2>3. a \in Seq(Msg) /\ m \in Seq(Msg) /\ x \in Opt
    BY <1>1, <1>3, <1>4, <2>1
  <2>4. y = v[L - 1]
    BY <1>3, <2>1
  <2>5. /\ \A z \in 1..n : a[z] \in M => Run(a, x)[z-1] # Absent
        /\ \A z \in 1..Len(m) : m[z] \in M => Run(m, y)[z-1] # Absent
    BY <1>1, <1>5, <2>4
  <2>6. j \in 1..Len(u) /\ u[j] \in M
    BY <2>2
  <2> HIDE DEF a, m, x, y
  <2>7. n \in Nat /\ Len(m) \in Nat
    BY <2>3, LenProperties
  <2>8. /\ Len(u) = n + Len(m)
        /\ \A z \in 1..n + Len(m) : u[z] = IF z <= n THEN a[z] ELSE m[z - n]
    BY <2>3, ConcatProperties
  <2>9. /\ \A z \in 0..n : Run(u, x)[z] = Run(a, x)[z]
        /\ \A z \in 0..Len(m) : Run(u, x)[n + z] = Run(m, y)[z]
    BY <2>3, RunConcat DEF y
  <2> HIDE DEF n, u
  <2>10. CASE j <= n
    <3>1. j \in 1..n /\ j - 1 \in 0..n /\ u[j] = a[j]
      BY <2>6, <2>7, <2>8, <2>10
    <3> QED
      BY <2>2, <2>5, <2>6, <2>9, <3>1
  <2>11. CASE ~(j <= n)
    <3> DEFINE z == j - n
    <3>1. z \in 1..Len(m) /\ z - 1 \in 0..Len(m) /\ n + (z - 1) = j - 1 /\ u[j] = m[z]
      BY <2>6, <2>7, <2>8, <2>11
    <3> HIDE DEF z
    <3> QED
      BY <2>2, <2>5, <2>6, <2>9, <3>1, SMTT(20)
  <2> QED
    BY <2>6, <2>7, <2>10, <2>11
<1> QED
  BY <1>6, <1>7, <1>8

(* A message is buffered at the root: it has to find its key in the map.   *)
LEMMA HitsWritten ==
  ASSUME Shape, RootWritten, NEW k \in Key, NEW M, Hits(heap, root, k, M),
         \/ heap[root].leaf
         \/ heap'[root].buffer[k] = heap[root].buffer[k]
         \/ \E m \in Msg : /\ heap'[root].buffer[k] = Append(heap[root].buffer[k], m)
                           /\ m \in M => map[k] # Absent
  PROVE  Hits(heap', root', k, M)
<1> DEFINE R == root[1]
           v == Vals(heap, root, k)
           w == Vals(heap', root, k)
           s == heap[root].buffer[k]
           t == heap'[root].buffer[k]
<1>1. ShapeIn(heap, root) /\ ShapeIn(heap', root) /\ root' = root
  BY WritesShape DEF Shape, RootWritten
<1>2. DOMAIN heap' = DOMAIN heap /\ \A a \in DOMAIN heap \ {root} : heap'[a] = heap[a]
  BY DEF RootWritten, SameNodes
<1>3. R \in Nat /\ (heap[root].leaf <=> R = 0)
  BY <1>1, Owners DEF ShapeIn, LevelsIn
<1>4. map[k] = v[R]
  BY <1>1, MapIs, GetIsVal
<1>5. /\ v \in [0..R -> Opt]
      /\ \A l \in 1..R : v[l] = After(MsgsAt(heap, k, l), v[l-1])
  BY <1>1, ValsProperties
<1>6. /\ MsgsAt(heap', k, R) = t /\ MsgsAt(heap, k, R) = s
      /\ \A l \in 1..R-1 : MsgsAt(heap', k, l) = MsgsAt(heap, k, l)
      /\ R # 0 => \A l \in 0..R-1 : w[l] = v[l]
  BY <1>1, <1>2, RootPile
<1>7. \A l \in 1..R : \A j \in 1..Len(MsgsAt(heap, k, l)) :
        MsgsAt(heap, k, l)[j] \in M => Run(MsgsAt(heap, k, l), v[l-1])[j-1] # Absent
  BY DEF Hits
<1>8. /\ R # 0 => s \in Seq(Msg)
      /\ \/ R = 0
         \/ t = s
         \/ \E m \in Msg : t = Append(s, m) /\ (m \in M => map[k] # Absent)
  <2>1. R # 0 => R \in 1..R
    BY <1>3
  <2> QED
    BY <1>1, <1>3, <1>6, <2>1, PileTypes, ZenonT(30)
<1> HIDE DEF v, w, R, s, t
<1> SUFFICES ASSUME NEW l \in 1..R, NEW j \in 1..Len(MsgsAt(heap', k, l)),
                    MsgsAt(heap', k, l)[j] \in M
             PROVE  Run(MsgsAt(heap', k, l), w[l-1])[j-1] # Absent
  BY <1>1 DEF Hits, w, R
<1>9. R # 0 /\ l - 1 \in 0..R-1 /\ w[l-1] = v[l-1] /\ v[l-1] \in Opt
  <2>1. R # 0 /\ l - 1 \in 0..R-1 /\ l - 1 \in 0..R
    BY <1>3
  <2> QED
    BY <1>5, <1>6, <2>1
<1>10. CASE MsgsAt(heap', k, l) = MsgsAt(heap, k, l)
  BY <1>7, <1>9, <1>10
<1>11. CASE MsgsAt(heap', k, l) # MsgsAt(heap, k, l)
  <2>1. l = R
    BY <1>3, <1>6, <1>11
  <2>2. PICK m \in Msg : t = Append(s, m) /\ (m \in M => map[k] # Absent)
    BY <1>6, <1>8, <1>9, <1>11, <2>1
  <2> DEFINE x == v[l-1]
             n == Len(s)
  <2>3. s \in Seq(Msg) /\ x \in Opt /\ n \in Nat
    BY <1>8, <1>9, LenProperties
  <2>4. map[k] = After(s, x)
    BY <1>4, <1>5, <1>6, <2>1
  <2>5. \A z \in 1..n : s[z] \in M => Run(s, x)[z-1] # Absent
    BY <1>6, <1>7, <2>1
  <2>6. j \in 1..Len(t) /\ t[j] \in M
    BY <1>6, <2>1
  <2> HIDE DEF x
  <2>7. \A i \in 0..n : Run(t, x)[i] = Run(s, x)[i]
    BY <2>2, <2>3, AfterAppend
  <2>8. Len(t) = n + 1 /\ t[n + 1] = m /\ \A z \in 1..n : t[z] = s[z]
    BY <2>2, <2>3, AppendProperties
  <2>9. Run(s, x)[n] = map[k]
    BY <2>4 DEF After
  <2> HIDE DEF n
  <2>10. CASE j <= n
    <3>1. j \in 1..n /\ j - 1 \in 0..n
      BY <2>3, <2>6, <2>8, <2>10
    <3>2. Run(t, x)[j-1] # Absent
      BY <2>5, <2>6, <2>7, <2>8, <3>1
    <3> QED
      BY <1>6, <1>9, <2>1, <3>2 DEF x
  <2>11. CASE ~(j <= n)
    <3>1. j = n + 1 /\ j - 1 = n /\ n \in 0..n
      BY <2>3, <2>6, <2>8, <2>11
    <3>2. m \in M
      BY <2>6, <2>8, <3>1
    <3>3. Run(t, x)[j-1] # Absent
      BY <2>2, <2>7, <2>9, <3>1, <3>2
    <3> QED
      BY <1>6, <1>9, <2>1, <3>3 DEF x
  <2> QED
    BY <2>3, <2>6, <2>10, <2>11
<1> QED
  BY <1>10, <1>11

-----------------------------------------------------------------------------
(* What writes add to the counters. *)

(* The messages m for the keys K: what size and pendingDeletes are given   *)
(* in advance, and what the code has looked up before.                     *)
Announced(K, m, d, y) ==
  \/ /\ m \in DeleteMsgs /\ \A k \in K : map[k] # Absent
     /\ d = -Cardinality(K) /\ y = Cardinality(K)
  \/ m \in CountedPuts /\ (\E k : K = {k}) /\ d = 1 /\ y = 0
  \/ m \in UncountedPuts /\ (\E k : K = {k} /\ ~isNew(k)) /\ d = 0 /\ y = 0
  \/ m \in UpsertMsgs /\ (\E k : K = {k}) /\ d = 0 /\ y = 0

(* The write of a root that is a leaf counts its entries. *)
CountedWrite(kv, d, z) ==
  /\ LeafWrite(kv, d, z) /\ d \in Int
  /\ Cardinality(Present(kv)) = Cardinality(Present(heap[root].kv)) + d

(* One entry more, or none. *)
LEMMA OneEntry ==
  ASSUME NEW kv \in [Key -> Opt], NEW k \in Key, NEW v \in Value
  PROVE  /\ Cardinality(Present([kv EXCEPT ![k] = v]))
              = Cardinality(Present(kv)) + One(kv[k] = Absent)
         /\ kv[k] # Absent =>
              Cardinality(Present([kv EXCEPT ![k] = Absent])) = Cardinality(Present(kv)) + -1
<1> DEFINE P == Present(kv)
<1>1. IsFiniteSet(P) /\ Cardinality(P) \in Nat
  <2>1. P \subseteq Key /\ IsFiniteSet(Key)
    BY ConstantsAssumption DEF Present
  <2> QED
    BY <2>1, FS_Subset, FS_CardinalityType
<1>2. k \in P <=> kv[k] # Absent
  BY DEF Present
<1>3. Present([kv EXCEPT ![k] = v]) = P \cup {k}
  BY MessagesAssumption DEF Present
<1>4. Present([kv EXCEPT ![k] = Absent]) = P \ {k}
  BY DEF Present
<1>5. Cardinality(P \cup {k}) = IF k \in P THEN Cardinality(P) ELSE Cardinality(P) + 1
  BY <1>1, FS_AddElement
<1>6. Cardinality(P \ {k}) = IF k \in P THEN Cardinality(P) - 1 ELSE Cardinality(P)
  BY <1>1, FS_RemoveElement
<1> HIDE DEF P
<1>7. Cardinality(P \cup {k}) = Cardinality(P) + One(kv[k] = Absent)
  BY <1>1, <1>2, <1>5 DEF One
<1>8. kv[k] # Absent => Cardinality(P \ {k}) = Cardinality(P) + -1
  BY <1>1, <1>2, <1>6
<1> QED
  BY <1>3, <1>4, <1>7, <1>8 DEF P

(* Put and PutIfAbsent, Delete, Upsert and DeleteRange, in these terms. *)
LEMMA PutCounts ==
  ASSUME IInv, NEW k \in Key, NEW v \in Value, NEW b \in BOOLEAN, NEW z,
         putLocked(k, v, b, z)
  PROVE  \/ \E kv, d : CountedWrite(kv, d, z)
         \/ \E K, m, d, y : BufferWrite(K, m, d, y, z) /\ Announced(K, m, d, y)
<1> DEFINE kv == [heap[root].kv EXCEPT ![k] = v]
           c == One(heap[root].kv[k] = Absent)
           new == b \/ isNew(k)
           m == MsgPut(v, new)
           K == {k}
           d == One(new)
           y == 0
<1>1. LeafWrite(kv, c, z) \/ BufferWrite(K, m, d, y, z)
  BY PutForm
<1>2. CASE LeafWrite(kv, c, z)
  <2>1. heap[root].kv \in [Key -> Opt]
    BY NodeKinds DEF IInv, TypeOK
  <2>2. Cardinality(Present(kv)) = Cardinality(Present(heap[root].kv)) + c
    BY <2>1, OneEntry
  <2>i. c \in Int
    BY DEF One
  <2> HIDE DEF kv, c
  <2>3. CountedWrite(kv, c, z)
    BY <1>2, <2>2, <2>i DEF CountedWrite
  <2> QED
    BY <2>3
<1>3. CASE BufferWrite(K, m, d, y, z)
  <2>1. new \in BOOLEAN /\ (~new => ~isNew(k))
    OBVIOUS
  <2> HIDE DEF new
  <2>2. m \in Msg /\ m.kind = "put" /\ m.counted = new
    BY <2>1, MsgTypes DEF MsgPut
  <2>3. Announced(K, m, d, y)
    <3>1. CASE new
      <4>1. m \in CountedPuts /\ d = 1 /\ y = 0
        BY <2>2, <3>1 DEF CountedPuts, One
      <4> QED
        BY <4>1 DEF Announced
    <3>2. CASE ~new
      <4>1. m \in UncountedPuts /\ d = 0 /\ y = 0 /\ ~isNew(k)
        BY <2>1, <2>2, <3>2 DEF UncountedPuts, One
      <4> QED
        BY <4>1 DEF Announced
    <3> QED
      BY <2>1, <3>1, <3>2
  <2> HIDE DEF m, d, y, K
  <2> QED
    BY <1>3, <2>3
<1> QED
  BY <1>1, <1>2, <1>3

(***************************************************************************)
(* Delete changes nothing, or counts what it takes from a root leaf, or    *)
(* buffers a delete of a key that is there and announces it.               *)
(***************************************************************************)
LEMMA DeleteCounts ==
  ASSUME IInv, IInv', Shape, NEW k \in Key, Delete(k)
  PROVE  \/ NoWrite(0)
         \/ \E kv, d, z : CountedWrite(kv, d, z)
         \/ \E K, m, d, y, z : BufferWrite(K, m, d, y, z) /\ Announced(K, m, d, y)
<1> DEFINE kv == [heap[root].kv EXCEPT ![k] = Absent]
           d == -1
           one == 1
           K == {k}
           m == MsgDelete
<1>1. \/ NoWrite(0)
      \/ map[k] # Absent /\ LeafWrite(kv, d, one)
      \/ map[k] # Absent /\ BufferWrite(K, m, d, one, one)
  BY DeleteForm
<1>2. CASE map[k] # Absent /\ LeafWrite(kv, d, one)
  <2>1. heap[root].kv \in [Key -> Opt]
    BY NodeKinds DEF IInv, TypeOK
  <2>2. heap[root].kv[k] # Absent
    <3> HIDE DEF kv, d, one
    <3> QED
      BY <1>2, LeafWriteMap
  <2>3. Value = {} \/ \E v : v \in Value
    OBVIOUS
  <2>4. Cardinality(Present(kv)) = Cardinality(Present(heap[root].kv)) + d
    <3>1. PICK v : v \in Value
      BY <2>1, <2>2 DEF Opt
    <3> QED
      BY <2>1, <2>2, <3>1, OneEntry
  <2>i. d \in Int
    OBVIOUS
  <2> HIDE DEF kv, d, one
  <2>5. CountedWrite(kv, d, one)
    BY <1>2, <2>4, <2>i DEF CountedWrite
  <2> QED
    BY <2>5
<1>3. CASE map[k] # Absent /\ BufferWrite(K, m, d, one, one)
  <2>1. m \in DeleteMsgs
    BY MsgTypes DEF DeleteMsgs, MsgDelete
  <2>2. Cardinality(K) = 1
    BY FS_Singleton
  <2>3. d = -Cardinality(K) /\ one = Cardinality(K)
    BY <2>2
  <2>4. Announced(K, m, d, one)
    BY <1>3, <2>1, <2>3 DEF Announced
  <2> HIDE DEF m, d, one, K
  <2> QED
    BY <1>3, <2>4
<1> QED
  BY <1>1, <1>2, <1>3

(***************************************************************************)
(* Upsert counts what it adds to a root leaf, or buffers an upsert, which  *)
(* it does not count.                                                      *)
(***************************************************************************)
LEMMA UpsertCounts ==
  ASSUME IInv, NEW k \in Key, NEW f \in Fns, Upsert(k, f)
  PROVE  \/ \E kv, d, z : CountedWrite(kv, d, z)
         \/ \E K, m, d, y, z : BufferWrite(K, m, d, y, z) /\ Announced(K, m, d, y)
<1> DEFINE v == f[heap[root].kv[k]]
           kv == [heap[root].kv EXCEPT ![k] = v]
           c == One(heap[root].kv[k] = Absent)
           m == MsgUpsert(f)
           K == {k}
           x == 0
<1>1. LeafWrite(kv, c, x) \/ BufferWrite(K, m, x, x, x)
  BY UpsertForm
<1>2. CASE LeafWrite(kv, c, x)
  <2>1. heap[root].kv \in [Key -> Opt]
    BY NodeKinds DEF IInv, TypeOK
  <2>2. v \in Value
    BY <2>1, MessagesAssumption
  <2> HIDE DEF v
  <2>3. Cardinality(Present(kv)) = Cardinality(Present(heap[root].kv)) + c
    BY <2>1, <2>2, OneEntry
  <2>i. c \in Int
    BY DEF One
  <2> HIDE DEF kv, c, x
  <2>4. CountedWrite(kv, c, x)
    BY <1>2, <2>3, <2>i DEF CountedWrite
  <2> QED
    BY <2>4
<1>3. CASE BufferWrite(K, m, x, x, x)
  <2>1. m \in UpsertMsgs
    BY MsgTypes DEF UpsertMsgs, MsgUpsert
  <2>2. Announced(K, m, x, x)
    BY <2>1 DEF Announced
  <2> HIDE DEF m, x, K
  <2> QED
    BY <1>3, <2>2
<1> QED
  BY <1>1, <1>2, <1>3

(***************************************************************************)
(* DeleteRange changes nothing, or counts what it takes from a root leaf,  *)
(* or buffers deletes of keys that are there and announces them.           *)
(***************************************************************************)
LEMMA DeleteRangeCounts ==
  ASSUME IInv, IInv', Shape, NEW lo \in Nat, NEW hi \in Nat, DeleteRange(lo, hi)
  PROVE  \/ NoWrite(0)
         \/ \E kv, d, z : CountedWrite(kv, d, z)
         \/ \E K, m, d, y, z : BufferWrite(K, m, d, y, z) /\ Announced(K, m, d, y)
<1> DEFINE live == {k \in Key : map[k] # Absent /\ lo <= k /\ k < hi}
           c == Cardinality(live)
           d == -c
           kv == [k \in Key |-> IF k \in live THEN Absent ELSE heap[root].kv[k]]
           m == MsgDelete
<1>0. live = {k \in Key : map[k] # Absent /\ lo <= k /\ k < hi}
  OBVIOUS
<1>1. live \subseteq Key /\ \A k \in live : map[k] # Absent
  OBVIOUS
<1> HIDE DEF live
<1>2. \/ NoWrite(0)
      \/ LeafWrite(kv, d, c)
      \/ BufferWrite(live, m, d, c, c)
  BY <1>0, DeleteRangeForm
<1>3. CASE LeafWrite(kv, d, c)
  <2> DEFINE P == Present(heap[root].kv)
  <2>1. \A k \in Key : map[k] = heap[root].kv[k]
    <3> HIDE DEF kv, d, c
    <3> QED
      BY <1>3, LeafWriteMap
  <2>2. live \subseteq P /\ Present(kv) = P \ live
    BY <1>1, <2>1 DEF Present
  <2>3. IsFiniteSet(P)
    <3>1. P \subseteq Key /\ IsFiniteSet(Key)
      BY ConstantsAssumption DEF Present
    <3> QED
      BY <3>1, FS_Subset
  <2> HIDE DEF P
  <2>4. Cardinality(Present(kv)) = Cardinality(P) - c /\ Cardinality(P) \in Nat /\ c \in Nat
    BY <2>2, <2>3, RemainderSize
  <2>5. Cardinality(Present(kv)) = Cardinality(P) + d
    <3> HIDE DEF c
    <3> QED
      BY <2>4
  <2>i. d \in Int
    <3> HIDE DEF c
    <3> QED
      BY <2>4
  <2> HIDE DEF kv, d, c
  <2>6. CountedWrite(kv, d, c)
    BY <1>3, <2>5, <2>i DEF CountedWrite, P
  <2> QED
    BY <2>6
<1>4. CASE BufferWrite(live, m, d, c, c)
  <2>1. m \in DeleteMsgs
    BY MsgTypes DEF DeleteMsgs, MsgDelete
  <2>2. Announced(live, m, d, c)
    BY <1>1, <2>1 DEF Announced
  <2> HIDE DEF m, d, c
  <2> QED
    BY <1>4, <2>2
<1> QED
  BY <1>2, <1>3, <1>4

(* Every write starts in one of three ways. *)
Writes ==
  \/ \E k \in Key, v \in Puts : Put(k, v) \/ PutIfAbsent(k, v)
  \/ \E k \in Key : Delete(k)
  \/ \E r \in Ranges : DeleteRange(r[1], r[2])
  \/ \E k \in Key, f \in Fns : Upsert(k, f)

(***************************************************************************)
(* Every write is of one of these three forms.                             *)
(***************************************************************************)
LEMMA WriteForms ==
  ASSUME IInv, IInv', Shape, Writes
  PROVE  \/ \E z : NoWrite(z)
         \/ \E kv, d, z : CountedWrite(kv, d, z)
         \/ \E K, m, d, y, z : BufferWrite(K, m, d, y, z) /\ Announced(K, m, d, y)
<1> DEFINE Goal == \/ \E z : NoWrite(z)
                   \/ \E kv, d, z : CountedWrite(kv, d, z)
                   \/ \E K, m, d, y, z : BufferWrite(K, m, d, y, z) /\ Announced(K, m, d, y)
<1>1. ASSUME NEW k \in Key, NEW v \in Puts, Put(k, v) \/ PutIfAbsent(k, v) PROVE Goal
  <2>1. v \in Value
    BY ConstantsAssumption
  <2>2. \A b \in BOOLEAN : \A z : putLocked(k, v, b, z) => Goal
    BY <2>1, PutCounts
  <2> HIDE DEF Goal
  <2>3. putLocked(k, v, FALSE, 0) \/ putLocked(k, v, TRUE, 1) => Goal
    BY <2>2
  <2>4. NoWrite(0) => Goal
    BY DEF Goal
  <2> QED
    BY <1>1, <2>3, <2>4 DEF Put, PutIfAbsent
<1>2. ASSUME NEW k \in Key, Delete(k) PROVE Goal
  BY <1>2, DeleteCounts
<1>3. ASSUME NEW r \in Ranges, DeleteRange(r[1], r[2]) PROVE Goal
  <2>1. r[1] \in Nat /\ r[2] \in Nat
    BY ConstantsAssumption
  <2> QED
    BY <1>3, <2>1, DeleteRangeCounts
<1>4. ASSUME NEW k \in Key, NEW f \in Fns, Upsert(k, f) PROVE Goal
  BY <1>4, UpsertCounts
<1> HIDE DEF Goal
<1>5. Goal
  BY <1>1, <1>2, <1>3, <1>4 DEF Writes
<1> QED
  BY <1>5 DEF Goal

(* What the writes of the two kinds change. *)
LEMMA LeafWritten ==
  ASSUME IInv, IInv', NEW kv, NEW d, NEW z, LeafWrite(kv, d, z)
  PROVE  /\ RootWritten /\ heap[root].leaf /\ heap'[root].kv = kv
         /\ heap'[root].buffer = heap[root].buffer
         /\ size' = size + d /\ pendingDeletes' = pendingDeletes + 0
<1> DEFINE n == [heap[root] EXCEPT !.kv = kv]
           y == 0
<1>1. heap[root] \in LeafNode \cup InternalNode /\ root \in DOMAIN heap
  BY DEF IInv, TypeOK
<1>2. PICK w : Write(n, d, y, z, w)
  BY DEF LeafWrite
<1>3. /\ n.leaf = heap[root].leaf /\ n.pivots = heap[root].pivots
      /\ n.children = heap[root].children /\ n.kv = kv /\ n.buffer = heap[root].buffer
  BY <1>1, NodeParts
<1> HIDE DEF n
<1>4. heap'[root] = n /\ size' = size + d /\ pendingDeletes' = pendingDeletes + 0
  BY <1>1, <1>2 DEF Write
<1> HIDE DEF y
<1>5. RootWritten
  BY <1>2, <1>3, WriteRoot
<1> QED
  BY <1>3, <1>4, <1>5 DEF LeafWrite

(***************************************************************************)
(* What a write into the buffer of the root leaves behind.                 *)
(***************************************************************************)
LEMMA BufferWritten ==
  ASSUME IInv, IInv', NEW K, NEW m, NEW d, NEW y, NEW z, BufferWrite(K, m, d, y, z)
  PROVE  /\ RootWritten /\ ~heap[root].leaf /\ K \subseteq Key /\ m \in Msg
         /\ heap'[root].kv = heap[root].kv
         /\ heap'[root].buffer = Appended(heap[root].buffer, K, m)
         /\ size' = size + d /\ pendingDeletes' = pendingDeletes + y
<1> DEFINE buf == Appended(heap[root].buffer, K, m)
           n == [heap[root] EXCEPT !.buffer = buf]
<1>1. heap[root] \in LeafNode \cup InternalNode /\ root \in DOMAIN heap
  BY DEF IInv, TypeOK
<1>2. PICK w : Write(n, d, y, z, w)
  BY DEF BufferWrite
<1>3. /\ n.leaf = heap[root].leaf /\ n.pivots = heap[root].pivots
      /\ n.children = heap[root].children /\ n.kv = heap[root].kv /\ n.buffer = buf
  BY <1>1, NodeParts
<1> HIDE DEF n, buf
<1>4. heap'[root] = n /\ size' = size + d /\ pendingDeletes' = pendingDeletes + y
  BY <1>1, <1>2 DEF Write
<1>5. RootWritten
  BY <1>2, <1>3, WriteRoot
<1> QED
  BY <1>3, <1>4, <1>5 DEF BufferWrite, buf

(***************************************************************************)
(* What a write that finds nothing to do leaves behind.                    *)
(***************************************************************************)
LEMMA NotWritten ==
  ASSUME IInv, IInv', NEW z, NoWrite(z)
  PROVE  /\ RootWritten /\ heap'[root] = heap[root]
         /\ size' = size + 0 /\ pendingDeletes' = pendingDeletes + 0
<1> DEFINE n == heap[root]
           x == 0
           w == <<>>
<1>1. Write(n, x, x, z, w)
  BY DEF NoWrite
<1>2. heap'[root] = n /\ size' = size + 0 /\ pendingDeletes' = pendingDeletes + 0
  BY <1>1 DEF Write, IInv, TypeOK
<1>3. /\ n.leaf = heap[root].leaf /\ n.pivots = heap[root].pivots
      /\ n.children = heap[root].children
  OBVIOUS
<1> HIDE DEF x, w, n
<1>4. RootWritten
  BY <1>1, <1>3, WriteRoot
<1> QED
  BY <1>2, <1>4 DEF n

-----------------------------------------------------------------------------
(* Deletes hit. *)

(* What messages of M find, over a step: a write must have looked.         *)
LEMMA StepHits ==
  ASSUME IInv, IInv', Shape, ShapeIn(heap', root'), [Next]_vars, NEW M, NEW k \in Key,
         Hits(heap, root, k, M),
         \A K, m, d, y : Announced(K, m, d, y) /\ m \in M /\ k \in K => map[k] # Absent
  PROVE  Hits(heap', root', k, M)
<1>0. ShapeIn(heap, root)
  BY DEF Shape
<1>1. CASE Writes
  <2>1. ASSUME NEW z, NoWrite(z) PROVE Hits(heap', root', k, M)
    <3>1. RootWritten /\ heap'[root] = heap[root]
      BY <2>1, NotWritten
    <3> QED
      BY <3>1, HitsWritten
  <2>2. ASSUME NEW kv, NEW d, NEW z, CountedWrite(kv, d, z) PROVE Hits(heap', root', k, M)
    <3>1. RootWritten /\ heap[root].leaf
      BY <2>2, LeafWritten DEF CountedWrite
    <3> QED
      BY <3>1, HitsWritten
  <2>3. ASSUME NEW K, NEW m, NEW d, NEW y, NEW z, BufferWrite(K, m, d, y, z), Announced(K, m, d, y)
        PROVE  Hits(heap', root', k, M)
    <3>1. /\ RootWritten /\ m \in Msg
          /\ heap'[root].buffer = Appended(heap[root].buffer, K, m)
      BY <2>3, BufferWritten
    <3>2. CASE k \in K
      <4>1. heap'[root].buffer[k] = Append(heap[root].buffer[k], m)
        BY <3>1, <3>2 DEF Appended
      <4>2. m \in M => map[k] # Absent
        BY <2>3, <3>2
      <4> QED
        BY <3>1, <4>1, <4>2, HitsWritten
    <3>3. CASE k \notin K
      <4>1. heap'[root].buffer[k] = heap[root].buffer[k]
        BY <3>1, <3>3 DEF Appended
      <4> QED
        BY <3>1, <4>1, HitsWritten
    <3> QED
      BY <3>2, <3>3
  <2> QED
    BY <1>1, <2>1, <2>2, <2>3, WriteForms
<1>2. CASE Clear
  <2>1. root' = <<0, 0>>
    BY <1>2 DEF Clear
  <2>2. root'[1] = 0 /\ 1..0 = {}
    BY <2>1
  <2> QED
    BY <2>2 DEF Hits
<1>3. CASE FlushToLeaf \/ FlushToBuffer
  <2>1. root' = root
    BY <1>3 DEF FlushToLeaf, FlushToBuffer
  <2>2. \/ SamePile(heap', root', heap, root, k)
        \/ \E L : Moved(heap', heap, root, k, L)
    BY <1>3, FlushMoves
  <2>3. CASE SamePile(heap', root', heap, root, k)
    BY <1>0, <2>3, HitsSame
  <2>4. ASSUME NEW L, Moved(heap', heap, root, k, L) PROVE Hits(heap', root', k, M)
    BY <1>0, <2>1, <2>4, HitsMoved
  <2> QED
    BY <2>2, <2>3, <2>4
<1>4. CASE SplitChild \/ SplitRoot
  <2>1. SamePile(heap', root', heap, root, k)
    BY <1>4, SplitKeepsPiles
  <2> QED
    BY <1>0, <2>1, HitsSame
<1>5. CASE Unlock \/ UNCHANGED vars
  <2>1. heap' = heap /\ root' = root
    BY <1>5 DEF Unlock, tree, vars
  <2> QED
    BY <2>1
<1> QED
  BY <1>1, <1>2, <1>3, <1>4, <1>5 DEF Next, Continue, Writes

(* Deletes of all keys. *)
HitsInv == \A k \in Key : Hits(heap, root, k, DeleteMsgs)

(* A message lies with the node that owns its key on its level. *)
LEMMA SlotOwner ==
  ASSUME NEW h, NEW r, ShapeIn(h, r), NEW a \in DOMAIN h, NEW k \in Key,
         NEW j \in 1..Len(h[a].buffer[k])
  PROVE  /\ a[1] \in 1..r[1] /\ Owner(h, k, a[1]) = a
         /\ MsgsAt(h, k, a[1]) = h[a].buffer[k]
<1>1. h[a] \in LeafNode \cup InternalNode /\ a \in Addr /\ a[1] <= r[1]
      /\ (h[a].leaf <=> a[1] = 0)
  BY DEF ShapeIn, HeapOK, LevelsIn
<1>2. Len(<<>>) = 0 /\ 1..0 = {}
  OBVIOUS
<1>3. h[a].buffer[k] # <<>>
  BY <1>2
<1>4. ~h[a].leaf
  <2>1. h[a].leaf => h[a] \in LeafNode
    BY <1>1, NodeKinds
  <2>2. h[a] \in LeafNode => h[a].buffer = NoMsgs
    BY DEF LeafNode
  <2> QED
    BY <1>3, <2>1, <2>2 DEF NoMsgs
<1>5. k \in TerritoryIn(h, a)
  BY <1>3 DEF ShapeIn, RoutedIn
<1>6. r[1] \in Nat /\ \A l \in 0..r[1] : \A b \in DOMAIN h :
        b[1] = l /\ k \in TerritoryIn(h, b) => b = Owner(h, k, l)
  BY Owners
<1>7. a[1] \in 1..r[1] /\ a[1] \in 0..r[1]
  BY <1>1, <1>4, <1>6 DEF Addr
<1> QED
  BY <1>5, <1>6, <1>7 DEF MsgsAt

(* It holds at first, and every step keeps it. *)
LEMMA InitHits ==
  Init => HitsInv
<1> SUFFICES ASSUME Init PROVE HitsInv
  OBVIOUS
<1>1. root[1] = 0 /\ 1..0 = {}
  BY DEF Init
<1> QED
  BY <1>1 DEF HitsInv, Hits

(***************************************************************************)
(* Every step keeps it that buffered deletes find their keys.              *)
(***************************************************************************)
LEMMA NextHits ==
  ASSUME IInv, IInv', Shape, ShapeIn(heap', root'), HitsInv, [Next]_vars
  PROVE  \A k \in Key : Hits(heap', root', k, DeleteMsgs)
<1>1. \A K, m, d, y : Announced(K, m, d, y) /\ m \in DeleteMsgs => \A k \in K : map[k] # Absent
  BY DEF Announced, DeleteMsgs, CountedPuts, UncountedPuts, UpsertMsgs
<1> SUFFICES ASSUME NEW k \in Key PROVE Hits(heap', root', k, DeleteMsgs)
  OBVIOUS
<1> DEFINE M == DeleteMsgs
<1>2. Hits(heap, root, k, M)
  BY DEF HitsInv
<1>3. \A K, m, d, y : Announced(K, m, d, y) /\ m \in M /\ k \in K => map[k] # Absent
  BY <1>1
<1> HIDE DEF M
<1>4. Hits(heap', root', k, M)
  BY <1>2, <1>3, StepHits
<1> QED
  BY <1>4 DEF M

(***************************************************************************)
(* A buffered delete finds its key when it gets to the leaf, whatever is   *)
(* written, flushed and split before (tree.go:244-249, 324-338): what      *)
(* applyToLeafSmall relies on when it ignores leafDelete's answer          *)
(* (flush.go:151-153).                                                     *)
(***************************************************************************)
THEOREM DeletesAlwaysHit == Spec => []DeletesHit
<1> DEFINE J == IInv /\ Shape /\ HitsInv
<1>1. Init => J
  BY InitIInv, InitHits, SingleLeafShape DEF Init, Shape
<1>2. J /\ [Next]_vars => J'
  <2> SUFFICES ASSUME IInv, Shape, HitsInv, [Next]_vars PROVE (IInv /\ Shape /\ HitsInv)'
    OBVIOUS
  <2>1. (IInv /\ Shape)'
    BY NextIInv, NextShape DEF Shape
  <2>2. IInv' /\ ShapeIn(heap', root')
    BY <2>1 DEF Shape
  <2>3. \A k \in Key : Hits(heap', root', k, DeleteMsgs)
    BY <2>2, NextHits
  <2> QED
    BY <2>1, <2>3 DEF HitsInv
<1>3. J => DeletesHit
  <2> SUFFICES ASSUME IInv, Shape, HitsInv, NEW a \in DOMAIN heap,
                      NEW s \in Deletes(heap[a].buffer)
               PROVE  Run(heap[a].buffer[s[1]],
                          resolveKeyEntries(DOMAIN heap, s[1], a[1] - 1))[s[2] - 1] # Absent
    BY DEF DeletesHit
  <2> DEFINE k == s[1]
             j == s[2]
             top == a[1] - 1
             buf == heap[a].buffer
             D == DOMAIN heap
  <2>1. buf \in [Key -> Seq(Msg)]
    BY NodeKinds DEF IInv, TypeOK
  <2>2. s \in Slots(buf) /\ buf[k][j].kind = "del"
    BY DEF Deletes, At
  <2> HIDE DEF buf
  <2>3. k \in Key /\ j \in 1..Len(buf[k])
    BY <2>1, <2>2, SlotIs
  <2> HIDE DEF k, j
  <2>4. ShapeIn(heap, root)
    BY DEF Shape
  <2>5. a[1] \in 1..root[1] /\ MsgsAt(heap, k, a[1]) = buf[k]
    BY <2>3, <2>4, SlotOwner DEF buf
  <2>6. buf[k][j] \in DeleteMsgs
    <3>1. buf[k] \in Seq(Msg)
      BY <2>1, <2>3
    <3>2. buf[k][j] \in Msg
      BY <2>3, <3>1, ElementOfSeq
    <3> QED
      BY <2>2, <3>2 DEF DeleteMsgs
  <2>7. Run(buf[k], Vals(heap, root, k)[top])[j-1] # Absent
    BY <2>3, <2>5, <2>6 DEF HitsInv, Hits
  <2>8. root[1] \in Nat /\ \A l \in 0..root[1] : Owner(heap, k, l) \in DOMAIN heap
    BY <2>3, <2>4, Owners
  <2>9. top \in 0..root[1]
    BY <2>5, <2>8
  <2>10. D \subseteq DOMAIN heap /\ \A l \in 0..root[1] : Owner(heap, k, l) \in D
    BY <2>8
  <2> HIDE DEF top, D
  <2>11. ResolveIn(heap, D, k, top) = Vals(heap, root, k)[top]
    BY ONLY <2>3, <2>4, <2>9, <2>10, ResolveIsVal
  <2>12. resolveKeyEntries(D, k, top) = Vals(heap, root, k)[top]
    BY <2>11, ResolveOfHeap
  <2> QED
    BY <2>7, <2>12 DEF D, top, k, j, buf
<1> QED
  <2> HIDE DEF J
  <2> QED
    BY <1>1, <1>2, <1>3, PTL DEF Spec

-----------------------------------------------------------------------------
(* All messages, by level and key. *)

Sel(buf, M) == {s \in Slots(buf) : At(buf, s) \in M}
LevelBuf(h, l) == [k \in Key |-> MsgsAt(h, k, l)]

(* The messages of M in the tree with heap h and root r. *)
Pile(h, r, M) == UNION {{l} \X Sel(LevelBuf(h, l), M) : l \in 1..r[1]}

(* The kinds of messages. *)
LEMMA Kinds ==
  ASSUME NEW buf \in [Key -> Seq(Msg)]
  PROVE  /\ Deletes(buf) = Sel(buf, DeleteMsgs)
         /\ Counted(buf) = Sel(buf, CountedPuts)
         /\ Upserts(buf) = Sel(buf, UpsertMsgs)
<1>1. \A s \in Slots(buf) : At(buf, s) \in Msg
  <2> SUFFICES ASSUME NEW s \in Slots(buf) PROVE At(buf, s) \in Msg
    OBVIOUS
  <2>1. s[1] \in Key /\ s[2] \in 1..Len(buf[s[1]])
    BY SlotIs
  <2>2. buf[s[1]] \in Seq(Msg)
    BY <2>1
  <2> QED
    BY <2>1, <2>2, ElementOfSeq DEF At
<1>2. Deletes(buf) = Sel(buf, DeleteMsgs)
  BY <1>1 DEF Deletes, Sel, DeleteMsgs
<1>3. Counted(buf) = Sel(buf, CountedPuts)
  BY <1>1 DEF Counted, Sel, CountedPuts
<1>4. Upserts(buf) = Sel(buf, UpsertMsgs)
  BY <1>1 DEF Upserts, Sel, UpsertMsgs
<1> QED
  BY <1>2, <1>3, <1>4

(***************************************************************************)
(* The chosen messages of a buffer are finitely many pairs of a key and a  *)
(* position.                                                               *)
(***************************************************************************)
LEMMA SelIs ==
  ASSUME NEW buf \in [Key -> Seq(Msg)], NEW M
  PROVE  /\ \A s \in Sel(buf, M) : s = <<s[1], s[2]>>
         /\ \A k, j : <<k, j>> \in Sel(buf, M) <=>
                        k \in Key /\ j \in 1..Len(buf[k]) /\ buf[k][j] \in M
         /\ IsFiniteSet(Sel(buf, M))
<1>1. \A k, j : At(buf, <<k, j>>) = buf[k][j]
  BY DEF At
<1>2. Sel(buf, M) \subseteq Slots(buf)
  BY DEF Sel
<1>3. IsFiniteSet(Sel(buf, M))
  BY <1>2, MessageSets
<1> QED
  BY <1>1, <1>2, <1>3, SlotIs DEF Sel

(* A finite family of finite sets. *)
LEMMA FamilyFinite ==
  ASSUME NEW I, IsFiniteSet(I), NEW F, \A i \in I : IsFiniteSet(F[i])
  PROVE  IsFiniteSet(UNION {{i} \X F[i] : i \in I})
<1> DEFINE part(i) == {i} \X F[i]
           U == {part(i) : i \in I}
           f == [i \in I |-> part(i)]
<1>1. \A i \in I : IsFiniteSet(part(i))
  BY FS_Singleton, FS_Product
<1>2. f \in Surjection(I, U)
  BY DEF Surjection
<1>3. \A t \in U : IsFiniteSet(t)
  BY <1>1
<1> HIDE DEF f, U
<1>4. IsFiniteSet(U)
  BY <1>2, FS_Surjection
<1>5. IsFiniteSet(UNION U)
  BY <1>3, <1>4, FS_UNION
<1> QED
  BY <1>5 DEF U

(***************************************************************************)
(* The chosen messages of all buffers are finitely many triples of a       *)
(* level, a key and a position.                                            *)
(***************************************************************************)
LEMMA PileIs ==
  ASSUME NEW h, NEW r, ShapeIn(h, r), NEW M
  PROVE  /\ r[1] \in Nat
         /\ \A p \in Pile(h, r, M) : p = <<p[1], <<p[2][1], p[2][2]>>>>
         /\ \A l, k, j : <<l, <<k, j>>>> \in Pile(h, r, M) <=>
              /\ l \in 1..r[1] /\ k \in Key /\ j \in 1..Len(MsgsAt(h, k, l))
              /\ MsgsAt(h, k, l)[j] \in M
         /\ IsFiniteSet(Pile(h, r, M))
<1> DEFINE F == [l \in 1..r[1] |-> Sel(LevelBuf(h, l), M)]
           I == 1..r[1]
<1>0. r[1] \in Nat
  BY DEF ShapeIn, LevelsIn, HeapOK, Addr
<1>1. \A l \in I : LevelBuf(h, l) \in [Key -> Seq(Msg)]
  BY PileTypes DEF LevelBuf
<1>2. \A l \in I : \A k \in Key : LevelBuf(h, l)[k] = MsgsAt(h, k, l)
  BY DEF LevelBuf
<1>3. \A l \in I : F[l] = Sel(LevelBuf(h, l), M)
  OBVIOUS
<1>4. Pile(h, r, M) = UNION {{l} \X F[l] : l \in I}
  BY DEF Pile
<1>5. IsFiniteSet(I)
  BY <1>0, FS_Interval
<1> HIDE DEF F, I
<1>6. \A l \in I : IsFiniteSet(F[l])
  BY <1>1, <1>3, SelIs
<1>7. IsFiniteSet(Pile(h, r, M))
  BY <1>4, <1>5, <1>6, FamilyFinite
<1>8. \A p : p \in Pile(h, r, M) <=> \E l \in I : p \in {l} \X F[l]
  BY <1>4
<1>9. \A p, l : p \in {l} \X F[l] <=> p = <<p[1], p[2]>> /\ p[1] = l /\ p[2] \in F[l]
  OBVIOUS
<1>10. \A p : p \in Pile(h, r, M) <=> p = <<p[1], p[2]>> /\ p[1] \in I /\ p[2] \in F[p[1]]
  BY <1>8, <1>9
<1>11. \A p \in Pile(h, r, M) : p = <<p[1], <<p[2][1], p[2][2]>>>>
  <2> SUFFICES ASSUME NEW p \in Pile(h, r, M) PROVE p = <<p[1], <<p[2][1], p[2][2]>>>>
    OBVIOUS
  <2>1. p = <<p[1], p[2]>> /\ p[1] \in I /\ p[2] \in Sel(LevelBuf(h, p[1]), M)
    BY <1>3, <1>10
  <2>2. p[2] = <<p[2][1], p[2][2]>>
    BY <1>1, <2>1, SelIs
  <2> QED
    BY <2>1, <2>2
<1>12. ASSUME NEW l, NEW k, NEW j
       PROVE  <<l, <<k, j>>>> \in Pile(h, r, M) <=>
                /\ l \in I /\ k \in Key /\ j \in 1..Len(MsgsAt(h, k, l))
                /\ MsgsAt(h, k, l)[j] \in M
  <2> DEFINE s == <<k, j>>
             p == <<l, s>>
  <2>1. p[1] = l /\ p[2] = s /\ p = <<p[1], p[2]>>
    OBVIOUS
  <2> HIDE DEF s, p
  <2>2. p \in Pile(h, r, M) <=> l \in I /\ s \in F[l]
    BY <1>10, <2>1
  <2>3. l \in I => (s \in F[l] <=> k \in Key /\ j \in 1..Len(LevelBuf(h, l)[k]) /\ LevelBuf(h, l)[k][j] \in M)
    BY <1>1, <1>3, SelIs DEF s
  <2> QED
    BY <1>2, <2>2, <2>3 DEF s, p
<1> QED
  BY <1>0, <1>7, <1>11, <1>12 DEF I

(* Two piles with the same messages. *)
LEMMA SamePiles ==
  ASSUME NEW h, NEW r, ShapeIn(h, r), NEW g, NEW s, ShapeIn(g, s),
         \A k \in Key : SamePile(g, s, h, r, k), NEW M
  PROVE  Pile(g, s, M) = Pile(h, r, M)
<1> DEFINE A == Pile(h, r, M)
           B == Pile(g, s, M)
<1>1. /\ r[1] \in Nat
      /\ \A p \in A : p = <<p[1], <<p[2][1], p[2][2]>>>>
      /\ \A l, k, j : <<l, <<k, j>>>> \in A <=>
           /\ l \in 1..r[1] /\ k \in Key /\ j \in 1..Len(MsgsAt(h, k, l))
           /\ MsgsAt(h, k, l)[j] \in M
  BY PileIs
<1>2. /\ s[1] \in Nat
      /\ \A p \in B : p = <<p[1], <<p[2][1], p[2][2]>>>>
      /\ \A l, k, j : <<l, <<k, j>>>> \in B <=>
           /\ l \in 1..s[1] /\ k \in Key /\ j \in 1..Len(MsgsAt(g, k, l))
           /\ MsgsAt(g, k, l)[j] \in M
  BY PileIs
<1> HIDE DEF A, B
<1>3. ASSUME NEW l, NEW k, NEW j PROVE <<l, <<k, j>>>> \in A <=> <<l, <<k, j>>>> \in B
  <2>1. CASE l \in 1..r[1] /\ k \in Key
    <3>1. l \in 1..s[1] /\ MsgsAt(g, k, l) = MsgsAt(h, k, l)
      BY <1>1, <1>2, <2>1 DEF SamePile
    <3> QED
      BY <1>1, <1>2, <2>1, <3>1
  <2>2. CASE ~(l \in 1..r[1]) /\ k \in Key
    <3>1. l \in 1..s[1] => l \in r[1]+1..s[1]
      BY <1>1, <1>2, <2>2
    <3>2. l \in 1..s[1] => MsgsAt(g, k, l) = <<>>
      BY <2>2, <3>1 DEF SamePile
    <3>3. Len(<<>>) = 0 /\ 1..0 = {}
      OBVIOUS
    <3> QED
      BY <1>1, <1>2, <2>2, <3>2, <3>3
  <2>3. CASE k \notin Key
    BY <1>1, <1>2, <2>3
  <2> QED
    BY <2>1, <2>2, <2>3
<1>4. \A p : p \in A <=> p \in B
  BY <1>1, <1>2, <1>3
<1>5. A = B
  BY <1>4
<1> QED
  BY <1>5 DEF A, B

(* The messages in the nodes are as many as those of the levels. *)
LEMMA PileSize ==
  ASSUME NEW h, NEW r, ShapeIn(h, r), NEW M
  PROVE  /\ IsFiniteSet(UNION {{a} \X Sel(h[a].buffer, M) : a \in DOMAIN h})
         /\ Cardinality(UNION {{a} \X Sel(h[a].buffer, M) : a \in DOMAIN h})
              = Cardinality(Pile(h, r, M))
<1> DEFINE P == Pile(h, r, M)
           T == UNION {{a} \X Sel(h[a].buffer, M) : a \in DOMAIN h}
           own(p) == Owner(h, p[2][1], p[1])
           f == [p \in P |-> <<own(p), p[2]>>]
<1>1. /\ r[1] \in Nat /\ IsFiniteSet(P)
      /\ \A p \in P : p = <<p[1], <<p[2][1], p[2][2]>>>>
      /\ \A l, k, j : <<l, <<k, j>>>> \in P <=>
           /\ l \in 1..r[1] /\ k \in Key /\ j \in 1..Len(MsgsAt(h, k, l))
           /\ MsgsAt(h, k, l)[j] \in M
  BY PileIs
<1>2. \A a \in DOMAIN h : h[a].buffer \in [Key -> Seq(Msg)]
  BY NodeKinds DEF ShapeIn, HeapOK
<1>3. \A t : t \in T <=> t = <<t[1], t[2]>> /\ t[1] \in DOMAIN h /\ t[2] \in Sel(h[t[1]].buffer, M)
  OBVIOUS
<1>4. \A a \in DOMAIN h :
        /\ \A s \in Sel(h[a].buffer, M) : s = <<s[1], s[2]>>
        /\ \A k, j : <<k, j>> \in Sel(h[a].buffer, M) <=>
             k \in Key /\ j \in 1..Len(h[a].buffer[k]) /\ h[a].buffer[k][j] \in M
  BY <1>2, SelIs
<1>5. \A k \in Key : \A l \in 1..r[1] :
        /\ Owner(h, k, l) \in DOMAIN h /\ Owner(h, k, l)[1] = l
        /\ MsgsAt(h, k, l) = h[Owner(h, k, l)].buffer[k]
  <2>1. \A l \in 1..r[1] : l \in 0..r[1]
    BY <1>1
  <2>2. \A k \in Key : \A l \in 0..r[1] : Owner(h, k, l) \in DOMAIN h /\ Owner(h, k, l)[1] = l
    BY Owners
  <2> QED
    BY <2>1, <2>2 DEF MsgsAt
<1> HIDE DEF P, T
<1>6. ASSUME NEW p \in P PROVE <<own(p), p[2]>> \in T /\ own(p)[1] = p[1]
  <2> DEFINE l == p[1]
             k == p[2][1]
             j == p[2][2]
             a == Owner(h, k, l)
             t == <<a, <<k, j>>>>
  <2>1. p = <<l, <<k, j>>>> /\ <<k, j>> = p[2]
    BY <1>1
  <2>2. /\ l \in 1..r[1] /\ k \in Key /\ j \in 1..Len(MsgsAt(h, k, l))
        /\ MsgsAt(h, k, l)[j] \in M
    <3> HIDE DEF l, k, j
    <3> QED
      BY <1>1, <2>1
  <2>3. a \in DOMAIN h /\ a[1] = l /\ MsgsAt(h, k, l) = h[a].buffer[k]
    <3> HIDE DEF l, k
    <3> QED
      BY <1>5, <2>2
  <2>4. own(p) = a
    OBVIOUS
  <2> HIDE DEF a, k, j, l
  <2>5. <<k, j>> \in Sel(h[a].buffer, M)
    BY <1>4, <2>2, <2>3
  <2>6. t[1] = a /\ t[2] = <<k, j>> /\ t = <<t[1], t[2]>>
    OBVIOUS
  <2> HIDE DEF t, own
  <2>7. t \in T
    BY <1>3, <2>3, <2>5, <2>6
  <2>8. <<own(p), p[2]>> = t
    BY <2>1, <2>4 DEF t
  <2> QED
    BY <2>3, <2>4, <2>7, <2>8 DEF l
<1>7. f \in [P -> T] /\ \A p \in P : f[p] = <<own(p), p[2]>>
  BY <1>6
<1> HIDE DEF f
<1>8. ASSUME NEW x \in P, NEW y \in P, f[x] = f[y] PROVE x = y
  <2>1. own(x) = own(y) /\ x[2] = y[2]
    <3> HIDE DEF own
    <3> QED
      BY <1>7, <1>8
  <2>2. x[1] = y[1]
    <3>1. own(x)[1] = x[1]
      BY <1>6
    <3>2. own(y)[1] = y[1]
      BY <1>6
    <3> HIDE DEF own
    <3> QED
      BY <2>1, <3>1, <3>2
  <2> QED
    BY <1>1, <2>1, <2>2
<1>9. ASSUME NEW t \in T PROVE \E x \in P : f[x] = t
  <2> DEFINE a == t[1]
             k == t[2][1]
             j == t[2][2]
             l == a[1]
             p == <<l, <<k, j>>>>
  <2>1. t = <<a, t[2]>> /\ a \in DOMAIN h /\ t[2] \in Sel(h[a].buffer, M)
    BY <1>3
  <2>2. t[2] = <<k, j>>
    BY <1>4, <2>1
  <2>3. k \in Key /\ j \in 1..Len(h[a].buffer[k]) /\ h[a].buffer[k][j] \in M
    <3> HIDE DEF k, j
    <3> QED
      BY <1>4, <2>1, <2>2
  <2> HIDE DEF a, k, j
  <2>4. l \in 1..r[1] /\ Owner(h, k, l) = a /\ MsgsAt(h, k, l) = h[a].buffer[k]
    BY <2>1, <2>3, SlotOwner
  <2> HIDE DEF l
  <2>5. p \in P
    BY <1>1, <2>3, <2>4
  <2>6. p[1] = l /\ p[2] = <<k, j>> /\ p[2][1] = k
    OBVIOUS
  <2>7. own(p) = a
    BY <2>4, <2>6
  <2> HIDE DEF p, own
  <2>8. f[p] = t
    BY <1>7, <2>1, <2>2, <2>5, <2>6, <2>7
  <2> QED
    BY <2>5, <2>8
<1>10. IsFiniteSet(T) /\ Cardinality(T) = Cardinality(P)
  BY ONLY <1>1, <1>7, <1>8, <1>9, SameSize
<1> QED
  BY <1>10 DEF P, T

(* A set of pairs with the same first part. *)
LEMMA PairedSize ==
  ASSUME NEW c, NEW S, IsFiniteSet(S)
  PROVE  IsFiniteSet({c} \X S) /\ Cardinality({c} \X S) = Cardinality(S)
<1> DEFINE T == {c} \X S
           f == [s \in S |-> <<c, s>>]
<1>1. f \in [S -> T] /\ \A s \in S : f[s] = <<c, s>>
  OBVIOUS
<1>2. \A t \in T : \E s \in S : t = <<c, s>>
  OBVIOUS
<1> HIDE DEF f, T
<1>3. \A x, y \in S : f[x] = f[y] => x = y
  BY <1>1
<1>4. \A t \in T : \E s \in S : f[s] = t
  BY <1>1, <1>2
<1>5. IsFiniteSet(T) /\ Cardinality(T) = Cardinality(S)
  BY <1>1, <1>3, <1>4, SameSize
<1> QED
  BY <1>5 DEF T

(* P is the pile of the messages of M on the R levels of H. *)
IsPile(P, H, R, M) ==
  /\ \A p \in P : p = <<p[1], <<p[2][1], p[2][2]>>>>
  /\ \A l, k, j : <<l, <<k, j>>>> \in P <=>
       l \in 1..R /\ k \in Key /\ j \in 1..Len(H[l][k]) /\ H[l][k][j] \in M

(* On the levels of G, the messages of key k have moved from level lev[k]  *)
(* to the level below, or stay where they were on H.                       *)
Sunk(G, H, R, lev) ==
  \A k \in Key :
    /\ \A l \in 1..R : l # lev[k] /\ l # lev[k] - 1 => G[l][k] = H[l][k]
    /\ lev[k] # 0 => /\ lev[k] \in 2..R /\ G[lev[k]][k] = <<>>
                     /\ G[lev[k]-1][k] = H[lev[k]-1][k] \o H[lev[k]][k]

(* The place of a message after the move. *)
LEMMA SinksTo ==
  ASSUME NEW R \in Nat, NEW H \in [1..R -> [Key -> Seq(Msg)]],
         NEW G \in [1..R -> [Key -> Seq(Msg)]], NEW lev \in [Key -> Nat],
         Sunk(G, H, R, lev), NEW k \in Key
  PROVE  /\ lev[k] # 0 => /\ lev[k] \in 1..R /\ lev[k]-1 \in 1..R
                          /\ Len(G[lev[k]][k]) = 0
                          /\ Len(H[lev[k]-1][k]) \in Nat /\ Len(H[lev[k]][k]) \in Nat
                          /\ Len(G[lev[k]-1][k]) = Len(H[lev[k]-1][k]) + Len(H[lev[k]][k])
                          /\ \A j \in 1..Len(H[lev[k]-1][k]) : G[lev[k]-1][k][j] = H[lev[k]-1][k][j]
                          /\ \A j \in 1..Len(H[lev[k]][k]) :
                               G[lev[k]-1][k][Len(H[lev[k]-1][k]) + j] = H[lev[k]][k][j]
         /\ \A l \in 1..R : l # lev[k] /\ l # lev[k] - 1 => G[l][k] = H[l][k]
<1> DEFINE L == lev[k]
           s == H[L-1][k]
           t == H[L][k]
           u == G[L-1][k]
<1>1. L \in Nat /\ (L # 0 => L \in 2..R /\ G[L][k] = <<>> /\ u = s \o t)
  BY DEF Sunk
<1>2. \A l \in 1..R : l # L /\ l # L - 1 => G[l][k] = H[l][k]
  BY DEF Sunk
<1>3. CASE L # 0
  <2>1. L \in 1..R /\ L - 1 \in 1..R
    <3> HIDE DEF L
    <3> QED
      BY <1>1, <1>3
  <2>2. s \in Seq(Msg) /\ t \in Seq(Msg)
    <3> HIDE DEF L
    <3> QED
      BY <2>1
  <2>3. Len(<<>>) = 0 /\ Len(s) \in Nat /\ Len(t) \in Nat
    <3> HIDE DEF s, t
    <3> QED
      BY <2>2, LenProperties
  <2> HIDE DEF L
  <2>4. Len(G[L][k]) = 0
    BY <1>1, <1>3, <2>3
  <2>5. u = s \o t
    BY <1>1, <1>3
  <2> HIDE DEF s, t, u
  <2>6. /\ Len(u) = Len(s) + Len(t) /\ \A j \in 1..Len(s) : u[j] = s[j]
        /\ \A j \in 1..Len(t) : u[Len(s) + j] = t[j]
    <3>1. \A j \in 1..Len(s) + Len(t) : u[j] = IF j <= Len(s) THEN s[j] ELSE t[j - Len(s)]
      BY <2>2, <2>5, ConcatProperties
    <3>2. Len(u) = Len(s) + Len(t)
      BY <2>2, <2>5, ConcatProperties
    <3> DEFINE n == Len(s)
               q == Len(t)
    <3>3. \A j \in 1..n : j \in 1..n + q /\ j <= n
      BY <2>3
    <3>4. \A j \in 1..q : n + j \in 1..n + q /\ ~(n + j <= n) /\ (n + j) - n = j
      BY <2>3
    <3> HIDE DEF n, q
    <3>5. \A j \in 1..n + q : u[j] = IF j <= n THEN s[j] ELSE t[j - n]
      BY <3>1 DEF n, q
    <3> QED
      BY <3>2, <3>3, <3>4, <3>5 DEF n, q
  <2> QED
    BY <1>2, <2>1, <2>3, <2>4, <2>6 DEF L, s, t, u
<1> QED
  BY <1>2, <1>3 DEF L

(* P and Q are the piles before and after the move. *)
SunkPiles(P, Q, H, G, R, lev, M) ==
  /\ R \in Nat /\ H \in [1..R -> [Key -> Seq(Msg)]] /\ G \in [1..R -> [Key -> Seq(Msg)]]
  /\ lev \in [Key -> Nat] /\ Sunk(G, H, R, lev)
  /\ IsFiniteSet(P) /\ IsPile(P, H, R, M) /\ IsPile(Q, G, R, M)

(* Messages that move are still as many. *)
LEMMA SunkSize ==
  ASSUME NEW P, NEW Q, NEW H, NEW G, NEW R, NEW lev, NEW M,
         SunkPiles(P, Q, H, G, R, lev, M)
  PROVE  Cardinality(Q) = Cardinality(P)
<1>0. /\ R \in Nat /\ H \in [1..R -> [Key -> Seq(Msg)]] /\ G \in [1..R -> [Key -> Seq(Msg)]]
      /\ lev \in [Key -> Nat] /\ Sunk(G, H, R, lev)
      /\ IsFiniteSet(P) /\ IsPile(P, H, R, M) /\ IsPile(Q, G, R, M)
  BY DEF SunkPiles
<1> USE <1>0
<1> DEFINE n(k) == Len(H[lev[k]-1][k])
           to(l, k, j) == IF l = lev[k] THEN <<l - 1, <<k, n(k) + j>>>> ELSE <<l, <<k, j>>>>
           f == [p \in P |-> to(p[1], p[2][1], p[2][2])]
<1>1. \A p \in P : p = <<p[1], <<p[2][1], p[2][2]>>>>
  BY DEF IsPile
<1>2. \A l, k, j : <<l, <<k, j>>>> \in P <=>
         l \in 1..R /\ k \in Key /\ j \in 1..Len(H[l][k]) /\ H[l][k][j] \in M
  BY DEF IsPile
<1>3. \A q \in Q : q = <<q[1], <<q[2][1], q[2][2]>>>>
  BY DEF IsPile
<1>4. \A l, k, j : <<l, <<k, j>>>> \in Q <=>
         l \in 1..R /\ k \in Key /\ j \in 1..Len(G[l][k]) /\ G[l][k][j] \in M
  BY DEF IsPile
<1>5. \A k \in Key : lev[k] # 0 =>
        /\ lev[k] \in 1..R /\ lev[k]-1 \in 1..R /\ Len(G[lev[k]][k]) = 0
        /\ n(k) \in Nat /\ Len(H[lev[k]][k]) \in Nat
        /\ Len(G[lev[k]-1][k]) = n(k) + Len(H[lev[k]][k])
        /\ \A j \in 1..n(k) : G[lev[k]-1][k][j] = H[lev[k]-1][k][j]
        /\ \A j \in 1..Len(H[lev[k]][k]) : G[lev[k]-1][k][n(k) + j] = H[lev[k]][k][j]
  <2> SUFFICES ASSUME NEW k \in Key, lev[k] # 0
               PROVE  /\ lev[k] \in 1..R /\ lev[k]-1 \in 1..R /\ Len(G[lev[k]][k]) = 0
                      /\ n(k) \in Nat /\ Len(H[lev[k]][k]) \in Nat
                      /\ Len(G[lev[k]-1][k]) = n(k) + Len(H[lev[k]][k])
                      /\ \A j \in 1..n(k) : G[lev[k]-1][k][j] = H[lev[k]-1][k][j]
                      /\ \A j \in 1..Len(H[lev[k]][k]) :
                           G[lev[k]-1][k][n(k) + j] = H[lev[k]][k][j]
    OBVIOUS
  <2>1. /\ lev[k] \in 1..R /\ lev[k]-1 \in 1..R
        /\ Len(G[lev[k]][k]) = 0
        /\ Len(H[lev[k]-1][k]) \in Nat /\ Len(H[lev[k]][k]) \in Nat
        /\ Len(G[lev[k]-1][k]) = Len(H[lev[k]-1][k]) + Len(H[lev[k]][k])
        /\ \A j \in 1..Len(H[lev[k]-1][k]) : G[lev[k]-1][k][j] = H[lev[k]-1][k][j]
        /\ \A j \in 1..Len(H[lev[k]][k]) :
             G[lev[k]-1][k][Len(H[lev[k]-1][k]) + j] = H[lev[k]][k][j]
    BY SinksTo, Zenon
  <2> QED
    BY <2>1, Zenon
<1>6. \A k \in Key : \A l \in 1..R : l # lev[k] /\ l # lev[k] - 1 => G[l][k] = H[l][k]
  BY DEF Sunk
<1>7. ASSUME NEW l \in 1..R, NEW k \in Key, NEW j \in 1..Len(H[l][k]), H[l][k][j] \in M
      PROVE  to(l, k, j) \in Q
  <2> DEFINE L == lev[k]
             c == n(k)
  <2>1. L \in Nat
    OBVIOUS
  <2>2. CASE l = L
    <3>1. /\ L-1 \in 1..R /\ c \in Nat /\ Len(H[L][k]) \in Nat
          /\ Len(G[L-1][k]) = c + Len(H[L][k]) /\ G[L-1][k][c + j] = H[L][k][j]
      <4>1. L # 0
        BY <2>2
      <4> QED
        BY <1>5, <2>2, <4>1
    <3>2. c + j \in 1..Len(G[L-1][k]) /\ G[L-1][k][c + j] \in M
      <4> DEFINE x == Len(H[L][k])
      <4>1. j \in 1..x /\ x \in Nat
        BY <2>2, <3>1
      <4> HIDE DEF x, c
      <4>2. c + j \in 1..c + x
        BY <3>1, <4>1
      <4> HIDE DEF L
      <4> QED
        BY <1>7, <2>2, <3>1, <4>2 DEF x
    <3>3. <<L - 1, <<k, c + j>>>> \in Q
      <4> HIDE DEF c, L
      <4> QED
        BY <1>4, <3>1, <3>2
    <3> QED
      BY <2>2, <3>3
  <2>3. CASE l # L
    <3>1. CASE L # 0 /\ l = L - 1
      <4>1. c \in Nat /\ Len(H[L][k]) \in Nat /\ j \in 1..c
            /\ Len(G[l][k]) = c + Len(H[L][k]) /\ G[l][k][j] = H[l][k][j]
        BY <1>5, <3>1
      <4>2. j \in 1..Len(G[l][k]) /\ G[l][k][j] \in M
        <5> DEFINE x == Len(H[L][k])
        <5> HIDE DEF x, c
        <5>1. j \in 1..c + x
          BY <4>1 DEF x
        <5> QED
          BY <1>7, <4>1, <5>1 DEF x
      <4>3. <<l, <<k, j>>>> \in Q
        <5> HIDE DEF c, L
        <5> QED
          BY <1>4, <4>2
      <4> QED
        BY <2>3, <4>3
    <3>2. CASE ~(L # 0 /\ l = L - 1)
      <4>1. G[l][k] = H[l][k]
        <5>1. l # L - 1
          BY <2>1, <3>2
        <5> QED
          BY <1>6, <2>3, <5>1
      <4>2. <<l, <<k, j>>>> \in Q
        <5> HIDE DEF c, L
        <5> QED
          BY <1>4, <1>7, <4>1
      <4> QED
        BY <2>3, <4>2
    <3> QED
      BY <3>1, <3>2
  <2> QED
    BY <2>2, <2>3
<1>8. \A p \in P : /\ p[1] \in 1..R /\ p[2][1] \in Key /\ p[2][2] \in 1..Len(H[p[1]][p[2][1]])
                   /\ H[p[1]][p[2][1]][p[2][2]] \in M
  BY <1>1, <1>2
<1> HIDE DEF to
<1>9. f \in [P -> Q] /\ \A p \in P : f[p] = to(p[1], p[2][1], p[2][2])
  BY <1>7, <1>8
<1> HIDE DEF f
<1>10. ASSUME NEW l \in 1..R, NEW k \in Key, NEW j \in 1..Len(H[l][k]),
              NEW l2 \in 1..R, NEW k2 \in Key, NEW j2 \in 1..Len(H[l2][k2]),
              to(l, k, j) = to(l2, k2, j2)
       PROVE  l = l2 /\ k = k2 /\ j = j2
  <2> DEFINE L == lev[k]
             c == n(k)
  <2>1. k = k2
    BY <1>10 DEF to
  <2>2. L \in Nat /\ (L # 0 => c \in Nat)
    BY <1>5
  <2>3. CASE l = L /\ l2 = L
    <3>1. c + j = c + j2 /\ L # 0
      BY <1>10, <2>1, <2>3 DEF to
    <3> HIDE DEF c, L
    <3> QED
      BY <2>1, <2>2, <2>3, <3>1
  <2>4. CASE l # L /\ l2 # L
    BY <1>10, <2>1, <2>4 DEF to
  <2>5. CASE l = L /\ l2 # L
    <3>1. l - 1 = l2 /\ c + j = j2
      BY <1>10, <2>1, <2>5 DEF to
    <3>2. j2 \in 1..c /\ c \in Nat /\ j >= 1
      BY <2>1, <2>2, <2>5, <3>1, SMTT(20)
    <3> HIDE DEF c
    <3> QED
      BY <3>1, <3>2
  <2>6. CASE l # L /\ l2 = L
    <3>1. l2 - 1 = l /\ c + j2 = j
      BY <1>10, <2>1, <2>6 DEF to
    <3>2. j \in 1..c /\ c \in Nat /\ j2 >= 1
      BY <2>1, <2>2, <2>6, <3>1, SMTT(20)
    <3> HIDE DEF c
    <3> QED
      BY <3>1, <3>2
  <2> QED
    BY <2>3, <2>4, <2>5, <2>6
<1>11. ASSUME NEW x \in P, NEW y \in P, f[x] = f[y] PROVE x = y
  <2> DEFINE l == x[1]
             k == x[2][1]
             j == x[2][2]
             l2 == y[1]
             k2 == y[2][1]
             j2 == y[2][2]
  <2>a. l \in 1..R /\ k \in Key /\ j \in 1..Len(H[l][k])
    BY <1>8
  <2>b. l2 \in 1..R /\ k2 \in Key /\ j2 \in 1..Len(H[l2][k2])
    BY <1>8
  <2>c. to(l, k, j) = to(l2, k2, j2)
    BY <1>9, <1>11
  <2> HIDE DEF l, k, j, l2, k2, j2
  <2>d. l = l2 /\ k = k2 /\ j = j2
    BY ONLY <1>10, <2>a, <2>b, <2>c
  <2>1. x[1] = y[1] /\ x[2][1] = y[2][1] /\ x[2][2] = y[2][2]
    BY <2>d DEF l, k, j, l2, k2, j2
  <2>2. x = <<x[1], <<x[2][1], x[2][2]>>>> /\ y = <<y[1], <<y[2][1], y[2][2]>>>>
    BY <1>1
  <2> QED
    BY <2>1, <2>2
<1>12. ASSUME NEW l, NEW k, NEW j, <<l, <<k, j>>>> \in P
       PROVE  \E p \in P : f[p] = to(l, k, j)
  <2> DEFINE p == <<l, <<k, j>>>>
  <2>1. p[1] = l /\ p[2][1] = k /\ p[2][2] = j /\ p \in P
    BY <1>12
  <2> HIDE DEF p
  <2> QED
    BY <1>9, <2>1
<1>13. ASSUME NEW l \in 1..R, NEW k \in Key, NEW j \in 1..Len(G[l][k]), G[l][k][j] \in M
       PROVE  \E p \in P : f[p] = <<l, <<k, j>>>>
  <2> DEFINE L == lev[k]
             c == n(k)
             d == Len(H[L][k])
             i == j - c
  <2>1. L \in Nat /\ 1..0 = {}
    OBVIOUS
  <2>2. CASE L = 0 \/ l # L - 1
    <3>1. l # L
      <4>1. SUFFICES ASSUME l = L PROVE FALSE
        OBVIOUS
      <4>2. L # 0
        BY <4>1
      <4>3. Len(G[L][k]) = 0
        BY <1>5, <4>2
      <4> QED
        BY <2>1, <4>1, <4>3
    <3>2. G[l][k] = H[l][k]
      <4>1. l # L - 1
        BY <2>1, <2>2
      <4> QED
        BY <1>6, <3>1, <4>1
    <3>3. <<l, <<k, j>>>> \in P
      BY <1>2, <1>13, <3>2
    <3>4. to(l, k, j) = <<l, <<k, j>>>>
      BY <3>1 DEF to
    <3> QED
      BY <1>12, <3>3, <3>4
  <2>3. CASE L # 0 /\ l = L - 1
    <3>1. /\ L \in 1..R /\ c \in Nat /\ d \in Nat /\ Len(G[l][k]) = c + d
          /\ \A z \in 1..c : G[l][k][z] = H[l][k][z]
          /\ \A z \in 1..d : G[l][k][c + z] = H[L][k][z]
      BY <1>5, <2>3
    <3>2. CASE j <= c
      <4>1. j \in 1..c /\ Len(H[l][k]) = c
        BY <2>3, <3>1, <3>2
      <4>2. <<l, <<k, j>>>> \in P
        BY <1>2, <1>13, <3>1, <4>1
      <4>3. to(l, k, j) = <<l, <<k, j>>>>
        BY <2>1, <2>3 DEF to
      <4> QED
        BY <1>12, <4>2, <4>3
    <3>3. CASE ~(j <= c)
      <4>1. i \in 1..d /\ c + i = j
        <5> HIDE DEF c, d
        <5> QED
          BY <3>1, <3>3
      <4>2. H[L][k][i] \in M
        <5> HIDE DEF i
        <5>1. G[l][k][c + i] = H[L][k][i]
          BY <3>1, <4>1
        <5> HIDE DEF L, c
        <5> QED
          BY <1>13, <4>1, <5>1
      <4> HIDE DEF i
      <4>3. <<L, <<k, i>>>> \in P
        <5> HIDE DEF L
        <5> QED
          BY <1>2, <3>1, <4>1, <4>2 DEF d
      <4>4. to(L, k, i) = <<l, <<k, j>>>>
        BY <2>3, <4>1 DEF to
      <4> QED
        BY <1>12, <4>3, <4>4
    <3> QED
      BY <3>1, <3>2, <3>3
  <2> QED
    BY <2>2, <2>3
<1>14. ASSUME NEW q \in Q PROVE \E p \in P : f[p] = q
  <2> DEFINE l == q[1]
             k == q[2][1]
             j == q[2][2]
  <2>1. q = <<l, <<k, j>>>>
    BY <1>3
  <2> HIDE DEF l, k, j
  <2>2. l \in 1..R /\ k \in Key /\ j \in 1..Len(G[l][k]) /\ G[l][k][j] \in M
    BY <1>4, <2>1
  <2> QED
    BY <1>13, <2>1, <2>2
<1>15. IsFiniteSet(P)
  OBVIOUS
<1> QED
  BY ONLY <1>9, <1>11, <1>14, <1>15, SameSize

(* The levels of a heap. *)
LevelsOf(h, r) == [l \in 1..r[1] |-> LevelBuf(h, l)]

(***************************************************************************)
(* The pile of a tree is the pile of the sequences on its levels.          *)
(***************************************************************************)
LEMMA PileOfLevels ==
  ASSUME NEW h, NEW r, ShapeIn(h, r), NEW M
  PROVE  /\ LevelsOf(h, r) \in [1..r[1] -> [Key -> Seq(Msg)]]
         /\ \A l \in 1..r[1], k \in Key : LevelsOf(h, r)[l][k] = MsgsAt(h, k, l)
         /\ IsPile(Pile(h, r, M), LevelsOf(h, r), r[1], M)
<1> DEFINE H == LevelsOf(h, r)
           P == Pile(h, r, M)
           R == r[1]
<1>1. \A l \in 1..R, k \in Key : H[l][k] = MsgsAt(h, k, l)
  BY DEF LevelsOf, LevelBuf
<1>2. \A l \in 1..R : LevelBuf(h, l) \in [Key -> Seq(Msg)]
  BY PileTypes DEF LevelBuf
<1>3. H \in [1..R -> [Key -> Seq(Msg)]]
  BY <1>2 DEF LevelsOf
<1>4. /\ \A p \in P : p = <<p[1], <<p[2][1], p[2][2]>>>>
      /\ \A l, k, j : <<l, <<k, j>>>> \in P <=>
           /\ l \in 1..R /\ k \in Key /\ j \in 1..Len(MsgsAt(h, k, l))
           /\ MsgsAt(h, k, l)[j] \in M
  BY PileIs
<1> HIDE DEF H, P, R
<1>5. IsPile(P, H, R, M)
  BY <1>1, <1>4 DEF IsPile
<1> QED
  BY <1>1, <1>3, <1>5 DEF H, P, R

(* A flush to a buffer leaves as many messages of every kind. *)
LEMMA FlushedToBuffer ==
  ASSUME IInv, Shape, ShapeIn(heap', root'), FlushToBuffer, NEW M
  PROVE  Cardinality(Pile(heap', root', M)) = Cardinality(Pile(heap, root, M))
<1> DEFINE R == root[1]
           H == LevelsOf(heap, root)
           G == LevelsOf(heap', root)
           P == Pile(heap, root, M)
           Q == Pile(heap', root, M)
           is(k, L) == Moved(heap', heap, root, k, L) /\ L # 1
           lev == [k \in Key |-> IF \E L : is(k, L) THEN CHOOSE L : is(k, L) ELSE 0]
<1>1. ShapeIn(heap, root) /\ ShapeIn(heap', root) /\ root' = root
  BY DEF Shape, FlushToBuffer
<1>2. R \in Nat /\ IsFiniteSet(P)
  BY <1>1, PileIs
<1>3. /\ H \in [1..R -> [Key -> Seq(Msg)]] /\ IsPile(P, H, R, M)
      /\ \A l \in 1..R, k \in Key : H[l][k] = MsgsAt(heap, k, l)
  BY <1>1, PileOfLevels
<1>4. /\ G \in [1..R -> [Key -> Seq(Msg)]] /\ IsPile(Q, G, R, M)
      /\ \A l \in 1..R, k \in Key : G[l][k] = MsgsAt(heap', k, l)
  BY <1>1, PileOfLevels
<1>5. \A k \in Key : SamePile(heap', root, heap, root, k) \/ \E L : is(k, L)
  BY <1>1, FlushMoves
<1>6. \A k \in Key : /\ (\E L : is(k, L)) => is(k, lev[k])
                     /\ ~(\E L : is(k, L)) => lev[k] = 0
  <2> HIDE DEF is
  <2> QED
    OBVIOUS
<1>7. \A k, L : is(k, L) => L \in 2..R
  BY <1>2 DEF Moved
<1>8. lev \in [Key -> Nat]
  <2> HIDE DEF is
  <2>1. \A k \in Key : lev[k] \in Nat
    BY <1>2, <1>6, <1>7
  <2> QED
    BY <2>1
<1> HIDE DEF lev, H, G, P, Q
<1>9. Sunk(G, H, R, lev)
  <2> SUFFICES ASSUME NEW k \in Key
               PROVE  /\ \A l \in 1..R : l # lev[k] /\ l # lev[k] - 1 => G[l][k] = H[l][k]
                      /\ lev[k] # 0 => /\ lev[k] \in 2..R /\ G[lev[k]][k] = <<>>
                                       /\ G[lev[k]-1][k] = H[lev[k]-1][k] \o H[lev[k]][k]
    BY DEF Sunk
  <2>1. CASE \E L : is(k, L)
    <3> DEFINE L == lev[k]
    <3>1. is(k, L) /\ L \in 2..R
      BY <1>6, <1>7, <2>1
    <3>2. L \in 1..R /\ L - 1 \in 1..R
      BY <1>2, <3>1
    <3>3. /\ MsgsAt(heap', k, L) = <<>>
          /\ \A l \in 1..R : l # L /\ l # L - 1 => MsgsAt(heap', k, l) = MsgsAt(heap, k, l)
          /\ MsgsAt(heap', k, L - 1) = MsgsAt(heap, k, L - 1) \o MsgsAt(heap, k, L)
      BY <3>1 DEF Moved
    <3> HIDE DEF L, is, R
    <3> QED
      BY <1>3, <1>4, <3>1, <3>2, <3>3 DEF L
  <2>2. CASE ~\E L : is(k, L)
    <3>1. lev[k] = 0 /\ SamePile(heap', root, heap, root, k)
      BY <1>5, <1>6, <2>2
    <3>2. \A l \in 1..R : MsgsAt(heap', k, l) = MsgsAt(heap, k, l)
      BY <3>1 DEF SamePile
    <3> HIDE DEF R, is
    <3> QED
      BY <1>3, <1>4, <3>1, <3>2
  <2> QED
    BY <2>1, <2>2
<1> HIDE DEF R, is
<1>10. SunkPiles(P, Q, H, G, R, lev, M)
  BY <1>2, <1>3, <1>4, <1>8, <1>9 DEF SunkPiles
<1>11. Cardinality(Q) = Cardinality(P)
  BY ONLY <1>10, SunkSize
<1> QED
  BY <1>1, <1>11 DEF P, Q

(* A flush to a leaf takes its batch from the pile. *)
LEMMA FlushedToLeaf ==
  ASSUME IInv, Shape, ShapeIn(heap', root'), FlushToLeaf,
         FlushBatch \in [Key -> Seq(Msg)], NEW M
  PROVE  /\ Cardinality(Pile(heap, root, M)) \in Nat
         /\ Cardinality(Sel(FlushBatch, M)) \in Nat
         /\ Cardinality(Pile(heap', root', M))
              = Cardinality(Pile(heap, root, M)) - Cardinality(Sel(FlushBatch, M))
<1> DEFINE B == FlushBatch
           S == Sel(B, M)
           X == {1} \X S
           R == root[1]
           P == Pile(heap, root, M)
           Q == Pile(heap', root, M)
<1>1. ShapeIn(heap, root) /\ ShapeIn(heap', root) /\ root' = root
  BY DEF Shape, FlushToLeaf
<1>2. /\ R \in Nat /\ IsFiniteSet(P)
      /\ \A p \in P : p = <<p[1], <<p[2][1], p[2][2]>>>>
      /\ \A l, k, j : <<l, <<k, j>>>> \in P <=>
           /\ l \in 1..R /\ k \in Key /\ j \in 1..Len(MsgsAt(heap, k, l))
           /\ MsgsAt(heap, k, l)[j] \in M
  BY <1>1, PileIs
<1>3. /\ \A p \in Q : p = <<p[1], <<p[2][1], p[2][2]>>>>
      /\ \A l, k, j : <<l, <<k, j>>>> \in Q <=>
           /\ l \in 1..R /\ k \in Key /\ j \in 1..Len(MsgsAt(heap', k, l))
           /\ MsgsAt(heap', k, l)[j] \in M
  BY <1>1, PileIs
<1>4. /\ \A s \in S : s = <<s[1], s[2]>>
      /\ \A k, j : <<k, j>> \in S <=> k \in Key /\ j \in 1..Len(B[k]) /\ B[k][j] \in M
      /\ IsFiniteSet(S)
  BY SelIs
<1>5. ASSUME NEW k \in Key
      PROVE  \/ /\ B[k] = <<>>
                /\ \A l \in 1..R : MsgsAt(heap', k, l) = MsgsAt(heap, k, l)
             \/ /\ 1 \in 1..R /\ MsgsAt(heap, k, 1) = B[k] /\ MsgsAt(heap', k, 1) = <<>>
                /\ \A l \in 1..R : l # 1 => MsgsAt(heap', k, l) = MsgsAt(heap, k, l)
  <2>1. \/ SamePile(heap', root', heap, root, k) /\ FlushBatch[k] = <<>>
        \/ \E L : Moved(heap', heap, root, k, L) /\ MsgsAt(heap, k, L) = FlushBatch[k] /\ L = 1
    BY FlushMoves
  <2>2. CASE SamePile(heap', root', heap, root, k) /\ FlushBatch[k] = <<>>
    BY <2>2 DEF SamePile
  <2>3. CASE Moved(heap', heap, root, k, 1) /\ MsgsAt(heap, k, 1) = FlushBatch[k]
    <3>1. \A l \in 1..R : l # 1 => l # 1 - 1
      BY <1>2
    <3> QED
      BY <2>3, <3>1 DEF Moved
  <2> QED
    BY <2>1, <2>2, <2>3
<1> HIDE DEF P, Q, S, R
<1>6. \A x : x \in X <=> x = <<x[1], x[2]>> /\ x[1] = 1 /\ x[2] \in S
  OBVIOUS
<1>7. \A l, k, j : <<l, <<k, j>>>> \in X <=> l = 1 /\ <<k, j>> \in S
  OBVIOUS
<1>8. \A x \in X : x = <<x[1], <<x[2][1], x[2][2]>>>>
  BY <1>4, <1>6
<1> HIDE DEF X, B
<1>9. Len(<<>>) = 0 /\ 1..0 = {}
  OBVIOUS
<1>10. ASSUME NEW l, NEW k, NEW j
       PROVE  /\ <<l, <<k, j>>>> \in Q <=> <<l, <<k, j>>>> \in P /\ <<l, <<k, j>>>> \notin X
              /\ <<l, <<k, j>>>> \in X => <<l, <<k, j>>>> \in P
  <2>1. CASE l \in 1..R /\ k \in Key
    <3>1. CASE /\ B[k] = <<>>
               /\ \A i \in 1..R : MsgsAt(heap', k, i) = MsgsAt(heap, k, i)
      <4>1. <<l, <<k, j>>>> \notin X
        BY <1>4, <1>7, <1>9, <3>1
      <4>2. MsgsAt(heap', k, l) = MsgsAt(heap, k, l)
        BY <2>1, <3>1
      <4> QED
        BY <1>2, <1>3, <4>1, <4>2
    <3>2. CASE /\ 1 \in 1..R /\ MsgsAt(heap, k, 1) = B[k] /\ MsgsAt(heap', k, 1) = <<>>
               /\ \A i \in 1..R : i # 1 => MsgsAt(heap', k, i) = MsgsAt(heap, k, i)
      <4>1. CASE l = 1
        <5>1. <<l, <<k, j>>>> \notin Q
          BY <1>3, <1>9, <3>2, <4>1
        <5>2. <<l, <<k, j>>>> \in X <=> k \in Key /\ j \in 1..Len(B[k]) /\ B[k][j] \in M
          BY <1>4, <1>7, <4>1
        <5>3. <<l, <<k, j>>>> \in P <=> k \in Key /\ j \in 1..Len(B[k]) /\ B[k][j] \in M
          BY <1>2, <2>1, <3>2, <4>1
        <5> QED
          BY <5>1, <5>2, <5>3
      <4>2. CASE l # 1
        <5>1. <<l, <<k, j>>>> \notin X
          BY <1>7, <4>2
        <5>2. MsgsAt(heap', k, l) = MsgsAt(heap, k, l)
          BY <2>1, <3>2, <4>2
        <5> QED
          BY <1>2, <1>3, <5>1, <5>2
      <4> QED
        BY <4>1, <4>2
    <3> QED
      BY <1>5, <2>1, <3>1, <3>2
  <2>2. CASE ~(l \in 1..R /\ k \in Key)
    <3>1. <<l, <<k, j>>>> \notin P /\ <<l, <<k, j>>>> \notin Q
      BY <1>2, <1>3, <2>2
    <3>2. <<l, <<k, j>>>> \notin X
      <4>1. SUFFICES ASSUME <<l, <<k, j>>>> \in X PROVE FALSE
        OBVIOUS
      <4>2. l = 1 /\ k \in Key /\ j \in 1..Len(B[k])
        BY <1>4, <1>7, <4>1
      <4>3. B[k] # <<>>
        BY <1>9, <4>2
      <4>4. 1 \in 1..R
        BY <1>5, <4>2, <4>3
      <4> QED
        BY <2>2, <4>2, <4>4
    <3> QED
      BY <3>1, <3>2
  <2> QED
    BY <2>1, <2>2
<1>11. Q = P \ X /\ X \subseteq P
  <2>1. \A x \in X : x \in P
    BY <1>8, <1>10
  <2>2. \A x \in Q : x \in P /\ x \notin X
    BY <1>3, <1>10
  <2>3. \A x \in P : x \notin X => x \in Q
    BY <1>2, <1>10
  <2> QED
    BY <2>1, <2>2, <2>3
<1>12. Cardinality(X) = Cardinality(S)
  BY <1>4, PairedSize DEF X
<1>13. /\ Cardinality(P \ X) = Cardinality(P) - Cardinality(X)
       /\ Cardinality(P) \in Nat /\ Cardinality(X) \in Nat
  BY <1>2, <1>11, RemainderSize
<1> QED
  BY <1>1, <1>11, <1>12, <1>13 DEF P, Q, S, B

(* A buffered write adds its messages to the pile. *)
LEMMA PileWritten ==
  ASSUME Shape, RootWritten, ~heap[root].leaf, NEW K, K \subseteq Key, NEW m \in Msg,
         heap'[root].buffer = Appended(heap[root].buffer, K, m), NEW M
  PROVE  /\ Cardinality(Pile(heap, root, M)) \in Nat /\ Cardinality(K) \in Nat
         /\ m \in M => Cardinality(Pile(heap', root', M))
                         = Cardinality(Pile(heap, root, M)) + Cardinality(K)
         /\ m \notin M => Cardinality(Pile(heap', root', M)) = Cardinality(Pile(heap, root, M))
<1> DEFINE R == root[1]
           buf == heap[root].buffer
           n == [k \in Key |-> Len(buf[k])]
           at(k) == <<R, <<k, n[k] + 1>>>>
           C == {k \in K : m \in M}
           X == {at(k) : k \in C}
           P == Pile(heap, root, M)
           Q == Pile(heap', root, M)
<1>1. ShapeIn(heap, root) /\ ShapeIn(heap', root) /\ root' = root
  BY WritesShape DEF Shape, RootWritten
<1>2. DOMAIN heap' = DOMAIN heap /\ \A a \in DOMAIN heap \ {root} : heap'[a] = heap[a]
  BY DEF RootWritten, SameNodes
<1>3. /\ R \in Nat /\ IsFiniteSet(P)
      /\ \A p \in P : p = <<p[1], <<p[2][1], p[2][2]>>>>
      /\ \A l, k, j : <<l, <<k, j>>>> \in P <=>
           /\ l \in 1..R /\ k \in Key /\ j \in 1..Len(MsgsAt(heap, k, l))
           /\ MsgsAt(heap, k, l)[j] \in M
  BY <1>1, PileIs
<1>4. /\ \A p \in Q : p = <<p[1], <<p[2][1], p[2][2]>>>>
      /\ \A l, k, j : <<l, <<k, j>>>> \in Q <=>
           /\ l \in 1..R /\ k \in Key /\ j \in 1..Len(MsgsAt(heap', k, l))
           /\ MsgsAt(heap', k, l)[j] \in M
  BY <1>1, PileIs
<1>5. R \in 1..R /\ root \in DOMAIN heap
  <2>1. root \in DOMAIN heap /\ (heap[root].leaf <=> root[1] = 0)
    BY <1>1 DEF ShapeIn, LevelsIn
  <2> QED
    BY <1>3, <2>1
<1>6. \A k \in Key : /\ MsgsAt(heap, k, R) = buf[k] /\ MsgsAt(heap', k, R) = heap'[root].buffer[k]
                     /\ \A l \in 1..R-1 : MsgsAt(heap', k, l) = MsgsAt(heap, k, l)
  BY <1>1, <1>2, RootPile
<1>7. \A k \in Key : buf[k] \in Seq(Msg)
  BY <1>1, <1>5, <1>6, PileTypes
<1>8. \A k \in Key : n[k] = Len(buf[k]) /\ n[k] \in Nat
  BY <1>7, LenProperties
<1>9. IsFiniteSet(K) /\ IsFiniteSet(C) /\ C \subseteq Key
  BY ConstantsAssumption, FS_Subset
<1>10. \A k \in Key : MsgsAt(heap', k, R) = IF k \in K THEN Append(buf[k], m) ELSE buf[k]
  BY <1>6 DEF Appended
<1> HIDE DEF P, Q, R, buf, n, C
<1>11. ASSUME NEW k \in Key, NEW j
       PROVE  j \in 1..Len(MsgsAt(heap', k, R)) /\ MsgsAt(heap', k, R)[j] \in M
              <=> \/ j \in 1..n[k] /\ buf[k][j] \in M
                  \/ k \in C /\ j = n[k] + 1
  <2>1. CASE k \in K
    <3> DEFINE t == Append(buf[k], m)
    <3>1. MsgsAt(heap', k, R) = t
      BY <1>10, <2>1
    <3>2. Len(t) = n[k] + 1 /\ t[n[k] + 1] = m /\ \A z \in 1..n[k] : t[z] = buf[k][z]
      BY <1>7, <1>8, AppendProperties
    <3>3. k \in C <=> m \in M
      BY <2>1 DEF C
    <3> HIDE DEF t
    <3>4. CASE j \in 1..n[k]
      <4>1. j \in 1..n[k] + 1 /\ j # n[k] + 1
        BY <1>8, <3>4
      <4> QED
        BY <3>1, <3>2, <3>4, <4>1
    <3>5. CASE j = n[k] + 1
      <4>1. j \in 1..n[k] + 1 /\ j \notin 1..n[k]
        BY <1>8, <3>5
      <4> QED
        BY <3>1, <3>2, <3>3, <3>5, <4>1
    <3>6. CASE j \notin 1..n[k] /\ j # n[k] + 1
      <4>1. j \notin 1..n[k] + 1
        BY <1>8, <3>6
      <4> QED
        BY <3>1, <3>2, <3>6, <4>1
    <3> QED
      BY <3>4, <3>5, <3>6
  <2>2. CASE k \notin K
    BY <1>8, <1>10, <2>2 DEF C
  <2> QED
    BY <2>1, <2>2
<1>12. \A l, k, j : <<l, <<k, j>>>> \in X <=> l = R /\ k \in C /\ j = n[k] + 1
  OBVIOUS
<1>13. \A x \in X : x = <<x[1], <<x[2][1], x[2][2]>>>>
  OBVIOUS
<1> HIDE DEF X
<1>14. ASSUME NEW l, NEW k, NEW j
       PROVE  /\ <<l, <<k, j>>>> \in Q <=> <<l, <<k, j>>>> \in P \/ <<l, <<k, j>>>> \in X
              /\ ~(<<l, <<k, j>>>> \in P /\ <<l, <<k, j>>>> \in X)
  <2>1. CASE l = R /\ k \in Key
    <3>1. <<l, <<k, j>>>> \in P <=> j \in 1..n[k] /\ buf[k][j] \in M
      BY <1>3, <1>5, <1>6, <1>8, <2>1
    <3>2. <<l, <<k, j>>>> \in X <=> k \in C /\ j = n[k] + 1
      BY <1>12, <2>1
    <3>3. <<l, <<k, j>>>> \in Q <=> \/ j \in 1..n[k] /\ buf[k][j] \in M
                                    \/ k \in C /\ j = n[k] + 1
      BY <1>4, <1>5, <1>11, <2>1
    <3>4. j = n[k] + 1 => j \notin 1..n[k]
      BY <1>8, <2>1
    <3> QED
      BY <3>1, <3>2, <3>3, <3>4
  <2>2. CASE l # R /\ l \in 1..R /\ k \in Key
    <3>1. l \in 1..R-1
      BY <1>3, <2>2
    <3>2. MsgsAt(heap', k, l) = MsgsAt(heap, k, l)
      BY <1>6, <2>2, <3>1
    <3>3. <<l, <<k, j>>>> \notin X
      BY <1>12, <2>2
    <3> QED
      BY <1>3, <1>4, <3>2, <3>3
  <2>3. CASE l \notin 1..R \/ k \notin Key
    BY <1>3, <1>4, <1>5, <1>9, <1>12, <2>3
  <2> QED
    BY <1>5, <2>1, <2>2, <2>3
<1>15. Q = P \cup X /\ P \cap X = {}
  <2>1. \A x \in Q : x \in P \/ x \in X
    BY <1>4, <1>14
  <2>2. \A x \in P : x \in Q /\ x \notin X
    BY <1>3, <1>14
  <2>3. \A x \in X : x \in Q
    BY <1>13, <1>14
  <2> QED
    BY <2>1, <2>2, <2>3
<1>16. IsFiniteSet(X) /\ Cardinality(X) = Cardinality(C)
  <2> DEFINE f == [k \in C |-> at(k)]
  <2>1. f \in [C -> X]
    BY DEF X
  <2>2. \A k \in C : f[k] = at(k) /\ f[k][2][1] = k
    OBVIOUS
  <2>3. \A x \in X : \E k \in C : f[k] = x
    BY DEF X
  <2> HIDE DEF f, at
  <2>4. \A x, y \in C : f[x] = f[y] => x = y
    BY <2>2
  <2> QED
    BY ONLY <1>9, <2>1, <2>3, <2>4, SameSize
<1>17. /\ Cardinality(P \cup X) = Cardinality(P) + Cardinality(X)
       /\ Cardinality(P) \in Nat
  BY <1>3, <1>15, <1>16, DisjointSizes
<1>18. Cardinality(K) \in Nat
  BY <1>9, FS_CardinalityType
<1>19. m \in M => C = K
  BY DEF C
<1>20. m \notin M => Cardinality(C) = 0
  <2>1. m \notin M => C = {}
    BY DEF C
  <2> QED
    BY <2>1, FS_EmptySet
<1> QED
  BY <1>1, <1>15, <1>16, <1>17, <1>18, <1>19, <1>20 DEF P, Q

(* A write that buffers nothing leaves the pile alone. *)
LEMMA PileUnwritten ==
  ASSUME Shape, RootWritten, heap'[root].buffer = heap[root].buffer, NEW M
  PROVE  Pile(heap', root', M) = Pile(heap, root, M)
<1>1. ShapeIn(heap, root) /\ ShapeIn(heap', root) /\ root' = root
  BY WritesShape DEF Shape, RootWritten
<1>2. DOMAIN heap' = DOMAIN heap /\ \A a \in DOMAIN heap \ {root} : heap'[a] = heap[a]
  BY DEF RootWritten, SameNodes
<1>3. root[1] \in Nat
  BY <1>1, PileIs
<1>4. ASSUME NEW k \in Key, NEW l \in 1..root[1]
      PROVE  MsgsAt(heap', k, l) = MsgsAt(heap, k, l)
  <2>1. /\ MsgsAt(heap', k, root[1]) = heap'[root].buffer[k]
        /\ MsgsAt(heap, k, root[1]) = heap[root].buffer[k]
        /\ \A i \in 1..root[1]-1 : MsgsAt(heap', k, i) = MsgsAt(heap, k, i)
    BY <1>1, <1>2, RootPile
  <2>2. l = root[1] \/ l \in 1..root[1]-1
    BY <1>3
  <2> QED
    BY <2>1, <2>2
<1>5. \A l \in 1..root[1] : LevelBuf(heap', l) = LevelBuf(heap, l)
  BY <1>4 DEF LevelBuf
<1> QED
  BY <1>1, <1>5 DEF Pile

-----------------------------------------------------------------------------
(* Entries. *)

EntriesIn(h) == [k \in Key |-> EntryOf(h, k)]

(* The entries of the leaves, one for each key that has one. *)
LEMMA EntriesSize ==
  ASSUME NEW h, NEW r, ShapeIn(h, r)
  PROVE  /\ EntriesIn(h) \in [Key -> Opt]
         /\ Cardinality(Present(EntriesIn(h))) \in Nat
         /\ Cardinality(UNION {{a} \X KeysOf(h[a]) : a \in DOMAIN h})
              = Cardinality(Present(EntriesIn(h)))
<1> DEFINE P == Present(EntriesIn(h))
           T == UNION {{a} \X KeysOf(h[a]) : a \in DOMAIN h}
           f == [k \in P |-> <<Owner(h, k, 0), k>>]
<1>1. EntriesIn(h) \in [Key -> Opt]
  BY PileTypes DEF EntriesIn
<1>2. P \subseteq Key /\ \A k : k \in P <=> k \in Key /\ EntryOf(h, k) # Absent
  BY DEF Present, EntriesIn
<1>3. IsFiniteSet(P) /\ Cardinality(P) \in Nat
  BY <1>2, ConstantsAssumption, FS_Subset, FS_CardinalityType
<1>4. \A t : t \in T <=> /\ t = <<t[1], t[2]>> /\ t[1] \in DOMAIN h
                         /\ t[2] \in Key /\ h[t[1]].kv[t[2]] # Absent
  BY DEF KeysOf
<1>5. \A k \in Key : /\ Owner(h, k, 0) \in DOMAIN h
                     /\ \A a \in DOMAIN h : a[1] = 0 /\ k \in TerritoryIn(h, a) => a = Owner(h, k, 0)
  <2> SUFFICES ASSUME NEW k \in Key
               PROVE  /\ Owner(h, k, 0) \in DOMAIN h
                      /\ \A a \in DOMAIN h : a[1] = 0 /\ k \in TerritoryIn(h, a) => a = Owner(h, k, 0)
    OBVIOUS
  <2>1. r[1] \in Nat /\ \A l \in 0..r[1] :
          /\ Owner(h, k, l) \in DOMAIN h
          /\ \A a \in DOMAIN h : a[1] = l /\ k \in TerritoryIn(h, a) => a = Owner(h, k, l)
    BY Owners
  <2>2. 0 \in 0..r[1]
    BY <2>1
  <2> QED
    BY <2>1, <2>2
<1> HIDE DEF P, T
<1>6. ASSUME NEW k \in P PROVE <<Owner(h, k, 0), k>> \in T
  <2> DEFINE a == Owner(h, k, 0)
             t == <<a, k>>
  <2>1. k \in Key /\ h[a].kv[k] # Absent /\ a \in DOMAIN h
    BY <1>2, <1>5 DEF EntryOf
  <2>2. t[1] = a /\ t[2] = k /\ t = <<t[1], t[2]>>
    OBVIOUS
  <2> HIDE DEF t, a
  <2>3. t \in T
    BY <1>4, <2>1, <2>2
  <2> QED
    BY <2>3 DEF t, a
<1>7. f \in [P -> T] /\ \A k \in P : f[k] = <<Owner(h, k, 0), k>>
  BY <1>6
<1> HIDE DEF f
<1>8. \A x, y \in P : f[x] = f[y] => x = y
  BY <1>7
<1>9. ASSUME NEW t \in T PROVE \E k \in P : f[k] = t
  <2> DEFINE a == t[1]
             k == t[2]
  <2>1. t = <<a, k>> /\ a \in DOMAIN h /\ k \in Key /\ h[a].kv[k] # Absent
    BY <1>4
  <2> HIDE DEF a, k
  <2>2. h[a].leaf
    <3>1. h[a] \in LeafNode \cup InternalNode
      BY <2>1 DEF ShapeIn, HeapOK
    <3>2. ~h[a].leaf => h[a].kv = NoKeys
      BY <3>1, NodeKinds DEF LeafNode, InternalNode
    <3> QED
      BY <2>1, <3>2 DEF NoKeys
  <2>3. a[1] = 0 /\ k \in TerritoryIn(h, a)
    BY <2>1, <2>2 DEF ShapeIn, LevelsIn, RoutedIn
  <2>4. a = Owner(h, k, 0)
    BY <1>5, <2>1, <2>3
  <2>5. k \in P
    BY <1>2, <2>1, <2>4 DEF EntryOf
  <2> QED
    BY <1>7, <2>1, <2>4, <2>5
<1>10. Cardinality(T) = Cardinality(P)
  BY ONLY <1>3, <1>7, <1>8, <1>9, SameSize
<1> QED
  BY <1>1, <1>3, <1>10 DEF P, T

(* Entries that no write, flush to a buffer or split changes. *)
LEMMA EntriesUnwritten ==
  ASSUME Shape, RootWritten, heap'[root].kv = heap[root].kv
  PROVE  EntriesIn(heap') = EntriesIn(heap)
<1>1. ShapeIn(heap, root) /\ ShapeIn(heap', root) /\ root' = root
  BY WritesShape DEF Shape, RootWritten
<1>2. DOMAIN heap' = DOMAIN heap /\ \A a \in DOMAIN heap \ {root} : heap'[a] = heap[a]
  BY DEF RootWritten, SameNodes
<1>3. ASSUME NEW k \in Key PROVE EntryOf(heap', k) = EntryOf(heap, k)
  <2>1. /\ root[1] # 0 => EntryOf(heap', k) = EntryOf(heap, k)
        /\ root[1] = 0 => EntryOf(heap', k) = heap'[root].kv[k] /\ EntryOf(heap, k) = heap[root].kv[k]
    BY <1>1, <1>2, RootPile
  <2> QED
    BY <2>1
<1> QED
  BY <1>3 DEF EntriesIn

(* The entries of a root that is a leaf. *)
LEMMA EntriesOfLeaf ==
  ASSUME NEW h, NEW r, ShapeIn(h, r), r[1] = 0
  PROVE  Present(EntriesIn(h)) = Present(h[r].kv)
<1>1. \A k \in Key : Owner(h, k, 0) = r
  BY Owners
<1> QED
  BY <1>1 DEF EntriesIn, EntryOf, Present

-----------------------------------------------------------------------------
(* What a flush to a leaf adds to size. *)

(***************************************************************************)
(* Whichever path applyToLeaf takes, it corrects size by the messages that *)
(* find nothing, less those that were counted in advance, provided that no *)
(* delete finds nothing.                                                   *)
(***************************************************************************)
LEMMA LeafSizeChange ==
  ASSUME NEW kv \in [Key -> Opt], NEW msgs \in [Key -> Seq(Msg)],
         \A s \in Deletes(msgs) : ~Fresh(kv, msgs, s)
  PROVE  /\ Cardinality(FreshSlots(kv, msgs)) \in Nat /\ Cardinality(Counted(msgs)) \in Nat
         /\ applyToLeaf(kv, msgs).sizeChange
              = Cardinality(FreshSlots(kv, msgs)) - Cardinality(Counted(msgs))
<1> DEFINE F == FreshSlots(kv, msgs)
           C == Counted(msgs)
           D == Deletes(msgs)
           m == Missed(kv, msgs)
           T == CountedTwice(kv, msgs)
           new == applyToLeafBatch(kv, msgs)
<1>1. /\ F \subseteq Slots(msgs) /\ C \subseteq Slots(msgs) /\ D \subseteq Slots(msgs)
      /\ m \subseteq Slots(msgs) /\ T \subseteq C
  BY DEF FreshSlots, Counted, Deletes, Missed, CountedTwice
<1>2. /\ IsFiniteSet(F) /\ Cardinality(F) \in Nat /\ IsFiniteSet(C) /\ Cardinality(C) \in Nat
      /\ IsFiniteSet(m) /\ Cardinality(m) \in Nat /\ Cardinality(D) \in Nat
  BY <1>1, MessageSets
<1>3. F = m \cup (C \ T) /\ m \cap (C \ T) = {}
  <2>1. \A s \in C : s \notin D
    BY DEF Counted, Deletes
  <2>2. \A s : s \in F <=> s \in Slots(msgs) /\ Fresh(kv, msgs, s)
    BY DEF FreshSlots
  <2>3. \A s : s \in m <=> s \in Slots(msgs) /\ s \notin D /\ s \notin C /\ Fresh(kv, msgs, s)
    BY DEF Missed
  <2>4. \A s : s \in T <=> s \in C /\ ~Fresh(kv, msgs, s)
    BY DEF CountedTwice
  <2>5. \A s \in D : ~Fresh(kv, msgs, s)
    OBVIOUS
  <2> HIDE DEF F, C, D, m, T
  <2> QED
    BY <1>1, <2>1, <2>2, <2>3, <2>4, <2>5
<1>4. applyToLeafSmall(kv, msgs).sizeChange = Cardinality(m) - Cardinality(T)
  BY DEF applyToLeafSmall
<1>5. \A k \in Key : new.kv[k] = After(msgs[k], kv[k])
  <2> SUFFICES ASSUME NEW k \in Key PROVE new.kv[k] = After(msgs[k], kv[k])
    OBVIOUS
  <2>1. kv[k] \in Opt /\ msgs[k] \in Seq(Msg)
    OBVIOUS
  <2>2. CASE msgs[k] = <<>>
    BY <2>1, <2>2, AfterNone DEF applyToLeafBatch
  <2>3. CASE msgs[k] # <<>>
    <3>1. new.kv[k] = Apply(resolveKeyGroup(msgs[k]), kv[k])
      BY <2>3 DEF applyToLeafBatch
    <3> QED
      BY <2>1, <2>3, <3>1, ResolveKeyGroupApplies
  <2> QED
    BY <2>2, <2>3
<1>6. new.sizeChange = Cardinality(Present(new.kv)) - Cardinality(Present(kv))
                         - (Cardinality(C) - Cardinality(D))
  BY DEF applyToLeafBatch, Tallied, Present
<1> HIDE DEF F, C, D, m, T, new
<1>7. /\ Cardinality(F) = Cardinality(m) + Cardinality(C \ T)
      /\ Cardinality(C \ T) = Cardinality(C) - Cardinality(T)
      /\ Cardinality(T) \in Nat
  <2>1. /\ Cardinality(C \ T) = Cardinality(C) - Cardinality(T) /\ Cardinality(T) \in Nat
        /\ IsFiniteSet(C \ T)
    BY <1>1, <1>2, RemainderSize
  <2>2. Cardinality(m \cup (C \ T)) = Cardinality(m) + Cardinality(C \ T)
    BY <1>2, <1>3, <2>1, DisjointSizes
  <2> QED
    BY <1>3, <2>1, <2>2
<1>8. applyToLeafSmall(kv, msgs).sizeChange = Cardinality(F) - Cardinality(C)
  BY <1>2, <1>4, <1>7
<1>9. new.sizeChange = Cardinality(F) - Cardinality(C)
  <2> DEFINE g == new.kv
  <2>1. \A k \in Key : g[k] = After(msgs[k], kv[k])
    BY <1>5
  <2> HIDE DEF g
  <2>2. /\ IsFiniteSet(Present(kv)) /\ IsFiniteSet(Present(g))
        /\ Cardinality(Present(kv)) + Cardinality(F) = Cardinality(Present(g)) + Cardinality(D)
    BY <2>1, Balance DEF F, D
  <2>3. Cardinality(Present(kv)) \in Nat /\ Cardinality(Present(g)) \in Nat
    BY <2>2, FS_CardinalityType
  <2>4. new.sizeChange = Cardinality(Present(g)) - Cardinality(Present(kv))
                           - (Cardinality(C) - Cardinality(D))
    BY <1>6 DEF g
  <2> DEFINE p == Cardinality(Present(kv))
             q == Cardinality(Present(g))
             x == Cardinality(F)
             y == Cardinality(C)
             z == Cardinality(D)
  <2>5. p \in Nat /\ q \in Nat /\ x \in Nat /\ y \in Nat /\ z \in Nat /\ p + x = q + z
    BY <1>2, <2>2, <2>3
  <2>6. new.sizeChange = q - p - (y - z)
    BY <2>4
  <2> HIDE DEF p, q, x, y, z
  <2>7. q - p - (y - z) = x - y
    BY <2>5
  <2> QED
    BY <2>6, <2>7 DEF x, y
<1> QED
  BY <1>2, <1>8, <1>9 DEF applyToLeaf, new, F, C

(* What a flush to a leaf sends, and what it makes of the entries. *)
LEMMA FlushedEntries ==
  ASSUME IInv, Shape, FlushToLeaf
  PROVE  \E kv \in [Key -> Opt] :
           /\ FlushBatch \in [Key -> Seq(Msg)]
           /\ \A k \in Key : FlushBatch[k] # <<>> => /\ kv[k] = EntryOf(heap, k)
                                                   /\ 1 \in 1..root[1]
                                                   /\ MsgsAt(heap, k, 1) = FlushBatch[k]
           /\ \A k \in Key : EntryOf(heap', k) = After(FlushBatch[k], EntryOf(heap, k))
           /\ size' = size + applyToLeaf(kv, FlushBatch).sizeChange
           /\ pendingDeletes' = pendingDeletes - NumDeletes(FlushBatch)
<1> DEFINE p == Head(todo).node
           i == heaviest(heap[p])
           c == heap[p].children[i]
           kv == heap[c].kv
           B == FlushBatch
<1>1. /\ Top("flushNode") /\ heap[c].leaf
      /\ size' = size + applyToLeaf(kv, Bucket(heap[p], i)).sizeChange
      /\ pendingDeletes' = pendingDeletes - NumDeletes(Bucket(heap[p], i))
  BY DEF FlushToLeaf
<1>2. B = Bucket(heap[p], i)
  BY DEF FlushBatch
<1>3. p = Head(todo).node /\ i = heaviest(heap[p]) /\ c = heap[p].children[i]
  OBVIOUS
<1>4. ShapeIn(heap, root)
  BY DEF Shape
<1> HIDE DEF p, i, c, B
<1>5. p \in DOMAIN heap /\ heap[p] \in InternalNode /\ c \in DOMAIN heap
  BY ONLY <1>1, <1>3, IInv, FlushPair
<1>6. ~heap[p].leaf /\ c[1] = 0
  BY <1>1, <1>4, <1>5 DEF InternalNode, ShapeIn, LevelsIn
<1>7. B \in [Key -> Seq(Msg)]
  BY <1>2, <1>5, BucketTypes
<1>8. kv \in [Key -> Opt]
  BY <1>1, <1>5, NodeKinds DEF IInv, TypeOK
<1>9. ASSUME NEW k \in Key, B[k] # <<>> PROVE kv[k] = EntryOf(heap, k)
  <2>1. k \in TerritoryIn(heap, c)
    BY <1>2, <1>3, <1>4, <1>5, <1>6, <1>9, BatchWithin
  <2>2. root[1] \in Nat /\ \A l \in 0..root[1] :
          \A a \in DOMAIN heap : a[1] = l /\ k \in TerritoryIn(heap, a) => a = Owner(heap, k, l)
    BY <1>4, Owners
  <2>3. 0 \in 0..root[1]
    BY <2>2
  <2>4. c = Owner(heap, k, 0)
    BY <1>5, <1>6, <2>1, <2>2, <2>3
  <2> QED
    BY <2>4 DEF EntryOf
<1>10. ASSUME NEW k \in Key
       PROVE  /\ B[k] # <<>> => 1 \in 1..root[1] /\ MsgsAt(heap, k, 1) = B[k]
              /\ EntryOf(heap', k) = After(B[k], EntryOf(heap, k))
  <2>1. \/ SamePile(heap', root', heap, root, k) /\ FlushBatch[k] = <<>>
        \/ \E L : Moved(heap', heap, root, k, L) /\ MsgsAt(heap, k, L) = FlushBatch[k] /\ L = 1
    BY FlushMoves
  <2>2. CASE SamePile(heap', root', heap, root, k) /\ FlushBatch[k] = <<>>
    <3>1. EntryOf(heap, k) \in Opt
      BY <1>4, PileTypes
    <3>2. After(<<>>, EntryOf(heap, k)) = EntryOf(heap, k)
      BY <3>1, AfterNone
    <3> QED
      BY <2>2, <3>2 DEF SamePile, B
  <2>3. CASE Moved(heap', heap, root, k, 1) /\ MsgsAt(heap, k, 1) = FlushBatch[k]
    BY <2>3 DEF Moved, B
  <2> QED
    BY <2>1, <2>2, <2>3
<1> HIDE DEF kv
<1>11. /\ size' = size + applyToLeaf(kv, B).sizeChange
       /\ pendingDeletes' = pendingDeletes - NumDeletes(B)
  BY <1>1, <1>2
<1>12. B = FlushBatch
  BY DEF B
<1>13. /\ B \in [Key -> Seq(Msg)]
       /\ \A k \in Key : B[k] # <<>> => /\ kv[k] = EntryOf(heap, k)
                                        /\ 1 \in 1..root[1]
                                        /\ MsgsAt(heap, k, 1) = B[k]
       /\ \A k \in Key : EntryOf(heap', k) = After(B[k], EntryOf(heap, k))
  BY <1>7, <1>9, <1>10
<1> QED
  BY <1>8, <1>11, <1>12, <1>13

(* What the counters should be. *)
Pending(h, r) == Cardinality(Pile(h, r, DeleteMsgs))
Advance(h, r) == Cardinality(Pile(h, r, CountedPuts))
Entries(h) == Cardinality(Present(EntriesIn(h)))

CountInv ==
  /\ pendingDeletes = Pending(heap, root)
  /\ size = Entries(heap) + Advance(heap, root) - Pending(heap, root)

(***************************************************************************)
(* What is counted is finite.                                              *)
(***************************************************************************)
LEMMA CountTypes ==
  ASSUME NEW h, NEW r, ShapeIn(h, r)
  PROVE  Pending(h, r) \in Nat /\ Advance(h, r) \in Nat /\ Entries(h) \in Nat
<1>1. \A M : IsFiniteSet(Pile(h, r, M))
  BY PileIs
<1> QED
  BY <1>1, EntriesSize, FS_CardinalityType DEF Pending, Advance, Entries

(* A flush to a leaf keeps the sum: its corrections of size are right. *)
LEMMA FlushToLeafCounts ==
  ASSUME IInv, Shape, ShapeIn(heap', root'), HitsInv, CountInv, FlushToLeaf
  PROVE  /\ pendingDeletes' = Pending(heap', root')
         /\ size' = Entries(heap') + Advance(heap', root') - Pending(heap', root')
<1> DEFINE B == FlushBatch
           E == EntriesIn(heap)
           G == EntriesIn(heap')
<1>1. PICK kv \in [Key -> Opt] :
           /\ B \in [Key -> Seq(Msg)]
           /\ \A k \in Key : B[k] # <<>> => /\ kv[k] = EntryOf(heap, k)
                                           /\ 1 \in 1..root[1]
                                           /\ MsgsAt(heap, k, 1) = B[k]
           /\ \A k \in Key : EntryOf(heap', k) = After(B[k], EntryOf(heap, k))
           /\ size' = size + applyToLeaf(kv, B).sizeChange
           /\ pendingDeletes' = pendingDeletes - NumDeletes(B)
  BY FlushedEntries
<1>2. ShapeIn(heap, root)
  BY DEF Shape
<1>3. E \in [Key -> Opt] /\ \A k \in Key : E[k] = EntryOf(heap, k)
  BY <1>2, EntriesSize DEF EntriesIn
<1>4. \A k \in Key : G[k] = After(B[k], E[k])
  BY <1>1, <1>3 DEF EntriesIn
<1>5. Deletes(B) = Sel(B, DeleteMsgs) /\ Counted(B) = Sel(B, CountedPuts)
  BY <1>1, Kinds
<1>6. /\ Cardinality(Pile(heap, root, DeleteMsgs)) \in Nat
      /\ Cardinality(Sel(B, DeleteMsgs)) \in Nat
      /\ Cardinality(Pile(heap', root', DeleteMsgs))
           = Cardinality(Pile(heap, root, DeleteMsgs)) - Cardinality(Sel(B, DeleteMsgs))
  <2> DEFINE M == DeleteMsgs
  <2> HIDE DEF M
  <2>1. /\ Cardinality(Pile(heap, root, M)) \in Nat
        /\ Cardinality(Sel(B, M)) \in Nat
        /\ Cardinality(Pile(heap', root', M))
             = Cardinality(Pile(heap, root, M)) - Cardinality(Sel(B, M))
    BY <1>1, FlushedToLeaf
  <2> QED
    BY <2>1 DEF M
<1>7. /\ Cardinality(Pile(heap, root, CountedPuts)) \in Nat
      /\ Cardinality(Sel(B, CountedPuts)) \in Nat
      /\ Cardinality(Pile(heap', root', CountedPuts))
           = Cardinality(Pile(heap, root, CountedPuts)) - Cardinality(Sel(B, CountedPuts))
  <2> DEFINE M == CountedPuts
  <2> HIDE DEF M
  <2>1. /\ Cardinality(Pile(heap, root, M)) \in Nat
        /\ Cardinality(Sel(B, M)) \in Nat
        /\ Cardinality(Pile(heap', root', M))
             = Cardinality(Pile(heap, root, M)) - Cardinality(Sel(B, M))
    BY <1>1, FlushedToLeaf
  <2> QED
    BY <2>1 DEF M
<1> HIDE DEF B, E, G
<1>8. ASSUME NEW s \in Slots(B)
      PROVE  /\ s[1] \in Key /\ s[2] \in 1..Len(B[s[1]])
             /\ B[s[1]] # <<>> /\ kv[s[1]] = E[s[1]]
  <2>1. s[1] \in Key /\ s[2] \in 1..Len(B[s[1]])
    BY <1>1, SlotIs
  <2>2. Len(<<>>) = 0 /\ 1..0 = {}
    OBVIOUS
  <2> QED
    BY <1>1, <1>3, <2>1, <2>2
<1>9. \A s \in Slots(B) : Fresh(kv, B, s) <=> Fresh(E, B, s)
  BY <1>8 DEF Fresh
<1>10. FreshSlots(kv, B) = FreshSlots(E, B)
  BY <1>9 DEF FreshSlots
<1>11. ASSUME NEW s \in Deletes(B) PROVE ~Fresh(kv, B, s)
  <2> DEFINE k == s[1]
             j == s[2]
  <2>1. s \in Slots(B) /\ B[k][j] \in DeleteMsgs
    BY <1>5 DEF Sel, At
  <2>2. /\ k \in Key /\ j \in 1..Len(B[k]) /\ kv[k] = E[k]
        /\ 1 \in 1..root[1] /\ MsgsAt(heap, k, 1) = B[k]
    BY <1>1, <1>8, <2>1
  <2> HIDE DEF k, j
  <2>3. Run(B[k], Vals(heap, root, k)[1-1])[j-1] # Absent
    BY <2>1, <2>2 DEF HitsInv, Hits
  <2>4. Vals(heap, root, k)[0] = E[k]
    BY <1>2, <1>3, <2>2, ValsProperties
  <2> QED
    BY <2>2, <2>3, <2>4 DEF Fresh, k, j
<1>12. /\ Cardinality(FreshSlots(kv, B)) \in Nat /\ Cardinality(Counted(B)) \in Nat
       /\ applyToLeaf(kv, B).sizeChange
            = Cardinality(FreshSlots(kv, B)) - Cardinality(Counted(B))
  BY <1>1, <1>11, LeafSizeChange
<1>13. Cardinality(Present(E)) + Cardinality(FreshSlots(E, B))
         = Cardinality(Present(G)) + Cardinality(Deletes(B))
  BY <1>1, <1>3, <1>4, Balance
<1>14. Entries(heap) \in Nat /\ Entries(heap') \in Nat
  BY <1>2, CountTypes
<1> DEFINE x == Cardinality(FreshSlots(kv, B))
           y == Cardinality(Counted(B))
           z == Cardinality(Deletes(B))
           p == Pending(heap, root)
           a == Advance(heap, root)
           e == Entries(heap)
           f == Entries(heap')
<1>15. /\ x \in Nat /\ y \in Nat /\ z \in Nat /\ p \in Nat /\ a \in Nat /\ e \in Nat /\ f \in Nat
       /\ e + x = f + z
  BY <1>5, <1>6, <1>7, <1>10, <1>12, <1>13, <1>14 DEF Pending, Advance, Entries, E, G
<1>16. Pending(heap', root') = p - z /\ Advance(heap', root') = a - y
  BY <1>5, <1>6, <1>7 DEF Pending, Advance
<1>17. /\ size' = (e + a - p) + (x - y) /\ pendingDeletes' = p - z
  BY <1>1, <1>12 DEF CountInv, NumDeletes
<1> HIDE DEF x, y, z, p, a, e, f
<1>18. (e + a - p) + (x - y) = f + (a - y) - (p - z)
  BY <1>15
<1> QED
  BY <1>16, <1>17, <1>18 DEF f

(* So does a write. *)
LEMMA WriteCounts ==
  ASSUME IInv, IInv', Shape, ShapeIn(heap', root'), CountInv, Writes
  PROVE  /\ pendingDeletes' = Pending(heap', root')
         /\ size' = Entries(heap') + Advance(heap', root') - Pending(heap', root')
<1> DEFINE p == Pending(heap, root)
           a == Advance(heap, root)
           e == Entries(heap)
           q == Pending(heap', root')
           b == Advance(heap', root')
           f == Entries(heap')
<1>1. ShapeIn(heap, root)
  BY DEF Shape
<1>2. /\ p \in Nat /\ a \in Nat /\ e \in Nat /\ q \in Nat /\ b \in Nat /\ f \in Nat
      /\ pendingDeletes = p /\ size = e + a - p
  BY <1>1, CountTypes DEF CountInv
<1>3. ASSUME NEW z, NoWrite(z) PROVE pendingDeletes' = q /\ size' = f + b - q
  <2>1. /\ RootWritten /\ heap'[root] = heap[root]
        /\ size' = size + 0 /\ pendingDeletes' = pendingDeletes + 0
    BY <1>3, NotWritten
  <2>2. q = p /\ b = a /\ f = e
    BY <2>1, PileUnwritten, EntriesUnwritten DEF Pending, Advance, Entries
  <2> HIDE DEF p, a, e, q, b, f
  <2> QED
    BY <1>2, <2>1, <2>2
<1>4. ASSUME NEW kv, NEW d, NEW z, CountedWrite(kv, d, z)
      PROVE  pendingDeletes' = q /\ size' = f + b - q
  <2>1. LeafWrite(kv, d, z)
    BY <1>4 DEF CountedWrite
  <2>2. /\ RootWritten /\ heap[root].leaf /\ heap'[root].kv = kv
        /\ heap'[root].buffer = heap[root].buffer
        /\ size' = size + d /\ pendingDeletes' = pendingDeletes + 0
    BY <2>1, LeafWritten
  <2>3. root' = root /\ root[1] = 0
    BY <1>1, <2>2 DEF RootWritten, ShapeIn, LevelsIn
  <2>4. e = Cardinality(Present(heap[root].kv)) /\ f = Cardinality(Present(kv))
    BY <1>1, <2>2, <2>3, EntriesOfLeaf DEF Entries
  <2>5. f = e + d
    BY <1>4, <2>4 DEF CountedWrite
  <2>6. q = p /\ b = a
    BY <2>2, PileUnwritten DEF Pending, Advance
  <2> HIDE DEF p, a, e, q, b, f
  <2> QED
    BY <1>2, <1>4, <2>2, <2>5, <2>6 DEF CountedWrite
<1>5. ASSUME NEW K, NEW m, NEW d, NEW y, NEW z, BufferWrite(K, m, d, y, z), Announced(K, m, d, y)
      PROVE  pendingDeletes' = q /\ size' = f + b - q
  <2> DEFINE n == Cardinality(K)
  <2>1. /\ RootWritten /\ ~heap[root].leaf /\ K \subseteq Key /\ m \in Msg
        /\ heap'[root].kv = heap[root].kv
        /\ heap'[root].buffer = Appended(heap[root].buffer, K, m)
        /\ size' = size + d /\ pendingDeletes' = pendingDeletes + y
    BY <1>5, BufferWritten
  <2>2. f = e
    BY <2>1, EntriesUnwritten DEF Entries
  <2>3. /\ n \in Nat
        /\ m \in DeleteMsgs => q = p + n
        /\ m \notin DeleteMsgs => q = p
    <3> DEFINE M == DeleteMsgs
    <3> HIDE DEF M
    <3>1. /\ Cardinality(K) \in Nat
          /\ m \in M => Cardinality(Pile(heap', root', M))
                          = Cardinality(Pile(heap, root, M)) + Cardinality(K)
          /\ m \notin M => Cardinality(Pile(heap', root', M)) = Cardinality(Pile(heap, root, M))
      BY <2>1, PileWritten
    <3> QED
      BY <3>1 DEF M, Pending
  <2>4. /\ m \in CountedPuts => b = a + n
        /\ m \notin CountedPuts => b = a
    <3> DEFINE M == CountedPuts
    <3> HIDE DEF M
    <3>1. /\ m \in M => Cardinality(Pile(heap', root', M))
                          = Cardinality(Pile(heap, root, M)) + Cardinality(K)
          /\ m \notin M => Cardinality(Pile(heap', root', M)) = Cardinality(Pile(heap, root, M))
      BY <2>1, PileWritten
    <3> QED
      BY <3>1 DEF M, Advance
  <2>5. (\E k : K = {k}) => n = 1
    BY FS_Singleton
  <2>6. /\ ~(m \in DeleteMsgs /\ m \in CountedPuts)
        /\ m \in UncountedPuts \/ m \in UpsertMsgs => m \notin CountedPuts /\ m \notin DeleteMsgs
    BY DEF DeleteMsgs, CountedPuts, UncountedPuts, UpsertMsgs
  <2>7. \/ m \in DeleteMsgs /\ d = -n /\ y = n
        \/ m \in CountedPuts /\ n = 1 /\ d = 1 /\ y = 0
        \/ m \notin CountedPuts /\ m \notin DeleteMsgs /\ d = 0 /\ y = 0
    BY <1>5, <2>5, <2>6 DEF Announced
  <2> HIDE DEF p, a, e, q, b, f, n
  <2>8. CASE m \in DeleteMsgs /\ d = -n /\ y = n
    <3>1. q = p + n /\ b = a
      BY <2>3, <2>4, <2>6, <2>8
    <3> QED
      BY <1>2, <2>1, <2>2, <2>3, <2>8, <3>1
  <2>9. CASE m \in CountedPuts /\ n = 1 /\ d = 1 /\ y = 0
    <3>1. q = p /\ b = a + 1
      BY <2>3, <2>4, <2>6, <2>9
    <3> QED
      BY <1>2, <2>1, <2>2, <2>9, <3>1
  <2>10. CASE m \notin CountedPuts /\ m \notin DeleteMsgs /\ d = 0 /\ y = 0
    <3>1. q = p /\ b = a
      BY <2>3, <2>4, <2>10
    <3> QED
      BY <1>2, <2>1, <2>2, <2>10, <3>1
  <2> QED
    BY <2>7, <2>8, <2>9, <2>10
<1> HIDE DEF p, a, e, q, b, f
<1>6. pendingDeletes' = q /\ size' = f + b - q
  BY <1>3, <1>4, <1>5, WriteForms
<1> QED
  BY <1>6 DEF q, b, f

(* So do flushes to buffers, splits and Clear. *)
LEMMA NextCounts ==
  ASSUME IInv, IInv', Shape, ShapeIn(heap', root'), HitsInv, CountInv, [Next]_vars
  PROVE  /\ pendingDeletes' = Pending(heap', root')
         /\ size' = Entries(heap') + Advance(heap', root') - Pending(heap', root')
<1>1. ShapeIn(heap, root)
  BY DEF Shape
<1>2. CASE Clear
  <2> DEFINE z == <<0, 0>>
             h == [x \in {z} |-> newLeaf]
  <2>1. heap' = h /\ root' = z /\ size' = 0 /\ pendingDeletes' = 0
    BY <1>2 DEF Clear
  <2>2. ShapeIn(h, z) /\ z[1] = 0 /\ h[z] = newLeaf
    BY SingleLeafShape
  <2> HIDE DEF h, z
  <2>3. Present(EntriesIn(h)) = Present(h[z].kv)
    BY <2>2, EntriesOfLeaf
  <2>4. Present(h[z].kv) = {}
    BY <2>2 DEF Present, newLeaf, NoKeys
  <2>5. \A M : Pile(h, z, M) = {}
    <3>1. 1..z[1] = {}
      BY <2>2
    <3> QED
      BY <3>1 DEF Pile
  <2>6. Cardinality({}) = 0
    BY FS_EmptySet
  <2>7. Entries(h) = 0 /\ Advance(h, z) = 0 /\ Pending(h, z) = 0
    BY <2>3, <2>4, <2>5, <2>6 DEF Entries, Advance, Pending
  <2> QED
    BY <2>1, <2>7
<1>3. CASE FlushToBuffer
  <2>1. \A k \in Key : EntryOf(heap', k) = EntryOf(heap, k)
    <3> SUFFICES ASSUME NEW k \in Key PROVE EntryOf(heap', k) = EntryOf(heap, k)
      OBVIOUS
    <3>1. \/ SamePile(heap', root', heap, root, k)
          \/ \E L : Moved(heap', heap, root, k, L) /\ L # 1
      BY <1>3, FlushMoves
    <3> QED
      BY <3>1 DEF SamePile, Moved
  <2>2. EntriesIn(heap') = EntriesIn(heap)
    BY <2>1 DEF EntriesIn
  <2>3. Pending(heap', root') = Pending(heap, root)
    BY <1>3, FlushedToBuffer DEF Pending
  <2>4. Advance(heap', root') = Advance(heap, root)
    BY <1>3, FlushedToBuffer DEF Advance
  <2>5. size' = size /\ pendingDeletes' = pendingDeletes
    BY <1>3 DEF FlushToBuffer
  <2> QED
    BY <2>2, <2>3, <2>4, <2>5 DEF CountInv, Entries
<1>4. CASE SplitChild \/ SplitRoot
  <2>1. \A k \in Key : SamePile(heap', root', heap, root, k)
    BY <1>4, SplitKeepsPiles
  <2>2. EntriesIn(heap') = EntriesIn(heap)
    BY <2>1 DEF EntriesIn, SamePile
  <2>3. \A M : Pile(heap', root', M) = Pile(heap, root, M)
    BY <1>1, <2>1, SamePiles
  <2>4. size' = size /\ pendingDeletes' = pendingDeletes
    BY <1>4 DEF SplitChild, SplitRoot
  <2> QED
    BY <2>2, <2>3, <2>4 DEF CountInv, Entries, Pending, Advance
<1>5. CASE Unlock \/ UNCHANGED vars
  <2>1. heap' = heap /\ root' = root /\ size' = size /\ pendingDeletes' = pendingDeletes
    BY <1>5 DEF Unlock, tree, vars
  <2> QED
    BY <2>1 DEF CountInv
<1>6. CASE Writes
  BY <1>6, WriteCounts
<1>7. CASE FlushToLeaf
  BY <1>7, FlushToLeafCounts
<1> QED
  BY <1>2, <1>3, <1>4, <1>5, <1>6, <1>7 DEF Next, Continue, Writes

(* What holds always: the types and calls, the shape, hits and counters. *)
Counters == IInv /\ Shape /\ HitsInv /\ CountInv

(***************************************************************************)
(* The counters are right in a new tree.                                   *)
(***************************************************************************)
LEMMA InitCounters ==
  Init => Counters
<1> SUFFICES ASSUME Init PROVE Counters
  OBVIOUS
<1>1. IInv /\ Shape /\ HitsInv
  BY InitIInv, InitHits, SingleLeafShape DEF Init, Shape
<1>2. ShapeIn(heap, root) /\ root[1] = 0 /\ heap[root] = newLeaf
  BY <1>1 DEF Shape, Init
<1>3. Present(EntriesIn(heap)) = {}
  <2>1. Present(EntriesIn(heap)) = Present(heap[root].kv)
    BY <1>2, EntriesOfLeaf
  <2> QED
    BY <1>2, <2>1 DEF Present, newLeaf, NoKeys
<1>4. \A M : Pile(heap, root, M) = {}
  <2>1. 1..root[1] = {}
    BY <1>2
  <2> QED
    BY <2>1 DEF Pile
<1>5. Cardinality({}) = 0
  BY FS_EmptySet
<1>6. Entries(heap) = 0 /\ Advance(heap, root) = 0 /\ Pending(heap, root) = 0
  BY <1>3, <1>4, <1>5 DEF Entries, Advance, Pending
<1> QED
  BY <1>1, <1>6 DEF Counters, CountInv, Init

(***************************************************************************)
(* Every step keeps the counters right.                                    *)
(***************************************************************************)
LEMMA NextCounters ==
  Counters /\ [Next]_vars => Counters'
<1> SUFFICES ASSUME IInv, Shape, HitsInv, CountInv, [Next]_vars PROVE Counters'
  BY DEF Counters
<1>1. (IInv /\ Shape)'
  BY NextIInv, NextShape DEF Shape
<1>2. IInv' /\ ShapeIn(heap', root')
  BY <1>1 DEF Shape
<1>3. \A k \in Key : Hits(heap', root', k, DeleteMsgs)
  BY <1>2, NextHits
<1>4. HitsInv'
  BY <1>3 DEF HitsInv
<1>5. /\ pendingDeletes' = Pending(heap', root')
      /\ size' = Entries(heap') + Advance(heap', root') - Pending(heap', root')
  BY <1>2, NextCounts
<1>6. CountInv'
  BY <1>5 DEF CountInv
<1> QED
  BY <1>1, <1>4, <1>6 DEF Counters

(* The counts of BETree, taken over the nodes, are those of the pile. *)
LEMMA CountsOfHeap ==
  ASSUME IInv, Shape
  PROVE  /\ Cardinality(Buffered(Deletes)) = Pending(heap, root)
         /\ Cardinality(Buffered(Counted)) = Advance(heap, root)
         /\ Cardinality(Buffered(Upserts)) = Cardinality(Pile(heap, root, UpsertMsgs))
         /\ Cardinality(InLeaves) = Entries(heap)
<1>1. ShapeIn(heap, root)
  BY DEF Shape
<1>2. \A a \in DOMAIN heap : heap[a].buffer \in [Key -> Seq(Msg)]
  BY NodeKinds DEF IInv, TypeOK
<1>3. \A a \in DOMAIN heap :
        /\ Deletes(heap[a].buffer) = Sel(heap[a].buffer, DeleteMsgs)
        /\ Counted(heap[a].buffer) = Sel(heap[a].buffer, CountedPuts)
        /\ Upserts(heap[a].buffer) = Sel(heap[a].buffer, UpsertMsgs)
  BY <1>2, Kinds
<1>4. /\ Buffered(Deletes) = UNION {{a} \X Sel(heap[a].buffer, DeleteMsgs) : a \in DOMAIN heap}
      /\ Buffered(Counted) = UNION {{a} \X Sel(heap[a].buffer, CountedPuts) : a \in DOMAIN heap}
      /\ Buffered(Upserts) = UNION {{a} \X Sel(heap[a].buffer, UpsertMsgs) : a \in DOMAIN heap}
  BY <1>3 DEF Buffered
<1>5. \A M : Cardinality(UNION {{a} \X Sel(heap[a].buffer, M) : a \in DOMAIN heap})
               = Cardinality(Pile(heap, root, M))
  BY <1>1, PileSize
<1>6. Cardinality(InLeaves) = Entries(heap)
  BY <1>1, EntriesSize DEF InLeaves, Entries
<1> QED
  BY <1>4, <1>5, <1>6 DEF Pending, Advance

(***************************************************************************)
(* pendingDeletes is the number of buffered deletes at every step, also in *)
(* the middle of a cascade (tree.go:254, 334, flush.go:100, 153).          *)
(***************************************************************************)
THEOREM PendingDeletesCounted == Spec => []PendingDeletesExact
<1>1. Counters => PendingDeletesExact
  BY CountsOfHeap DEF Counters, CountInv, PendingDeletesExact
<1> QED
  BY <1>1, InitCounters, NextCounters, PTL DEF Spec

(***************************************************************************)
(* The corrections of applyToLeaf are exact on both of its paths: size is  *)
(* always the entries in leaves, plus the counted puts and minus the       *)
(* deletes that are still in buffers (flush.go:133-137, 145-161).          *)
(***************************************************************************)
THEOREM SizeAccounted == Spec => []SizeAccounting
<1>1. Counters => SizeAccounting
  BY CountsOfHeap DEF Counters, CountInv, SizeAccounting
<1> QED
  BY <1>1, InitCounters, NextCounters, PTL DEF Spec

-----------------------------------------------------------------------------
(* Puts that were not counted. *)

(* existsInLeaf in a heap h with root r. *)
ExistsIn(h, r, k) ==
  LET exists[n \in DOMAIN h] ==
        IF h[n].leaf THEN h[n].kv[k] # Absent ELSE exists[ChildFor(h[n], k)]
  IN  exists[r]

(***************************************************************************)
(* ExistsIn says of any heap what existsInLeaf says of the heap of the     *)
(* tree.                                                                   *)
(***************************************************************************)
LEMMA ExistsOfHeap == \A k : existsInLeaf(k) = ExistsIn(heap, root, k)
  BY DEF existsInLeaf, ExistsIn

(* It finds the entry of the leaf that owns the key. *)
LEMMA ExistsIsEntry ==
  ASSUME NEW h, NEW r, ShapeIn(h, r), NEW k \in Key
  PROVE  ExistsIn(h, r, k) <=> EntryOf(h, k) # Absent
<1> DEFINE D == DOMAIN h
           R == r[1]
           child(n) == ChildFor(h[n], k)
           here == [n \in D |-> h[n].kv[k] # Absent]
           E(x) == [n \in D |-> IF h[n].leaf THEN h[n].kv[k] # Absent ELSE x[child(n)]]
           lev == [a \in D |-> a[1]]
           step == [n \in D |-> [F \in [D -> BOOLEAN] |->
                     IF h[n].leaf THEN here[n] ELSE F[child(n)]]]
           exists == CHOOSE x : x = E(x)
<1>1. ExistsIn(h, r, k) = exists[r]
  BY DEF ExistsIn
<1>2. R \in Nat /\ lev \in [D -> Nat] /\ \A a \in D : lev[a] = a[1] /\ lev[a] <= R
  <2>1. \A a \in D : a \in Addr /\ a[1] <= R
    BY DEF ShapeIn, HeapOK, LevelsIn
  <2>2. \A a \in D : a[1] \in Nat
    BY <2>1 DEF Addr
  <2>3. R \in Nat
    BY Owners
  <2> QED
    BY <2>1, <2>2, <2>3
<1>3. \A n \in D : ~h[n].leaf => child(n) \in D /\ child(n)[1] = n[1] - 1
  BY ChildBelow
<1>4. here \in [D -> BOOLEAN] /\ \A n \in D : here[n] = (h[n].kv[k] # Absent)
  BY Zenon
<1> HIDE DEF lev, exists, child, here
<1>5. step \in [D -> [[D -> BOOLEAN] -> BOOLEAN]]
  <2> SUFFICES ASSUME NEW n \in D, NEW F \in [D -> BOOLEAN]
               PROVE (IF h[n].leaf THEN here[n] ELSE F[child(n)]) \in BOOLEAN
    BY Zenon
  <2>1. CASE h[n].leaf
    BY <1>4, <2>1, Zenon
  <2>2. CASE ~h[n].leaf
    BY <1>3, <2>2, Zenon
  <2> QED
    BY <2>1, <2>2
<1>6. \A n \in D, F \in [D -> BOOLEAN] :
        step[n][F] = IF h[n].leaf THEN here[n] ELSE F[child(n)]
  BY Zenon
<1> HIDE DEF step
<1>7. \A a \in D : \A F, G \in [D -> BOOLEAN] :
        (\A b \in D : lev[b] < lev[a] => F[b] = G[b]) => step[a][F] = step[a][G]
  <2> SUFFICES ASSUME NEW a \in D, NEW F \in [D -> BOOLEAN], NEW G \in [D -> BOOLEAN],
                      \A b \in D : lev[b] < lev[a] => F[b] = G[b]
               PROVE  step[a][F] = step[a][G]
    OBVIOUS
  <2>1. ~h[a].leaf => child(a) \in D /\ lev[child(a)] < lev[a]
    BY <1>2, <1>3
  <2> QED
    BY <1>6, <2>1, Zenon
<1>8. TRUE \in BOOLEAN
  OBVIOUS
<1>9. \E f \in [D -> BOOLEAN] : \A a \in D : f[a] = step[a][f]
  <2> DEFINE S == BOOLEAN
             s == TRUE
  <2>1. s \in S /\ step \in [D -> [[D -> S] -> S]]
    BY <1>5
  <2>2. \A a \in D : \A F, G \in [D -> S] :
          (\A b \in D : lev[b] < lev[a] => F[b] = G[b]) => step[a][F] = step[a][G]
    BY <1>7
  <2> HIDE DEF R, D, S, s
  <2>3. LevelStep(D, lev, R, S, step)
    BY <1>2, <2>1, <2>2 DEF LevelStep
  <2>4. \E f \in [D -> S] : \A a \in D : f[a] = step[a][f]
    BY <1>2, <2>1, <2>3, LevelRecursion, SMTT(20)
  <2> QED
    BY <2>4 DEF S
<1>10. PICK f \in [D -> BOOLEAN] : \A a \in D : f[a] = step[a][f]
  BY <1>9
<1>11. f = E(f)
  <2>1. \A n \in D : f[n] = IF h[n].leaf THEN h[n].kv[k] # Absent ELSE f[child(n)]
    BY <1>4, <1>6, <1>10, Zenon
  <2> QED
    BY <2>1, Zenon
<1>12. exists = E(exists)
  <2> HIDE DEF E
  <2> QED
    BY <1>11 DEF exists
<1>13. \A n \in D : exists[n] = IF h[n].leaf THEN h[n].kv[k] # Absent ELSE exists[child(n)]
  BY <1>12, Zenon
<1> DEFINE e == (EntryOf(h, k) # Absent)
           T == {l \in Nat : l <= R => exists[Owner(h, k, l)] = e}
<1>14. 0 \in T
  <2> DEFINE a == Owner(h, k, 0)
  <2>1. a \in D /\ h[a].leaf
    BY <1>2, Owners
  <2>2. e = (h[a].kv[k] # Absent)
    BY DEF EntryOf
  <2> HIDE DEF a, e
  <2>3. exists[a] = e
    BY <1>13, <2>1, <2>2, Zenon
  <2> QED
    BY <2>3 DEF a
<1>15. ASSUME NEW l \in Nat, l \in T PROVE l + 1 \in T
  <2> SUFFICES ASSUME l + 1 <= R PROVE exists[Owner(h, k, l + 1)] = e
    OBVIOUS
  <2> DEFINE j == l + 1
             a == Owner(h, k, j)
             b == Owner(h, k, l)
  <2>1. j \in 1..R /\ j \in 0..R /\ j # 0 /\ j - 1 = l /\ l <= R
    BY <1>2
  <2>2. a \in D /\ ~h[a].leaf /\ ChildFor(h[a], k) = b
    <3> HIDE DEF j
    <3> QED
      BY <2>1, Owners
  <2>3. exists[b] = e
    BY <1>15, <2>1
  <2> HIDE DEF a, b, j, e
  <2>4. exists[a] = exists[b]
    BY <1>13, <2>2, Zenon DEF child
  <2>5. exists[a] = e
    BY <2>3, <2>4
  <2> QED
    BY <2>5 DEF a, j
<1>16. R \in T
  <2> HIDE DEF T
  <2>1. Nat \subseteq T
    BY <1>14, <1>15, InductionOnNat
  <2> QED
    BY <1>2, <2>1
<1>17. Owner(h, k, R) = r
  BY Owners
<1>18. exists[r] = e
  BY <1>2, <1>16, <1>17
<1> QED
  BY <1>1, <1>18

(* Where no delete is buffered, a key with an entry is in the map. *)
LEMMA NoDeleteKeeps ==
  ASSUME NEW h, NEW r, ShapeIn(h, r), NEW k \in Key,
         \A l \in 1..r[1] : \A j \in 1..Len(MsgsAt(h, k, l)) : MsgsAt(h, k, l)[j] \notin DeleteMsgs,
         EntryOf(h, k) # Absent
  PROVE  Vals(h, r, k)[r[1]] # Absent
<1> DEFINE R == r[1]
           v == Vals(h, r, k)
           T == {l \in Nat : l <= R => v[l] # Absent}
<1>1. R \in Nat
  BY Owners
<1>2. /\ v \in [0..R -> Opt] /\ v[0] = EntryOf(h, k)
      /\ \A l \in 1..R : v[l] = After(MsgsAt(h, k, l), v[l-1])
  BY ValsProperties
<1>3. \A l \in 1..R : MsgsAt(h, k, l) \in Seq(Msg)
  BY PileTypes
<1> HIDE DEF v, R
<1>4. 0 \in T
  BY <1>2
<1>5. ASSUME NEW l \in Nat, l \in T PROVE l + 1 \in T
  <2> SUFFICES ASSUME l + 1 <= R PROVE v[l+1] # Absent
    OBVIOUS
  <2> DEFINE i == l + 1
             s == MsgsAt(h, k, i)
             x == v[l]
             n == Len(s)
  <2>1. i \in 1..R /\ i - 1 = l /\ l \in 0..R /\ l <= R
    BY <1>1
  <2>2. s \in Seq(Msg) /\ x \in Opt /\ x # Absent
    <3> HIDE DEF i
    <3> QED
      BY <1>2, <1>3, <1>5, <2>1
  <2>3. v[i] = After(s, x) /\ n \in Nat
    <3>1. v[i] = After(MsgsAt(h, k, i), v[i-1])
      <4> HIDE DEF i
      <4> QED
        BY <1>2, <2>1
    <3> QED
      BY <2>1, <2>2, <3>1, LenProperties
  <2>4. \A j \in 1..n : s[j] \notin DeleteMsgs
    <3> HIDE DEF i
    <3> QED
      BY <2>1 DEF R
  <2> HIDE DEF s, x, i
  <2>5. /\ Run(s, x) \in [0..n -> Opt] /\ Run(s, x)[0] = x
        /\ \A j \in 1..n : Run(s, x)[j] = Apply(s[j], Run(s, x)[j-1])
    BY <2>2, RunProperties
  <2>6. After(s, x) = Run(s, x)[n]
    BY DEF After
  <2> HIDE DEF n
  <2>7. CASE n = 0
    BY <2>2, <2>3, <2>5, <2>6, <2>7 DEF i
  <2>8. CASE n # 0
    <3>1. n \in 1..n /\ n - 1 \in 0..n
      BY <2>3, <2>8
    <3>2. s[n] \in Msg
      BY <2>2, <3>1, ElementOfSeq DEF n
    <3>3. s[n].kind # "del"
      BY <2>4, <3>1, <3>2 DEF DeleteMsgs
    <3>4. Run(s, x)[n-1] \in Opt /\ Run(s, x)[n] = Apply(s[n], Run(s, x)[n-1])
      BY <2>5, <3>1
    <3>5. Run(s, x)[n] # Absent
      BY <3>2, <3>3, <3>4, ApplyPresent
    <3> QED
      BY <2>3, <2>6, <3>5 DEF i
  <2> QED
    BY <2>7, <2>8
<1>6. R \in T
  <2> HIDE DEF T
  <2>1. Nat \subseteq T
    BY <1>4, <1>5, InductionOnNat
  <2> QED
    BY <1>1, <2>1
<1> QED
  BY <1>1, <1>6 DEF v, R

(***************************************************************************)
(* putLocked only takes a key for present that is: where it asks the leaf  *)
(* alone, pendingDeletes = 0 rules out a buffered delete (tree.go:130-139).*)
(***************************************************************************)
LEMMA NotNewIsPresent ==
  ASSUME Counters, NEW k \in Key, ~isNew(k)
  PROVE  map[k] # Absent
<1>1. ShapeIn(heap, root) /\ pendingDeletes = Pending(heap, root)
  BY DEF Counters, Shape, CountInv
<1>2. map[k] = getFromNode(k) /\ map[k] = Vals(heap, root, k)[root[1]]
  <2>1. map[k] = getFromNode(k)
    BY DEF map
  <2> QED
    BY <1>1, <2>1, MapIs, GetIsVal
<1>3. CASE pendingDeletes > 0
  BY <1>2, <1>3 DEF isNew
<1>4. CASE ~(pendingDeletes > 0)
  <2>1. EntryOf(heap, k) # Absent
    <3>1. existsInLeaf(k)
      BY <1>4 DEF isNew
    <3>2. ExistsIn(heap, root, k)
      BY <3>1, ExistsOfHeap
    <3> QED
      BY <1>1, <3>2, ExistsIsEntry
  <2>2. Pile(heap, root, DeleteMsgs) = {}
    <3>1. Pending(heap, root) \in Nat /\ IsFiniteSet(Pile(heap, root, DeleteMsgs))
      BY <1>1, CountTypes, PileIs
    <3>2. Pending(heap, root) = 0
      BY <1>1, <1>4, <3>1
    <3> QED
      BY <3>1, <3>2, FS_EmptySet DEF Pending
  <2>3. \A l \in 1..root[1] : \A j \in 1..Len(MsgsAt(heap, k, l)) :
          MsgsAt(heap, k, l)[j] \notin DeleteMsgs
    <3> SUFFICES ASSUME NEW l \in 1..root[1], NEW j \in 1..Len(MsgsAt(heap, k, l)),
                        MsgsAt(heap, k, l)[j] \in DeleteMsgs
                 PROVE  FALSE
      OBVIOUS
    <3>1. <<l, <<k, j>>>> \in Pile(heap, root, DeleteMsgs)
      BY <1>1, PileIs
    <3> QED
      BY <2>2, <3>1
  <2> QED
    BY <1>1, <1>2, <2>1, <2>3, NoDeleteKeeps
<1> QED
  BY <1>3, <1>4

-----------------------------------------------------------------------------
(* How far Len may be off. *)

(* Every buffered put that was not counted will find its key there. *)
PutsHit == \A k \in Key : Hits(heap, root, k, UncountedPuts)

(***************************************************************************)
(* A new tree has no buffered puts.                                        *)
(***************************************************************************)
LEMMA InitPutsHit ==
  Init => PutsHit
<1> SUFFICES ASSUME Init PROVE PutsHit
  OBVIOUS
<1>1. root[1] = 0 /\ 1..0 = {}
  BY DEF Init
<1> QED
  BY <1>1 DEF PutsHit, Hits

(***************************************************************************)
(* Every step keeps it that the puts that are not counted find their keys. *)
(***************************************************************************)
LEMMA NextPutsHit ==
  ASSUME Counters, PutsHit, IInv', ShapeIn(heap', root'), [Next]_vars
  PROVE  \A k \in Key : Hits(heap', root', k, UncountedPuts)
<1>1. \A K, m, d, y : Announced(K, m, d, y) /\ m \in UncountedPuts => \E k : K = {k} /\ ~isNew(k)
  BY DEF Announced, DeleteMsgs, CountedPuts, UncountedPuts, UpsertMsgs
<1> SUFFICES ASSUME NEW k \in Key PROVE Hits(heap', root', k, UncountedPuts)
  OBVIOUS
<1> DEFINE M == UncountedPuts
<1>2. Hits(heap, root, k, M)
  BY DEF PutsHit
<1>3. \A K, m, d, y : Announced(K, m, d, y) /\ m \in M /\ k \in K => map[k] # Absent
  <2>1. ~isNew(k) => map[k] # Absent
    BY NotNewIsPresent
  <2> QED
    BY <1>1, <2>1
<1>4. IInv /\ Shape
  BY DEF Counters
<1> HIDE DEF M
<1>5. Hits(heap', root', k, M)
  BY <1>2, <1>3, <1>4, StepHits
<1> QED
  BY <1>5 DEF M

(* The sets F[1], F[2], ... side by side. *)
Family(F, n) == UNION {{i} \X F[i] : i \in 1..n}

(* One more adds its size. *)
LEMMA FamilyGrows ==
  ASSUME NEW n \in Nat, NEW F, \A i \in 1..n+1 : IsFiniteSet(F[i])
  PROVE  /\ IsFiniteSet(Family(F, n)) /\ IsFiniteSet(Family(F, n + 1))
         /\ Cardinality(Family(F, n)) \in Nat /\ Cardinality(F[n+1]) \in Nat
         /\ Cardinality(Family(F, n + 1)) = Cardinality(Family(F, n)) + Cardinality(F[n+1])
<1> DEFINE A == Family(F, n)
           B == {n + 1} \X F[n+1]
           C == Family(F, n + 1)
           I == 1..n
           J == 1..n+1
<1>1. J = I \cup {n + 1} /\ n + 1 \notin I /\ n + 1 \in J /\ I \subseteq J
  OBVIOUS
<1>2. IsFiniteSet(I) /\ \A i \in I : IsFiniteSet(F[i])
  BY <1>1, FS_Interval
<1>3. A = UNION {{i} \X F[i] : i \in I} /\ C = UNION {{i} \X F[i] : i \in J}
  BY DEF Family
<1> HIDE DEF I, J
<1>4. IsFiniteSet(A)
  BY <1>2, <1>3, FamilyFinite
<1>5. IsFiniteSet(F[n+1])
  BY <1>1 DEF J
<1>6. IsFiniteSet(B) /\ Cardinality(B) = Cardinality(F[n+1])
  BY <1>5, PairedSize
<1>7. C = A \cup B
  BY <1>1, <1>3
<1>8. A \cap B = {}
  <2>1. \A x \in A : x[1] \in I
    BY <1>3
  <2>2. \A x \in B : x[1] = n + 1
    OBVIOUS
  <2> HIDE DEF A, B
  <2> QED
    BY <1>1, <2>1, <2>2
<1> HIDE DEF A, B, C
<1>9. /\ IsFiniteSet(A \cup B) /\ Cardinality(A) \in Nat
      /\ Cardinality(A \cup B) = Cardinality(A) + Cardinality(B)
  BY <1>4, <1>6, <1>8, DisjointSizes
<1> QED
  BY <1>4, <1>5, <1>6, <1>7, <1>9, FS_CardinalityType DEF A, C

(* The values on level l, and the messages that find nothing. *)
ValsAt(h, r, l) == [k \in Key |-> Vals(h, r, k)[l]]
FreshAt(h, r) == [l \in 1..r[1] |-> FreshSlots(ValsAt(h, r, l - 1), LevelBuf(h, l))]
FreshPile(h, r) == Family(FreshAt(h, r), r[1])

(***************************************************************************)
(* Level by level, what the batches do to the number of keys: the entries  *)
(* and the buffered messages that will find nothing are as many as the     *)
(* keys of the map and the buffered deletes.                               *)
(***************************************************************************)
LEMMA LevelsBalance ==
  ASSUME NEW h, NEW r, ShapeIn(h, r)
  PROVE  /\ Cardinality(FreshPile(h, r)) \in Nat /\ IsFiniteSet(FreshPile(h, r))
         /\ Cardinality(Present(ValsAt(h, r, r[1]))) \in Nat
         /\ Entries(h) + Cardinality(FreshPile(h, r))
              = Cardinality(Present(ValsAt(h, r, r[1]))) + Pending(h, r)
<1> DEFINE R == r[1]
           F == FreshAt(h, r)
           D == [l \in 1..R |-> Sel(LevelBuf(h, l), DeleteMsgs)]
           v == [l \in 0..R |-> ValsAt(h, r, l)]
           B == [l \in 1..R |-> LevelBuf(h, l)]
           c(l) == Cardinality(Present(v[l]))
           T == {n \in Nat : n <= R =>
                   /\ IsFiniteSet(Family(F, n)) /\ IsFiniteSet(Family(D, n))
                   /\ c(0) + Cardinality(Family(F, n)) = c(n) + Cardinality(Family(D, n))}
<1>0. R \in Nat
  BY DEF ShapeIn, LevelsIn, HeapOK, Addr
<1>1. \A l \in 0..R : v[l] \in [Key -> Opt] /\ \A k \in Key : v[l][k] = Vals(h, r, k)[l]
  <2> SUFFICES ASSUME NEW l \in 0..R
               PROVE  v[l] \in [Key -> Opt] /\ \A k \in Key : v[l][k] = Vals(h, r, k)[l]
    OBVIOUS
  <2>1. v[l] = [k \in Key |-> Vals(h, r, k)[l]]
    BY DEF ValsAt
  <2>2. \A k \in Key : Vals(h, r, k) \in [0..R -> Opt]
    BY ValsProperties
  <2>3. \A k \in Key : Vals(h, r, k)[l] \in Opt
    BY <2>2
  <2> HIDE DEF v
  <2> QED
    BY <2>1, <2>3
<1>2. \A l \in 1..R : B[l] \in [Key -> Seq(Msg)] /\ \A k \in Key : B[l][k] = MsgsAt(h, k, l)
  BY PileTypes DEF LevelBuf
<1>3. \A l \in 1..R : D[l] = Deletes(B[l]) /\ F[l] = FreshSlots(v[l-1], B[l])
  <2> SUFFICES ASSUME NEW l \in 1..R
               PROVE  D[l] = Deletes(B[l]) /\ F[l] = FreshSlots(v[l-1], B[l])
    OBVIOUS
  <2>1. l - 1 \in 0..R
    BY <1>0
  <2>2. v[l-1] = ValsAt(h, r, l - 1) /\ B[l] = LevelBuf(h, l)
    BY <2>1
  <2>3. Deletes(B[l]) = Sel(B[l], DeleteMsgs)
    BY <1>2, Kinds
  <2> QED
    BY <2>2, <2>3 DEF FreshAt
<1>4. \A l \in 1..R : \A k \in Key : v[l][k] = After(B[l][k], v[l-1][k])
  <2> SUFFICES ASSUME NEW l \in 1..R, NEW k \in Key PROVE v[l][k] = After(B[l][k], v[l-1][k])
    OBVIOUS
  <2>1. l - 1 \in 0..R /\ l \in 0..R
    BY <1>0
  <2>2. Vals(h, r, k)[l] = After(MsgsAt(h, k, l), Vals(h, r, k)[l-1])
    BY ValsProperties
  <2> QED
    BY <1>1, <1>2, <2>1, <2>2
<1>5. \A k \in Key : Vals(h, r, k)[0] = EntryOf(h, k)
  BY ValsProperties
<1>6. Entries(h) = c(0)
  <2>1. \A k \in Key : v[0][k] = EntriesIn(h)[k]
    BY <1>0, <1>1, <1>5, SMTT(20) DEF EntriesIn
  <2> QED
    BY <2>1 DEF Present, Entries
<1>7. Pending(h, r) = Cardinality(Family(D, R))
  BY DEF Pending, Pile, Family
<1>8. v[R] = ValsAt(h, r, R)
  BY <1>0
<1> HIDE DEF F, D, v, B, R
<1>9. ASSUME NEW l \in 1..R
      PROVE  /\ IsFiniteSet(F[l]) /\ IsFiniteSet(D[l])
             /\ c(l-1) \in Nat /\ c(l) \in Nat
             /\ c(l-1) + Cardinality(F[l]) = c(l) + Cardinality(D[l])
  <2> DEFINE x == v[l-1]
             y == v[l]
             b == B[l]
  <2>1. l - 1 \in 0..R
    BY <1>0
  <2>2. x \in [Key -> Opt] /\ b \in [Key -> Seq(Msg)] /\ \A k \in Key : y[k] = After(b[k], x[k])
    BY <1>1, <1>2, <1>4, <2>1
  <2> HIDE DEF x, y, b
  <2>3. /\ IsFiniteSet(Present(x)) /\ IsFiniteSet(Present(y))
        /\ IsFiniteSet(FreshSlots(x, b)) /\ IsFiniteSet(Deletes(b))
        /\ Cardinality(Present(x)) + Cardinality(FreshSlots(x, b))
             = Cardinality(Present(y)) + Cardinality(Deletes(b))
    BY <2>2, Balance
  <2> QED
    BY <1>3, <2>3, FS_CardinalityType DEF x, y, b
<1>10. \A l \in 0..R : c(l) \in Nat
  <2> SUFFICES ASSUME NEW l \in 0..R PROVE c(l) \in Nat
    OBVIOUS
  <2>1. Present(v[l]) \subseteq Key /\ IsFiniteSet(Key)
    BY ConstantsAssumption DEF Present
  <2> QED
    BY <2>1, FS_Subset, FS_CardinalityType
<1> HIDE DEF c
<1>11. 0 \in T
  <2>1. 1..0 = {}
    OBVIOUS
  <2>2. Family(F, 0) = {} /\ Family(D, 0) = {}
    BY <2>1 DEF Family
  <2> QED
    BY <2>2, FS_EmptySet
<1>12. ASSUME NEW n \in Nat, n \in T PROVE n + 1 \in T
  <2> SUFFICES ASSUME n + 1 <= R
               PROVE  /\ IsFiniteSet(Family(F, n + 1)) /\ IsFiniteSet(Family(D, n + 1))
                      /\ c(0) + Cardinality(Family(F, n + 1))
                           = c(n + 1) + Cardinality(Family(D, n + 1))
    OBVIOUS
  <2>1. n <= R /\ n + 1 \in 1..R /\ (n + 1) - 1 = n /\ n \in 0..R /\ 0 \in 0..R
        /\ \A i \in 1..n+1 : i \in 1..R
    BY <1>0
  <2>2. c(0) + Cardinality(Family(F, n)) = c(n) + Cardinality(Family(D, n))
    BY <1>12, <2>1
  <2>3. /\ IsFiniteSet(Family(F, n + 1)) /\ Cardinality(Family(F, n)) \in Nat
        /\ Cardinality(F[n+1]) \in Nat
        /\ Cardinality(Family(F, n + 1)) = Cardinality(Family(F, n)) + Cardinality(F[n+1])
    <3>1. \A i \in 1..n+1 : IsFiniteSet(F[i])
      BY <1>9, <2>1
    <3> QED
      BY <3>1, FamilyGrows
  <2>4. /\ IsFiniteSet(Family(D, n + 1)) /\ Cardinality(Family(D, n)) \in Nat
        /\ Cardinality(D[n+1]) \in Nat
        /\ Cardinality(Family(D, n + 1)) = Cardinality(Family(D, n)) + Cardinality(D[n+1])
    <3>1. \A i \in 1..n+1 : IsFiniteSet(D[i])
      BY <1>9, <2>1
    <3> QED
      BY <3>1, FamilyGrows
  <2>5. c(n) + Cardinality(F[n+1]) = c(n+1) + Cardinality(D[n+1])
    <3> DEFINE l == n + 1
    <3>1. l \in 1..R /\ l - 1 = n
      BY <2>1
    <3> HIDE DEF l
    <3>2. c(l-1) + Cardinality(F[l]) = c(l) + Cardinality(D[l])
      BY <1>9, <3>1
    <3>3. c(n) + Cardinality(F[l]) = c(l) + Cardinality(D[l])
      BY <3>1, <3>2
    <3> QED
      BY <3>3 DEF l
  <2>6. c(0) \in Nat /\ c(n) \in Nat /\ c(n+1) \in Nat
    <3>1. n + 1 \in 0..R
      BY <2>1
    <3> QED
      BY <1>10, <2>1, <3>1
  <2> DEFINE a1 == Cardinality(Family(F, n))
             a2 == Cardinality(F[n+1])
             b1 == Cardinality(Family(D, n))
             b2 == Cardinality(D[n+1])
             c0 == c(0)
             c1 == c(n)
             c2 == c(n+1)
  <2>7. /\ c0 + a1 = c1 + b1 /\ c1 + a2 = c2 + b2
        /\ a1 \in Nat /\ a2 \in Nat /\ b1 \in Nat /\ b2 \in Nat
        /\ c0 \in Nat /\ c1 \in Nat /\ c2 \in Nat
    BY <2>2, <2>3, <2>4, <2>5, <2>6
  <2> HIDE DEF a1, a2, b1, b2, c0, c1, c2
  <2>8. c0 + (a1 + a2) = c2 + (b1 + b2)
    BY <2>7
  <2>9. c(0) + Cardinality(Family(F, n + 1)) = c(n + 1) + Cardinality(Family(D, n + 1))
    BY <2>3, <2>4, <2>8 DEF a1, a2, b1, b2, c0, c2
  <2> QED
    BY <2>3, <2>4, <2>9
<1>13. R \in T
  <2> HIDE DEF T
  <2>1. Nat \subseteq T
    BY <1>11, <1>12, InductionOnNat
  <2> QED
    BY <1>0, <2>1
<1>14. /\ IsFiniteSet(Family(F, R))
       /\ c(0) + Cardinality(Family(F, R)) = c(R) + Cardinality(Family(D, R))
  BY <1>0, <1>13
<1>15. Cardinality(Family(F, R)) \in Nat /\ c(R) \in Nat
  BY <1>0, <1>10, <1>14, FS_CardinalityType
<1>16. FreshPile(h, r) = Family(F, R) /\ c(R) = Cardinality(Present(ValsAt(h, r, R)))
  BY <1>8 DEF FreshPile, F, R, c
<1>17. /\ Cardinality(FreshPile(h, r)) \in Nat /\ IsFiniteSet(FreshPile(h, r))
       /\ Cardinality(Present(ValsAt(h, r, R))) \in Nat
       /\ Entries(h) + Cardinality(FreshPile(h, r))
            = Cardinality(Present(ValsAt(h, r, R))) + Pending(h, r)
  BY <1>6, <1>7, <1>14, <1>15, <1>16
<1> QED
  BY <1>17 DEF R

(* A message that finds nothing is a counted put or an upsert. *)
LEMMA FreshKinds ==
  ASSUME IInv, Shape, HitsInv, PutsHit
  PROVE  FreshPile(heap, root) \subseteq
           Pile(heap, root, CountedPuts) \cup Pile(heap, root, UpsertMsgs)
<1>1. ShapeIn(heap, root)
  BY DEF Shape
<1>2. root[1] \in Nat
  BY <1>1 DEF ShapeIn, LevelsIn, HeapOK, Addr
<1> SUFFICES ASSUME NEW x \in FreshPile(heap, root)
             PROVE  x \in Pile(heap, root, CountedPuts) \/ x \in Pile(heap, root, UpsertMsgs)
  OBVIOUS
<1> DEFINE l == x[1]
           s == x[2]
           k == s[1]
           j == s[2]
           b == LevelBuf(heap, l)
           m == b[k][j]
<1>3. l \in 1..root[1] /\ x = <<l, s>> /\ s \in FreshSlots(ValsAt(heap, root, l - 1), b)
  <2> DEFINE F == FreshAt(heap, root)
  <2>1. \E i \in 1..root[1] : x \in {i} \X F[i]
    BY DEF FreshPile, Family
  <2>2. PICK i \in 1..root[1] : x \in {i} \X F[i]
    BY <2>1
  <2>3. F[i] = FreshSlots(ValsAt(heap, root, i - 1), LevelBuf(heap, i))
    BY DEF FreshAt
  <2> HIDE DEF F
  <2>4. x = <<x[1], x[2]>> /\ x[1] = i /\ x[2] \in F[i]
    BY <2>2
  <2> QED
    BY <2>3, <2>4
<1>4. b \in [Key -> Seq(Msg)] /\ \A i \in Key : b[i] = MsgsAt(heap, i, l)
  BY <1>1, <1>3, PileTypes DEF LevelBuf
<1> HIDE DEF l, b
<1>5. s \in Slots(b) /\ Fresh(ValsAt(heap, root, l - 1), b, s)
  BY <1>3 DEF FreshSlots
<1> HIDE DEF s
<1>6. s = <<k, j>> /\ k \in Key /\ j \in 1..Len(b[k])
  BY <1>4, <1>5, SlotIs
<1>7. Run(b[k], ValsAt(heap, root, l - 1)[k])[j - 1] = Absent
  BY <1>5 DEF Fresh
<1> HIDE DEF k, j
<1>8. Run(MsgsAt(heap, k, l), Vals(heap, root, k)[l-1])[j-1] = Absent
  BY <1>4, <1>6, <1>7 DEF ValsAt
<1>9. b[k] = MsgsAt(heap, k, l)
  BY <1>4, <1>6
<1>10. m \in Msg
  <2>1. b[k] \in Seq(Msg)
    BY <1>4, <1>6
  <2> QED
    BY <1>6, <2>1, ElementOfSeq
<1>11. m \notin DeleteMsgs /\ m \notin UncountedPuts
  BY <1>3, <1>6, <1>8, <1>9 DEF HitsInv, PutsHit, Hits
<1>12. m \in CountedPuts \/ m \in UpsertMsgs
  <2>1. m.kind \in {"put", "del", "ups"}
    BY <1>10 DEF Msg
  <2> QED
    BY <1>10, <1>11, <2>1 DEF DeleteMsgs, UncountedPuts, CountedPuts, UpsertMsgs
<1>13. x = <<l, <<k, j>>>>
  BY <1>3, <1>6
<1>14. \A M : MsgsAt(heap, k, l)[j] \in M => <<l, <<k, j>>>> \in Pile(heap, root, M)
  BY <1>1, <1>3, <1>6, <1>9, PileIs
<1> QED
  BY <1>9, <1>12, <1>13, <1>14

(***************************************************************************)
(* Len is off by no more than what is still buffered (tree.go:271): it is  *)
(* at most the counted puts too large and at most the upserts too small.   *)
(***************************************************************************)
THEOREM LenBounded == Spec => []LenWithinBuffered
<1> DEFINE J == Counters /\ PutsHit
<1>1. Init => J
  BY InitCounters, InitPutsHit
<1>2. J /\ [Next]_vars => J'
  <2> SUFFICES ASSUME Counters, PutsHit, [Next]_vars PROVE (Counters /\ PutsHit)'
    OBVIOUS
  <2>1. Counters'
    BY NextCounters
  <2>2. IInv' /\ ShapeIn(heap', root')
    BY <2>1 DEF Counters, Shape
  <2>3. \A k \in Key : Hits(heap', root', k, UncountedPuts)
    BY <2>2, NextPutsHit
  <2> QED
    BY <2>1, <2>3 DEF PutsHit
<1>3. J => LenWithinBuffered
  <2> SUFFICES ASSUME Counters, PutsHit PROVE LenWithinBuffered
    OBVIOUS
  <2> DEFINE x == Cardinality(FreshPile(heap, root))
             e == Entries(heap)
             p == Pending(heap, root)
             a == Advance(heap, root)
             u == Cardinality(Pile(heap, root, UpsertMsgs))
             n == Cardinality(Live)
             A == Pile(heap, root, CountedPuts)
             U == Pile(heap, root, UpsertMsgs)
  <2>1. IInv /\ Shape /\ HitsInv /\ ShapeIn(heap, root) /\ size = e + a - p
    BY DEF Counters, CountInv, Shape
  <2>2. Live = Present(ValsAt(heap, root, root[1]))
    <3>1. \A k \in Key : getFromNode(k) = Vals(heap, root, k)[root[1]]
      BY <2>1, GetOfHeap, GetIsVal
    <3> QED
      BY <3>1 DEF Live, Present, ValsAt
  <2>3. x \in Nat /\ n \in Nat /\ e + x = n + p
    BY <2>1, <2>2, LevelsBalance
  <2>4. IsFiniteSet(A) /\ IsFiniteSet(U) /\ e \in Nat /\ p \in Nat /\ a \in Nat
    BY <2>1, PileIs, CountTypes
  <2>5. u \in Nat /\ x <= a + u
    <3>1. FreshPile(heap, root) \subseteq A \cup U
      BY <2>1, FreshKinds
    <3> HIDE DEF A, U
    <3>2. /\ IsFiniteSet(A \cup U) /\ Cardinality(A \cap U) \in Nat
          /\ Cardinality(A) \in Nat /\ Cardinality(U) \in Nat
          /\ Cardinality(A \cup U) = Cardinality(A) + Cardinality(U) - Cardinality(A \cap U)
      BY <2>4, FS_Union, FS_Intersection, FS_CardinalityType
    <3>3. x <= Cardinality(A \cup U)
      BY <3>1, <3>2, FS_Subset
    <3>4. Cardinality(A) = a /\ Cardinality(U) = u
      BY DEF A, U, Advance
    <3> HIDE DEF x, a, u
    <3> QED
      BY <2>3, <3>2, <3>3, <3>4
  <2>6. Cardinality(Buffered(Upserts)) = u /\ Cardinality(Buffered(Counted)) = a
    BY <2>1, CountsOfHeap
  <2>7. n - u <= size /\ size <= n + a
    <3> HIDE DEF x, e, p, a, u, n
    <3> QED
      BY <2>1, <2>3, <2>4, <2>5
  <2> QED
    BY <2>6, <2>7 DEF LenWithinBuffered
<1> QED
  <2> HIDE DEF J
  <2> QED
    BY <1>1, <1>2, <1>3, PTL DEF Spec
=============================================================================
