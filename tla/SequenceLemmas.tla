--------------------------- MODULE SequenceLemmas ----------------------------
(***************************************************************************)
(* What the proofs use of sequences: queues and logs, which grow at the end *)
(* and shrink in front, and the order in which conversations were last      *)
(* updated, kept as a sequence without duplicates, where what is updated    *)
(* moves to the end and what is deleted is taken out (sqlite.go:116-131,    *)
(* 171-176, 465-482).                                                       *)
(***************************************************************************)
EXTENDS Integers, Sequences, SequencesExt, FiniteSetTheorems, SequenceTheorems,
        TLAPS

(* What Append does. *)
LEMMA OneMore ==
  ASSUME NEW S, NEW s \in Seq(S), NEW e \in S
  PROVE  /\ Append(s, e) \in Seq(S)
         /\ Len(s) \in Nat /\ Len(Append(s, e)) = Len(s) + 1
         /\ DOMAIN s = 1 .. Len(s) /\ DOMAIN Append(s, e) = 1 .. Len(s) + 1
         /\ \A i \in 1 .. Len(s) : Append(s, e)[i] = s[i]
         /\ Append(s, e)[Len(s) + 1] = e
         /\ Append(s, e) # << >>
  OBVIOUS

(* What Head and Tail leave, and the elements of sequences.                 *)
LEMMA OneLess ==
  ASSUME NEW S, NEW s \in Seq(S), s # << >>
  PROVE  /\ Head(s) \in S /\ Tail(s) \in Seq(S) /\ Len(s) \in Nat \ {0}
         /\ Head(s) = s[1] /\ Len(Tail(s)) = Len(s) - 1
         /\ DOMAIN s = 1 .. Len(s) /\ DOMAIN Tail(s) = 1 .. Len(s) - 1
         /\ \A i \in 1 .. Len(s) - 1 : Tail(s)[i] = s[i + 1]
  OBVIOUS

LEMMA ElementsKnown ==
  ASSUME NEW S
  PROVE  /\ ToSet(<< >>) = {}
         /\ \A s \in Seq(S), e \in S : ToSet(Append(s, e)) = ToSet(s) \union {e}
         /\ \A s \in Seq(S) : s # << >> =>
              ToSet(s) = {Head(s)} \union ToSet(Tail(s))
         /\ \A s \in Seq(S) : ToSet(s) \subseteq S
<1>1. ToSet(<< >>) = {}
  BY DEF ToSet
<1>2. ASSUME NEW s \in Seq(S), NEW e \in S
      PROVE  ToSet(Append(s, e)) = ToSet(s) \union {e}
  <2>1. /\ DOMAIN s = 1 .. Len(s) /\ DOMAIN Append(s, e) = 1 .. Len(s) + 1
        /\ Len(s) \in Nat
        /\ \A i \in 1 .. Len(s) : Append(s, e)[i] = s[i]
        /\ Append(s, e)[Len(s) + 1] = e
    BY OneMore
  <2>2. ASSUME NEW x \in ToSet(Append(s, e)) PROVE x \in ToSet(s) \union {e}
    <3>1. PICK i \in 1 .. Len(s) + 1 : x = Append(s, e)[i]
      BY <2>1 DEF ToSet
    <3>2. CASE i \in 1 .. Len(s)
      BY <2>1, <3>1, <3>2 DEF ToSet
    <3>3. CASE i = Len(s) + 1
      BY <2>1, <3>1, <3>3
    <3> QED
      BY <2>1, <3>2, <3>3
  <2>3. ASSUME NEW x \in ToSet(s) \union {e} PROVE x \in ToSet(Append(s, e))
    <3>1. CASE x = e
      <4>1. Len(s) + 1 \in DOMAIN Append(s, e)
        BY <2>1
      <4> QED
        BY <2>1, <3>1, <4>1 DEF ToSet
    <3>2. CASE x \in ToSet(s)
      <4>1. PICK i \in 1 .. Len(s) : x = s[i]
        BY <2>1, <3>2 DEF ToSet
      <4>2. i \in DOMAIN Append(s, e) /\ x = Append(s, e)[i]
        BY <2>1, <4>1
      <4> QED
        BY <4>2 DEF ToSet
    <3> QED
      BY <2>3, <3>1, <3>2
  <2> QED
    BY <2>2, <2>3
<1>3. ASSUME NEW s \in Seq(S), s # << >>
      PROVE  ToSet(s) = {Head(s)} \union ToSet(Tail(s))
  <2>1. /\ Len(s) \in Nat \ {0} /\ Head(s) = s[1]
        /\ DOMAIN s = 1 .. Len(s) /\ DOMAIN Tail(s) = 1 .. Len(s) - 1
        /\ \A i \in 1 .. Len(s) - 1 : Tail(s)[i] = s[i + 1]
    BY <1>3, OneLess
  <2>2. ASSUME NEW x \in ToSet(s) PROVE x \in {Head(s)} \union ToSet(Tail(s))
    <3>1. PICK i \in 1 .. Len(s) : x = s[i]
      BY <2>1 DEF ToSet
    <3>2. CASE i = 1
      BY <2>1, <3>1, <3>2
    <3>3. CASE i # 1
      <4>1. i - 1 \in 1 .. Len(s) - 1 /\ (i - 1) + 1 = i
        BY <2>1, <3>3
      <4>2. Tail(s)[i - 1] = x
        BY <2>1, <3>1, <4>1
      <4> QED
        BY <2>1, <4>1, <4>2 DEF ToSet
    <3> QED
      BY <3>2, <3>3
  <2>3. ASSUME NEW x \in {Head(s)} \union ToSet(Tail(s)) PROVE x \in ToSet(s)
    <3>1. CASE x = Head(s)
      <4>1. 1 \in DOMAIN s
        BY <2>1
      <4> QED
        BY <2>1, <3>1, <4>1 DEF ToSet
    <3>2. CASE x \in ToSet(Tail(s))
      <4>1. PICK i \in 1 .. Len(s) - 1 : x = Tail(s)[i]
        BY <2>1, <3>2 DEF ToSet
      <4>2. i + 1 \in DOMAIN s /\ x = s[i + 1]
        BY <2>1, <4>1
      <4> QED
        BY <4>2 DEF ToSet
    <3> QED
      BY <2>3, <3>1, <3>2
  <2> QED
    BY <2>2, <2>3
<1>4. ASSUME NEW s \in Seq(S) PROVE ToSet(s) \subseteq S
  BY DEF ToSet
<1> QED
  BY <1>1, <1>2, <1>3, <1>4

-----------------------------------------------------------------------------
(* A sequence over some conversations is one over more of them. *)
LEMMA Among ==
  ASSUME NEW S, NEW T, S \subseteq T, NEW s \in Seq(S)
  PROVE  s \in Seq(T)
<1>1. \A i \in 1 .. Len(s) : s[i] \in T
  OBVIOUS
<1>2. /\ Len(s) \in Nat /\ DOMAIN s = 1 .. Len(s)
      /\ s = [i \in 1 .. Len(s) |-> s[i]]
  OBVIOUS
<1>3. s \in [1 .. Len(s) -> T]
  BY <1>1, <1>2
<1> QED
  BY <1>2, <1>3

(* Taking an element out of a sequence without duplicates. *)
LEMMA Removed ==
  ASSUME NEW S, NEW s \in Seq(S), NEW c,
         \A i, k \in 1 .. Len(s) : s[i] = s[k] => i = k
  PROVE  /\ RemoveFirst(s, c) \in Seq(S)
         /\ \A i, k \in 1 .. Len(RemoveFirst(s, c)) :
              RemoveFirst(s, c)[i] = RemoveFirst(s, c)[k] => i = k
         /\ \A i \in 1 .. Len(RemoveFirst(s, c)) :
              RemoveFirst(s, c)[i] # c /\ RemoveFirst(s, c)[i] \in ToSet(s)
         /\ \A x \in ToSet(s) \ {c} : x \in ToSet(RemoveFirst(s, c))
<1> DEFINE r == RemoveFirst(s, c)
<1>1. CASE \A i \in 1 .. Len(s) : s[i] # c
  <2>1. r = s
    BY <1>1 DEF RemoveFirst
  <2> HIDE DEF r
  <2> QED
    BY <1>1, <2>1 DEF ToSet, r
<1>2. CASE \E i \in 1 .. Len(s) : s[i] = c
  <2>1. PICK j \in 1 .. Len(s) : s[j] = c
    BY <1>2
  <2>2. r = SubSeq(s, 1, j - 1) \o SubSeq(s, j + 1, Len(s))
    <3>1. {i \in 1 .. Len(s) : s[i] = c} = {j}
      BY <2>1
    <3>2. Min({j}) = j
      BY DEF Min
    <3>3. r = RemoveAt(s, j)
      BY <1>2, <3>1, <3>2 DEF RemoveFirst, SelectInSeq
    <3> QED
      BY <3>3 DEF RemoveAt
  <2>3. /\ r \in Seq(S) /\ Len(r) = Len(s) - 1
        /\ \A i \in 1 .. Len(r) : r[i] = IF i < j THEN s[i] ELSE s[i + 1]
    <3>1. /\ SubSeq(s, 1, j - 1) \in Seq(S) /\ Len(SubSeq(s, 1, j - 1)) = j - 1
          /\ \A i \in 1 .. j - 1 : SubSeq(s, 1, j - 1)[i] = s[i]
      BY <2>1
    <3>2. /\ SubSeq(s, j + 1, Len(s)) \in Seq(S)
          /\ Len(SubSeq(s, j + 1, Len(s))) = Len(s) - j
          /\ \A i \in 1 .. Len(s) - j : SubSeq(s, j + 1, Len(s))[i] = s[i + j]
      BY <2>1
    <3> DEFINE a == SubSeq(s, 1, j - 1)
               b == SubSeq(s, j + 1, Len(s))
    <3> HIDE DEF r, a, b
    <3>3. r = a \o b
      BY <2>2 DEF a, b
    <3>4. /\ a \in Seq(S) /\ Len(a) = j - 1
          /\ b \in Seq(S) /\ Len(b) = Len(s) - j
      BY <3>1, <3>2 DEF a, b
    <3>5. r \in Seq(S) /\ Len(r) = Len(s) - 1
      <4>1. a \in Seq(S) /\ b \in Seq(S)
        BY <3>4
      <4>2. a \o b \in Seq(S)
        BY <4>1, ConcatProperties
      <4>3. Len(a \o b) = Len(a) + Len(b)
        BY <4>1
      <4> QED
        BY <2>1, <3>3, <3>4, <4>2, <4>3
    <3>6. ASSUME NEW i \in 1 .. Len(r), i < j
          PROVE  r[i] = s[i]
      <4>1. i \in 1 .. j - 1
        BY <2>1, <3>5, <3>6
      <4>2. r[i] = a[i]
        BY <2>1, <3>3, <3>4, <3>5, <4>1
      <4> QED
        BY <3>1, <4>1, <4>2 DEF a
    <3>7. ASSUME NEW i \in 1 .. Len(r), ~(i < j)
          PROVE  r[i] = s[i + 1]
      <4>1. i - j + 1 \in 1 .. Len(s) - j /\ (i - j + 1) + j = i + 1
        BY <2>1, <3>5, <3>7
      <4>2. r[i] = b[i - j + 1]
        BY <2>1, <3>3, <3>4, <3>5, <3>7, <4>1
      <4>3. b[i - j + 1] = s[(i - j + 1) + j]
        BY <3>2, <4>1 DEF b
      <4> QED
        BY <4>1, <4>2, <4>3
    <3> QED
      BY <3>5, <3>6, <3>7
  <2> HIDE DEF r
  <2>4. \A i, k \in 1 .. Len(r) : r[i] = r[k] => i = k
    BY <2>3, SMTT(30)
  <2>5. \A i \in 1 .. Len(r) : r[i] # c /\ r[i] \in ToSet(s)
    BY <2>1, <2>3, SMTT(30) DEF ToSet
  <2>6. \A x \in ToSet(s) \ {c} : x \in ToSet(r)
    <3> TAKE x \in ToSet(s) \ {c}
    <3>1. PICK i \in 1 .. Len(s) : s[i] = x
      BY DEF ToSet
    <3>2. CASE i < j
      BY <2>1, <2>3, <3>1, <3>2 DEF ToSet
    <3>3. CASE i > j
      <4>1. i - 1 \in 1 .. Len(r) /\ ~(i - 1 < j) /\ (i - 1) + 1 = i
        BY <2>1, <2>3, <3>1, <3>3
      <4>2. r[i - 1] = x
        BY <2>3, <3>1, <4>1
      <4> QED
        BY <2>3, <4>1, <4>2 DEF ToSet
    <3>4. i # j
      BY <2>1, <3>1
    <3> QED
      BY <2>1, <3>1, <3>2, <3>3, <3>4
  <2> QED
    BY <2>3, <2>4, <2>5, <2>6 DEF r
<1> QED
  BY <1>1, <1>2

(* What is deleted leaves the order, and nothing else does.  *)
LEMMA TakenOut ==
  ASSUME NEW S, NEW s \in Seq(S), IsInjective(s), NEW c
  PROVE  /\ RemoveFirst(s, c) \in Seq(S) /\ IsInjective(RemoveFirst(s, c))
         /\ ToSet(RemoveFirst(s, c)) = ToSet(s) \ {c}
<1> DEFINE r == RemoveFirst(s, c)
<1>1. DOMAIN s = 1 .. Len(s)
  OBVIOUS
<1>2. \A i, k \in 1 .. Len(s) : s[i] = s[k] => i = k
  BY <1>1 DEF IsInjective
<1>3. /\ r \in Seq(S)
      /\ \A i, k \in 1 .. Len(r) : r[i] = r[k] => i = k
      /\ \A i \in 1 .. Len(r) : r[i] # c /\ r[i] \in ToSet(s)
      /\ \A x \in ToSet(s) \ {c} : x \in ToSet(r)
  BY <1>2, Removed
<1> HIDE DEF r
<1>4. DOMAIN r = 1 .. Len(r)
  BY <1>3
<1>5. IsInjective(r)
  BY <1>3, <1>4 DEF IsInjective
<1>6. ASSUME NEW x \in ToSet(r)
      PROVE  x \in ToSet(s) \ {c}
  <2>1. PICK i \in DOMAIN r : r[i] = x
    BY DEF ToSet
  <2> QED
    BY <1>3, <1>4, <2>1
<1>7. ToSet(r) = ToSet(s) \ {c}
  BY <1>3, <1>6
<1> QED
  BY <1>3, <1>5, <1>7 DEF r

(* What is new stands behind everything else.  *)
LEMMA PutBehind ==
  ASSUME NEW S, NEW s \in Seq(S), IsInjective(s), NEW c \in S, c \notin ToSet(s)
  PROVE  /\ Append(s, c) \in Seq(S) /\ IsInjective(Append(s, c))
         /\ ToSet(Append(s, c)) = ToSet(s) \union {c}
<1> DEFINE t == Append(s, c)
<1>1. /\ t \in Seq(S) /\ Len(t) = Len(s) + 1 /\ Len(s) \in Nat
      /\ \A i \in 1 .. Len(s) : t[i] = s[i]
      /\ t[Len(s) + 1] = c
  BY AppendProperties
<1>2. DOMAIN s = 1 .. Len(s)
  OBVIOUS
<1> HIDE DEF t
<1>3. DOMAIN t = DOMAIN s \union {Len(s) + 1} /\ Len(s) + 1 \notin DOMAIN s
  BY <1>1, <1>2
<1>4. \A i \in DOMAIN s : t[i] = s[i] /\ t[i] # c
  BY <1>1, <1>2 DEF ToSet
<1>5. IsInjective(t)
  BY <1>1, <1>3, <1>4 DEF IsInjective
<1>6. ToSet(t) = ToSet(s) \union {c}
  BY <1>1, <1>3, <1>4 DEF ToSet
<1> QED
  BY <1>1, <1>5, <1>6 DEF t

(* What is updated moves behind everything else.  *)
LEMMA MovedBehind ==
  ASSUME NEW S, NEW s \in Seq(S), IsInjective(s), NEW c \in S
  PROVE  LET t == Append(RemoveFirst(s, c), c)
         IN  /\ t \in Seq(S) /\ IsInjective(t)
             /\ ToSet(t) = ToSet(s) \union {c}
<1> DEFINE r == RemoveFirst(s, c)
<1>1. r \in Seq(S) /\ IsInjective(r) /\ ToSet(r) = ToSet(s) \ {c}
  BY TakenOut
<1> HIDE DEF r
<1>2. /\ Append(r, c) \in Seq(S) /\ IsInjective(Append(r, c))
      /\ ToSet(Append(r, c)) = ToSet(r) \union {c}
  BY <1>1, PutBehind
<1> QED
  BY <1>1, <1>2 DEF r
=============================================================================
