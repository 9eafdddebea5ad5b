---------------------------- MODULE SealRedisProofs ----------------------------
(* What the list commands of SealRedis do to the type of a list, to its    *)
(* elements and to its freedom from repetitions.                           *)
EXTENDS SealRedis, SequenceTheorems, TLAPS

LEMMA TimesType == \A o \in Outcome : Times(o) \in 0 .. 2
  BY DEF Outcome, Times

LEMMA CopiesType ==
  ASSUME NEW S, NEW x \in S, NEW n \in Nat
  PROVE  /\ Copies(x, n) \in Seq(S)
         /\ Len(Copies(x, n)) = n
         /\ \A i \in 1 .. n : Copies(x, n)[i] = x
  BY DEF Copies

(* Where the elements of two lists are in their concatenation. *)
LEMMA ConcatAt ==
  ASSUME NEW S, NEW s \in Seq(S), NEW t \in Seq(S)
  PROVE  /\ s \o t \in Seq(S)
         /\ Len(s \o t) = Len(s) + Len(t)
         /\ \A i \in 1 .. Len(s) : (s \o t)[i] = s[i]
         /\ \A i \in 1 .. Len(t) : (s \o t)[Len(s) + i] = t[i]
<1>1. Len(s) \in Nat /\ Len(t) \in Nat
  OBVIOUS
<1>2. PICK r : r = s \o t
  OBVIOUS
<1>3. /\ r \in Seq(S) /\ Len(r) = Len(s) + Len(t)
      /\ \A i \in 1 .. Len(s) + Len(t) : r[i] = IF i <= Len(s) THEN s[i] ELSE t[i - Len(s)]
  BY <1>2, ConcatProperties
<1>4. ASSUME NEW i \in 1 .. Len(s) PROVE r[i] = s[i]
  BY <1>1, <1>3
<1>5. ASSUME NEW i \in 1 .. Len(t) PROVE r[Len(s) + i] = t[i]
  <2>1. /\ Len(s) + i \in 1 .. Len(s) + Len(t)
        /\ ~ (Len(s) + i <= Len(s)) /\ (Len(s) + i) - Len(s) = i
    BY <1>1
  <2> QED BY <2>1, <1>3
<1> QED BY <1>2, <1>3, <1>4, <1>5

(* Where the elements of a list are after a push at its left end. *)
LEMMA LPushAt ==
  ASSUME NEW S, NEW q \in Seq(S), NEW x \in S, NEW o \in Outcome
  PROVE  \E r \in Seq(S) :
           /\ r = LPush(q, x, o)
           /\ Len(r) = Len(q) + Times(o)
           /\ \A i \in 1 .. Times(o) : r[i] = x
           /\ \A i \in 1 .. Len(q) : r[Times(o) + i] = q[i]
<1>1. Times(o) \in Nat
  BY TimesType
<1>2. PICK c \in Seq(S) : /\ c = Copies(x, Times(o)) /\ Len(c) = Times(o)
                          /\ \A i \in 1 .. Times(o) : c[i] = x
  BY <1>1, CopiesType
<1>3. PICK r \in Seq(S) : r = c \o q
  BY ConcatAt
<1>4. r = LPush(q, x, o)
  BY <1>2, <1>3 DEF LPush
<1>5. /\ Len(r) = Len(c) + Len(q)
      /\ \A i \in 1 .. Len(c) : r[i] = c[i]
      /\ \A i \in 1 .. Len(q) : r[Len(c) + i] = q[i]
  BY <1>3, ConcatAt
<1> QED BY <1>1, <1>2, <1>4, <1>5

(* And after a push at its right end. *)
LEMMA RPushAt ==
  ASSUME NEW S, NEW q \in Seq(S), NEW x \in S, NEW o \in Outcome
  PROVE  \E r \in Seq(S) :
           /\ r = RPush(q, x, o)
           /\ Len(r) = Len(q) + Times(o)
           /\ \A i \in 1 .. Len(q) : r[i] = q[i]
           /\ \A i \in 1 .. Times(o) : r[Len(q) + i] = x
<1>1. Times(o) \in Nat
  BY TimesType
<1>2. PICK c \in Seq(S) : /\ c = Copies(x, Times(o)) /\ Len(c) = Times(o)
                          /\ \A i \in 1 .. Times(o) : c[i] = x
  BY <1>1, CopiesType
<1>3. PICK r \in Seq(S) : r = q \o c
  BY ConcatAt
<1>4. r = RPush(q, x, o)
  BY <1>2, <1>3 DEF RPush
<1>5. /\ Len(r) = Len(q) + Len(c)
      /\ \A i \in 1 .. Len(q) : r[i] = q[i]
      /\ \A i \in 1 .. Len(c) : r[Len(q) + i] = c[i]
  BY <1>3, ConcatAt
<1> QED BY <1>1, <1>2, <1>4, <1>5

(* Where they are once the n leftmost are removed. *)
LEMMA DropAt ==
  ASSUME NEW S, NEW q \in Seq(S), NEW n \in 0 .. Len(q)
  PROVE  \E r \in Seq(S) :
           /\ r = SubSeq(q, n + 1, Len(q))
           /\ Len(r) = Len(q) - n
           /\ \A i \in 1 .. Len(r) : r[i] = q[n + i] /\ n + i \in 1 .. Len(q)
<1>1. Len(q) \in Nat
  OBVIOUS
<1>2. PICK r \in Seq(S) : r = SubSeq(q, n + 1, Len(q))
  <2>1. n + 1 \in Int /\ Len(q) \in Int /\ \A i \in n + 1 .. Len(q) : q[i] \in S
    BY <1>1
  <2> QED BY <2>1, SubSeqProperties
<1>3. Len(r) = Len(q) - n
  BY <1>1, <1>2
<1>4. ASSUME NEW i \in 1 .. Len(r) PROVE r[i] = q[n + i] /\ n + i \in 1 .. Len(q)
  BY <1>1, <1>2, <1>3
<1> QED BY <1>2, <1>3, <1>4

(* Whatever its outcome, a push brings in no element but its own, and a    *)
(* lost one brings in none.                                                *)
LEMMA PushAny ==
  ASSUME NEW S, NEW q \in Seq(S), NEW x \in S, NEW o \in Outcome
  PROVE  /\ LPush(q, x, o) \in Seq(S) /\ RPush(q, x, o) \in Seq(S)
         /\ Elems(RPush(q, x, o)) \subseteq Elems(q) \cup {x}
         /\ o = "lost" => Elems(RPush(q, x, o)) \subseteq Elems(q)
<1>1. LPush(q, x, o) \in Seq(S)
  BY LPushAt
<1>2. PICK r \in Seq(S) :
         /\ r = RPush(q, x, o)
         /\ Len(r) = Len(q) + Times(o)
         /\ \A i \in 1 .. Len(q) : r[i] = q[i]
         /\ \A i \in 1 .. Times(o) : r[Len(q) + i] = x
  BY RPushAt
<1>3. Times(o) \in Nat /\ (o = "lost" => Times(o) = 0)
  BY TimesType DEF Times
<1>4. ASSUME NEW j \in 1 .. Len(r)
      PROVE  \/ j \in 1 .. Len(q) /\ r[j] = q[j]
             \/ o # "lost" /\ r[j] = x
  <2>1. CASE j > Len(q)
    <3>1. j - Len(q) \in 1 .. Times(o) /\ j = Len(q) + (j - Len(q))
      BY <1>2, <1>3, <2>1
    <3>2. PICK i \in 1 .. Times(o) : j = Len(q) + i
      BY <3>1
    <3> QED BY <1>2, <1>3, <3>2
  <2> QED BY <1>2, <2>1
<1>5. Elems(r) \subseteq Elems(q) \cup {x}
  BY <1>4 DEF Elems
<1>6. o = "lost" => Elems(r) \subseteq Elems(q)
  BY <1>4 DEF Elems
<1> QED BY <1>1, <1>2, <1>5, <1>6

(* A push that is applied once adds its element and no other, and repeats  *)
(* nothing when the element is new to the list.                            *)
LEMMA LPushOk ==
  ASSUME NEW S, NEW q \in Seq(S), NEW x \in S
  PROVE  /\ LPush(q, x, "ok") \in Seq(S)
         /\ Elems(LPush(q, x, "ok")) = Elems(q) \cup {x}
         /\ NoRepeat(q) /\ x \notin Elems(q) => NoRepeat(LPush(q, x, "ok"))
<1>1. "ok" \in Outcome /\ Times("ok") = 1
  BY DEF Outcome, Times
<1>2. PICK r \in Seq(S) :
         /\ r = LPush(q, x, "ok") /\ Len(r) = Len(q) + 1
         /\ \A i \in 1 .. 1 : r[i] = x
         /\ \A i \in 1 .. Len(q) : r[1 + i] = q[i]
  <2>1. PICK o \in Outcome : o = "ok"
    BY <1>1
  <2>2. PICK r \in Seq(S) :
           /\ r = LPush(q, x, o)
           /\ Len(r) = Len(q) + Times(o)
           /\ \A i \in 1 .. Times(o) : r[i] = x
           /\ \A i \in 1 .. Len(q) : r[Times(o) + i] = q[i]
    BY LPushAt
  <2> QED BY <2>1, <2>2, <1>1
<1>3. \A i \in 1 .. Len(q) : 1 + i \in 1 .. Len(r) /\ r[1 + i] = q[i]
  BY <1>2
<1>4. ASSUME NEW j \in 1 .. Len(r)
      PROVE  j = 1 \/ \E i \in 1 .. Len(q) : j = 1 + i /\ r[j] = q[i]
  <2>1. CASE j # 1
    <3>1. j - 1 \in 1 .. Len(q) /\ j = 1 + (j - 1)
      BY <1>2, <2>1
    <3>2. PICK i \in 1 .. Len(q) : j = 1 + i
      BY <3>1
    <3> QED BY <1>2, <3>2
  <2> QED BY <2>1
<1>5. r[1] = x /\ 1 \in 1 .. Len(r)
  BY <1>2
<1>6. Elems(r) = Elems(q) \cup {x}
  <2>1. ASSUME NEW y \in Elems(r)
        PROVE  y \in Elems(q) \cup {x}
    <3>1. PICK j \in 1 .. Len(r) : y = r[j]
      BY DEF Elems
    <3>2. CASE j = 1
      BY <1>5, <3>1, <3>2
    <3>3. CASE j # 1
      <4>1. PICK i \in 1 .. Len(q) : r[j] = q[i]
        BY <1>4, <3>3
      <4> QED BY <3>1, <4>1 DEF Elems
    <3> QED BY <3>2, <3>3
  <2>2. Elems(q) \subseteq Elems(r)
    BY <1>3 DEF Elems
  <2>3. x \in Elems(r)
    BY <1>5 DEF Elems
  <2> QED BY <2>1, <2>2, <2>3
<1>7. NoRepeat(q) /\ x \notin Elems(q) => NoRepeat(r)
  BY <1>4, <1>5 DEF NoRepeat, Elems
<1> QED BY <1>2, <1>6, <1>7

LEMMA RPushOk ==
  ASSUME NEW S, NEW q \in Seq(S), NEW x \in S
  PROVE  /\ RPush(q, x, "ok") \in Seq(S)
         /\ Elems(RPush(q, x, "ok")) = Elems(q) \cup {x}
         /\ NoRepeat(q) /\ x \notin Elems(q) => NoRepeat(RPush(q, x, "ok"))
<1>1. "ok" \in Outcome /\ Times("ok") = 1
  BY DEF Outcome, Times
<1>2. PICK r \in Seq(S) :
         /\ r = RPush(q, x, "ok") /\ Len(r) = Len(q) + 1
         /\ \A i \in 1 .. Len(q) : r[i] = q[i]
         /\ \A i \in 1 .. 1 : r[Len(q) + i] = x
  BY <1>1, RPushAt
<1>3. r[Len(r)] = x /\ Len(r) \in 1 .. Len(r)
  BY <1>2
<1>4. \A j \in 1 .. Len(r) : j = Len(r) \/ (j \in 1 .. Len(q) /\ r[j] = q[j])
  BY <1>2
<1>5. \A j \in 1 .. Len(q) : j \in 1 .. Len(r) /\ r[j] = q[j]
  BY <1>2
<1>6. Elems(r) = Elems(q) \cup {x}
  BY <1>3, <1>4, <1>5 DEF Elems
<1>7. NoRepeat(q) /\ x \notin Elems(q) => NoRepeat(r)
  BY <1>3, <1>4 DEF NoRepeat, Elems
<1> QED BY <1>2, <1>6, <1>7

(* Removing elements at the left end adds none and repeats none. *)
LEMMA DropElems ==
  ASSUME NEW S, NEW q \in Seq(S), NEW n \in 0 .. Len(q)
  PROVE  /\ SubSeq(q, n + 1, Len(q)) \in Seq(S)
         /\ Elems(SubSeq(q, n + 1, Len(q))) \subseteq Elems(q)
         /\ NoRepeat(q) => NoRepeat(SubSeq(q, n + 1, Len(q)))
<1>1. PICK r \in Seq(S) :
         /\ r = SubSeq(q, n + 1, Len(q))
         /\ Len(r) = Len(q) - n
         /\ \A i \in 1 .. Len(r) : r[i] = q[n + i] /\ n + i \in 1 .. Len(q)
  BY DropAt
<1>2. Elems(r) \subseteq Elems(q)
  BY <1>1 DEF Elems
<1>3. NoRepeat(q) => NoRepeat(r)
  BY <1>1 DEF NoRepeat
<1> QED BY <1>1, <1>2, <1>3

(* The head of a list without repetitions is gone once it is removed. *)
LEMMA DropHead ==
  ASSUME NEW S, NEW q \in Seq(S), Len(q) >= 1, NoRepeat(q)
  PROVE  /\ q[1] \in Elems(q)
         /\ q[1] \notin Elems(SubSeq(q, 2, Len(q)))
<1>1. Len(q) \in Nat /\ 1 \in 0 .. Len(q) /\ 1 \in 1 .. Len(q)
  OBVIOUS
<1>2. PICK r \in Seq(S) :
         /\ r = SubSeq(q, 1 + 1, Len(q))
         /\ Len(r) = Len(q) - 1
         /\ \A i \in 1 .. Len(r) : r[i] = q[1 + i] /\ 1 + i \in 1 .. Len(q)
  BY <1>1, DropAt
<1>3. q[1] \notin Elems(r)
  BY <1>1, <1>2 DEF Elems, NoRepeat
<1> QED BY <1>1, <1>2, <1>3 DEF Elems

(* Only the head leaves.                                                   *)
LEMMA DropKeeps ==
  ASSUME NEW S, NEW q \in Seq(S), Len(q) >= 1
  PROVE  Elems(q) \subseteq Elems(SubSeq(q, 2, Len(q))) \cup {q[1]}
<1>1. Len(q) \in Nat /\ 1 \in 0 .. Len(q) /\ SubSeq(q, 2, Len(q)) = SubSeq(q, 1 + 1, Len(q))
  OBVIOUS
<1>2. PICK r \in Seq(S) :
         /\ r = SubSeq(q, 1 + 1, Len(q))
         /\ Len(r) = Len(q) - 1
         /\ \A i \in 1 .. Len(r) : r[i] = q[1 + i] /\ 1 + i \in 1 .. Len(q)
  BY <1>1, DropAt
<1>3. ASSUME NEW i \in 1 .. Len(q), i # 1 PROVE q[i] \in Elems(r)
  <2>1. i - 1 \in 1 .. Len(r) /\ 1 + (i - 1) = i
    BY <1>1, <1>2, <1>3
  <2>2. PICK k \in 1 .. Len(r) : 1 + k = i
    BY <2>1
  <2>3. r[k] = q[i]
    BY <1>2, <2>2
  <2> QED BY <2>2, <2>3 DEF Elems
<1> QED BY <1>1, <1>2, <1>3 DEF Elems

(* The same for Head and Tail. *)
LEMMA PopHead ==
  ASSUME NEW S, NEW q \in Seq(S), q # <<>>, NoRepeat(q)
  PROVE  /\ Head(q) \in S /\ Head(q) \in Elems(q)
         /\ Tail(q) \in Seq(S)
         /\ Head(q) \notin Elems(Tail(q)) /\ Elems(Tail(q)) \subseteq Elems(q)
         /\ NoRepeat(Tail(q))
<1>1. Len(q) \in Nat /\ Len(q) >= 1
  OBVIOUS
<1>2. Head(q) = q[1]
  OBVIOUS
<1>3. Tail(q) = SubSeq(q, 2, Len(q))
  BY TailIsSubSeq
<1>4. /\ SubSeq(q, 1 + 1, Len(q)) \in Seq(S)
      /\ Elems(SubSeq(q, 1 + 1, Len(q))) \subseteq Elems(q)
      /\ NoRepeat(SubSeq(q, 1 + 1, Len(q)))
  <2>1. 1 \in 0 .. Len(q)
    BY <1>1
  <2> QED BY <2>1, DropElems
<1>5. 1 + 1 = 2
  OBVIOUS
<1>6. q[1] \in Elems(q) /\ q[1] \notin Elems(SubSeq(q, 2, Len(q)))
  BY <1>1, DropHead
<1>7. Head(q) \in S
  BY <1>1, <1>2
<1> QED BY <1>2, <1>3, <1>4, <1>5, <1>6, <1>7, Zenon

(* Nor does a push at the left end bring in another element. *)
LEMMA LPushElems ==
  ASSUME NEW S, NEW q \in Seq(S), NEW x \in S, NEW o \in Outcome
  PROVE  Elems(LPush(q, x, o)) \subseteq Elems(q) \cup {x}
<1>1. Times(o) \in Nat
  BY TimesType
<1>2. PICK c \in Seq(S) : /\ c = Copies(x, Times(o))
                          /\ \A i \in 1 .. Len(c) : c[i] = x
  BY <1>1, CopiesType
<1>3. PICK r \in Seq(S) : r = c \o q
  BY ConcatAt
<1>4. /\ Len(r) = Len(c) + Len(q)
      /\ \A i \in 1 .. Len(c) : r[i] = c[i]
      /\ \A i \in 1 .. Len(q) : r[Len(c) + i] = q[i]
  BY <1>3, ConcatAt
<1>5. ASSUME NEW j \in 1 .. Len(r)
      PROVE  r[j] = x \/ \E i \in 1 .. Len(q) : r[j] = q[i]
  <2>1. CASE j \in 1 .. Len(c)
    BY <1>2, <1>4, <2>1
  <2>2. CASE j > Len(c)
    <3>1. j - Len(c) \in 1 .. Len(q) /\ j = Len(c) + (j - Len(c))
      BY <1>4, <2>2
    <3>2. PICK i \in 1 .. Len(q) : j = Len(c) + i
      BY <3>1
    <3> QED BY <1>4, <3>2
  <2> QED BY <2>1, <2>2
<1>6. Elems(r) \subseteq Elems(q) \cup {x}
  <2> SUFFICES ASSUME NEW j \in 1 .. Len(r), r[j] # x PROVE r[j] \in Elems(q)
    BY DEF Elems
  <2>1. PICK i \in 1 .. Len(q) : r[j] = q[i]
    BY <1>5
  <2> QED BY <2>1 DEF Elems
<1> QED BY <1>2, <1>3, <1>6 DEF LPush

=============================================================================
