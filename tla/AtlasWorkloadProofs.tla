-------------------------- MODULE AtlasWorkloadProofs --------------------------
(***************************************************************************)
(* Theorems about the workload commands, for any set of workloads and      *)
(* names and any number of commands, edits, kills and failures.            *)
(***************************************************************************)
EXTENDS AtlasWorkload, SequenceTheorems, TLAPS

-----------------------------------------------------------------------------
(* The gateway file.                                                       *)
LEMMA LineType ==
  ASSUME NEW a \in Names
  PROVE  /\ Marker(a) \in Line /\ Body(a) \in Line
         /\ IsMarker(Marker(a)) /\ ~ IsMarker(Body(a)) /\ Marker(a) # Body(a)
         /\ RenderListener(a) \in Seq(Line)
         /\ Marker(a).name = a /\ Body(a).name = a /\ Body(a).kind = "inner"
  BY GatewayAssumption DEF Marker, Body, Line, IsMarker, RenderListener

(* The parts of WellFormed. *)
Blocks(f) ==
  \A i \in 1 .. Len(f) :
    /\ IsMarker(f[i]) => i + 1 \in 1 .. Len(f) /\ f[i + 1] = Body(f[i].name)
    /\ f[i].kind = "inner" => i - 1 \in 1 .. Len(f) /\ f[i - 1] = Marker(f[i].name)
Once(f) == \A i, j \in 1 .. Len(f) : IsMarker(f[i]) /\ f[i] = f[j] => i = j

LEMMA Parts ==
  ASSUME NEW f \in Seq(Line)
  PROVE  WellFormed(f) <=> Blocks(f) /\ Once(f)
<1>1. DOMAIN f = 1 .. Len(f)
  OBVIOUS
<1> QED BY <1>1 DEF WellFormed, Blocks, Once

LEMMA ListenersOf ==
  ASSUME NEW f \in Seq(Line), NEW a
  PROVE  a \in Listeners(f) <=> \E i \in 1 .. Len(f) : IsMarker(f[i]) /\ f[i].name = a
<1>1. DOMAIN f = 1 .. Len(f)
  OBVIOUS
<1> QED BY <1>1 DEF Listeners

(* Appending a listener that is not there. *)
LEMMA Appended ==
  ASSUME NEW f \in Seq(Line), WellFormed(f), NEW a \in Names, a \notin Listeners(f)
  PROVE  /\ AppendListenerToFile(f, a) \in Seq(Line)
         /\ WellFormed(AppendListenerToFile(f, a))
         /\ Listeners(AppendListenerToFile(f, a)) = Listeners(f) \cup {a}
<1> DEFINE g == AppendListenerToFile(f, a)
<1>1. g \in Seq(Line) /\ Len(g) = Len(f) + 2
      /\ (\A i \in 1 .. Len(f) : g[i] = f[i])
      /\ g[Len(f) + 1] = Marker(a) /\ g[Len(f) + 2] = Body(a)
  BY LineType DEF AppendListenerToFile, RenderListener
<1>2. Blocks(f) /\ Once(f) /\ Len(f) \in Nat
  BY Parts
<1> HIDE DEF g
<1>3. Blocks(g)
  <2> SUFFICES ASSUME NEW i \in 1 .. Len(g)
               PROVE /\ IsMarker(g[i]) => i + 1 \in 1 .. Len(g) /\ g[i + 1] = Body(g[i].name)
                     /\ g[i].kind = "inner" => i - 1 \in 1 .. Len(g) /\ g[i - 1] = Marker(g[i].name)
    BY DEF Blocks
  <2>1. CASE i \in 1 .. Len(f)
    BY <1>1, <1>2, <2>1 DEF Blocks
  <2>2. CASE i = Len(f) + 1
    BY <1>1, <1>2, <2>2, LineType DEF Marker
  <2>3. CASE i = Len(f) + 2
    BY <1>1, <1>2, <2>3, LineType
  <2> QED BY <1>1, <1>2, <2>1, <2>2, <2>3
<1>4. \A i \in 1 .. Len(f) : f[i] # Marker(a)
  BY ListenersOf, LineType
<1>5. Once(g)
  <2> SUFFICES ASSUME NEW i \in 1 .. Len(g), NEW j \in 1 .. Len(g), IsMarker(g[i]), g[i] = g[j]
               PROVE  i = j
    BY DEF Once
  <2>1. i # Len(f) + 2 /\ j # Len(f) + 2
    BY <1>1, LineType
  <2>2. i \in 1 .. Len(f) \/ i = Len(f) + 1
    BY <1>1, <1>2, <2>1
  <2>3. j \in 1 .. Len(f) \/ j = Len(f) + 1
    BY <1>1, <1>2, <2>1
  <2> QED BY <1>1, <1>2, <1>4, <2>2, <2>3 DEF Once
<1>6. Listeners(g) = Listeners(f) \cup {a}
  <2>1. ASSUME NEW b PROVE b \in Listeners(g) <=> b \in Listeners(f) \/ b = a
    <3>1. ASSUME b \in Listeners(g) PROVE b \in Listeners(f) \/ b = a
      <4>1. PICK i \in 1 .. Len(g) : IsMarker(g[i]) /\ g[i].name = b
        BY <1>1, <3>1, ListenersOf
      <4>2. i \in 1 .. Len(f) \/ i = Len(f) + 1
        BY <1>1, <1>2, <4>1, LineType
      <4> QED BY <1>1, <4>1, <4>2, ListenersOf, LineType
    <3>2. ASSUME b \in Listeners(f) PROVE b \in Listeners(g)
      <4>1. PICK i \in 1 .. Len(f) : IsMarker(f[i]) /\ f[i].name = b
        BY <3>2, ListenersOf
      <4>2. i \in 1 .. Len(g) /\ IsMarker(g[i]) /\ g[i].name = b
        BY <1>1, <1>2, <4>1
      <4> QED BY <1>1, <4>2, ListenersOf
    <3>3. a \in Listeners(g)
      <4>1. Len(f) + 1 \in 1 .. Len(g) /\ IsMarker(g[Len(f) + 1]) /\ g[Len(f) + 1].name = a
        BY <1>1, <1>2, LineType
      <4> QED BY <1>1, <4>1, ListenersOf
    <3> QED BY <3>1, <3>2, <3>3
  <2> QED BY <2>1
<1> QED BY <1>1, <1>3, <1>5, <1>6, Parts DEF g

(* In a well-formed file a's marker stands once and its block is two lines. *)
LEMMA RemovedIs ==
  ASSUME NEW f \in Seq(Line), WellFormed(f), NEW a \in Names, NEW i \in 1 .. Len(f),
         f[i] = Marker(a)
  PROVE  /\ i + 1 \in 1 .. Len(f) /\ f[i + 1] = Body(a)
         /\ RemoveListenerFromFile(f, a) = SubSeq(f, 1, i - 1) \o SubSeq(f, i + 2, Len(f))
<1>1. Blocks(f) /\ Once(f) /\ Len(f) \in Nat /\ DOMAIN f = 1 .. Len(f)
  BY Parts
<1>2. i + 1 \in 1 .. Len(f) /\ f[i + 1] = Body(a)
  BY <1>1, LineType DEF Blocks
<1>3. ASSUME NEW k \in 1 .. Len(f), f[k] = Marker(a) PROVE k = i
  BY <1>1, <1>3, LineType DEF Once
<1>4. a \in Listeners(f)
  BY LineType, ListenersOf
<1>5. (CHOOSE j \in DOMAIN f : f[j] = Marker(a) /\ \A k \in 1 .. j - 1 : f[k] # Marker(a)) = i
  <2>1. \A k \in 1 .. i - 1 : f[k] # Marker(a)
    BY <1>1, <1>3
  <2> QED BY <1>1, <1>3, <2>1
<1>6. BlockEnd(f, i) = i + 2
  <2> DEFINE Ends(j) == /\ j = Len(f) + 1 \/ f[j].kind = "outer"
                        /\ \A k \in i + 1 .. j - 1 : f[k].kind # "outer"
  <2>1. f[i + 1].kind = "inner"
    BY <1>2, LineType
  <2>2. i + 2 \in i + 1 .. Len(f) + 1
    BY <1>1, <1>2
  <2>3. i + 2 # Len(f) + 1 => f[i + 2].kind = "outer"
    <3> SUFFICES ASSUME i + 2 # Len(f) + 1, f[i + 2].kind # "outer" PROVE FALSE
      OBVIOUS
    <3>1. i + 2 \in 1 .. Len(f) /\ f[i + 2] \in Line
      BY <1>1, <1>2
    <3>2. f[i + 2].kind = "inner"
      BY <3>1 DEF Line
    <3>3. f[(i + 2) - 1] = Marker(f[i + 2].name) /\ (i + 2) - 1 = i + 1
      BY <1>1, <3>1, <3>2 DEF Blocks
    <3>4. f[i + 1].kind = "outer"
      BY <3>3 DEF Marker
    <3> QED BY <2>1, <3>4
  <2>4. Ends(i + 2)
    <3>1. \A k \in i + 1 .. (i + 2) - 1 : k = i + 1
      BY <1>1
    <3> QED BY <2>1, <2>3, <3>1
  <2>5. ASSUME NEW j \in i + 1 .. Len(f) + 1, Ends(j) PROVE j = i + 2
    <3>1. j # i + 1
      BY <1>1, <1>2, <2>1, <2>5
    <3>2. ~ j > i + 2
      <4> SUFFICES ASSUME j > i + 2 PROVE FALSE
        OBVIOUS
      <4>1. i + 2 \in i + 1 .. j - 1 /\ i + 2 # Len(f) + 1
        BY <1>1
      <4> QED BY <2>3, <2>5, <4>1
    <3> QED BY <1>1, <3>1, <3>2
  <2> HIDE DEF Ends
  <2>6. BlockEnd(f, i) = CHOOSE j \in i + 1 .. Len(f) + 1 : Ends(j)
    BY DEF BlockEnd, Ends
  <2> QED BY <2>2, <2>4, <2>5, <2>6
<1> QED BY <1>2, <1>4, <1>5, <1>6 DEF RemoveListenerFromFile

(* Two lines are cut out of a file. *)
LEMMA CutOut ==
  ASSUME NEW f \in Seq(Line), NEW n \in Nat, n = Len(f), NEW i \in Nat, 1 <= i, i + 1 <= n
  PROVE  \A g : g = SubSeq(f, 1, i - 1) \o SubSeq(f, i + 2, n) =>
           /\ g \in Seq(Line) /\ Len(g) = n - 2
           /\ \A k \in 1 .. i - 1 : g[k] = f[k]
           /\ \A k \in i .. n - 2 : g[k] = f[k + 2]
<1>1. \A k \in 1 .. n : f[k] \in Line
  OBVIOUS
<1>2. PICK l \in Seq(Line) : /\ l = SubSeq(f, 1, i - 1) /\ Len(l) = i - 1
                             /\ \A k \in 1 .. i - 1 : l[k] = f[k]
  <2> DEFINE l == SubSeq(f, 1, i - 1)
  <2>1. i - 1 \in Int /\ 1 \in Int /\ \A k \in 1 .. i - 1 : f[k] \in Line
    BY <1>1
  <2>2. /\ l \in Seq(Line) /\ Len(l) = IF 1 <= i - 1 THEN i - 1 - 1 + 1 ELSE 0
        /\ \A k \in 1 .. i - 1 - 1 + 1 : l[k] = f[1 + k - 1]
    BY <2>1, SubSeqProperties
  <2>3. \A k \in 1 .. i - 1 : k \in 1 .. i - 1 - 1 + 1 /\ 1 + k - 1 = k
    BY <1>1
  <2> HIDE DEF l
  <2>4. Len(l) = i - 1 /\ \A k \in 1 .. i - 1 : l[k] = f[k]
    BY <1>1, <2>2, <2>3
  <2> QED BY <2>2, <2>4 DEF l
<1>3. PICK r \in Seq(Line) : /\ r = SubSeq(f, i + 2, n) /\ Len(r) = n - i - 1
                             /\ \A k \in 1 .. n - i - 1 : r[k] = f[i + 1 + k]
  <2> DEFINE r == SubSeq(f, i + 2, n)
  <2>1. i + 2 \in Int /\ n \in Int /\ \A k \in i + 2 .. n : f[k] \in Line
    BY <1>1
  <2>2. /\ r \in Seq(Line) /\ Len(r) = IF i + 2 <= n THEN n - (i + 2) + 1 ELSE 0
        /\ \A k \in 1 .. n - (i + 2) + 1 : r[k] = f[i + 2 + k - 1]
    BY <2>1, SubSeqProperties
  <2>3. \A k \in 1 .. n - i - 1 : k \in 1 .. n - (i + 2) + 1 /\ i + 2 + k - 1 = i + 1 + k
    BY <1>1
  <2> HIDE DEF r
  <2>4. Len(r) = n - i - 1 /\ \A k \in 1 .. n - i - 1 : r[k] = f[i + 1 + k]
    BY <1>1, <2>2, <2>3
  <2> QED BY <2>2, <2>4 DEF r
<1>4. Len(l) = i - 1 /\ \A k \in 1 .. i - 1 : l[k] = f[k]
  BY <1>2
<1>5. Len(r) = n - i - 1 /\ \A k \in 1 .. n - i - 1 : r[k] = f[i + 1 + k]
  BY <1>3
<1>6. SUFFICES ASSUME NEW g, g = l \o r
               PROVE  /\ g \in Seq(Line) /\ Len(g) = n - 2
                      /\ \A k \in 1 .. i - 1 : g[k] = f[k]
                      /\ \A k \in i .. n - 2 : g[k] = f[k + 2]
  BY <1>2, <1>3
<1>7. /\ g \in Seq(Line) /\ Len(g) = Len(l) + Len(r)
      /\ \A k \in 1 .. Len(l) + Len(r) : g[k] = IF k <= Len(l) THEN l[k] ELSE r[k - Len(l)]
  BY <1>6, ConcatProperties
<1>8. /\ Len(g) = (i - 1) + (n - i - 1)
      /\ \A k \in 1 .. (i - 1) + (n - i - 1) : g[k] = IF k <= i - 1 THEN l[k] ELSE r[k - (i - 1)]
  BY <1>4, <1>5, <1>7
<1>9. (i - 1) + (n - i - 1) = n - 2
  OBVIOUS
<1>10. ASSUME NEW k \in 1 .. i - 1 PROVE g[k] = f[k]
  <2>1. k \in 1 .. (i - 1) + (n - i - 1) /\ k <= i - 1
    BY <1>9
  <2>2. g[k] = l[k]
    BY <1>8, <2>1
  <2> QED BY <1>4, <2>2
<1>11. ASSUME NEW k \in i .. n - 2 PROVE g[k] = f[k + 2]
  <2>1. /\ k \in 1 .. (i - 1) + (n - i - 1) /\ ~ k <= i - 1
        /\ k - (i - 1) \in 1 .. n - i - 1 /\ i + 1 + (k - (i - 1)) = k + 2
    BY <1>9
  <2>2. g[k] = r[k - (i - 1)]
    BY <1>8, <2>1
  <2>3. r[k - (i - 1)] = f[i + 1 + (k - (i - 1))]
    BY <1>5, <2>1
  <2> QED BY <2>1, <2>2, <2>3
<1> QED BY <1>7, <1>8, <1>9, <1>10, <1>11

LEMMA Removed ==
  ASSUME NEW f \in Seq(Line), WellFormed(f), NEW a \in Names
  PROVE  /\ RemoveListenerFromFile(f, a) \in Seq(Line)
         /\ WellFormed(RemoveListenerFromFile(f, a))
         /\ Listeners(RemoveListenerFromFile(f, a)) = Listeners(f) \ {a}
<1>1. CASE a \notin Listeners(f)
  BY <1>1 DEF RemoveListenerFromFile
<1>2. CASE a \in Listeners(f)
  <2>1. PICK i \in 1 .. Len(f) : f[i] = Marker(a)
    <3>1. PICK i \in 1 .. Len(f) : IsMarker(f[i]) /\ f[i].name = a
      BY <1>2, ListenersOf
    <3>2. f[i] \in Line
      OBVIOUS
    <3>3. f[i] = Marker(a)
      BY <3>1, <3>2 DEF IsMarker, Marker, Line
    <3> QED BY <3>3
  <2> DEFINE g == RemoveListenerFromFile(f, a)
  <2>2. /\ i + 1 \in 1 .. Len(f) /\ f[i + 1] = Body(a)
        /\ g = SubSeq(f, 1, i - 1) \o SubSeq(f, i + 2, Len(f))
    BY <2>1, RemovedIs
  <2>3. Blocks(f) /\ Once(f) /\ Len(f) \in Nat /\ i \in Nat /\ 1 <= i /\ i + 1 <= Len(f)
    BY <2>2, Parts
  <2>4. /\ g \in Seq(Line) /\ Len(g) = Len(f) - 2
        /\ \A k \in 1 .. i - 1 : g[k] = f[k]
        /\ \A k \in i .. Len(g) : g[k] = f[k + 2]
    <3> HIDE DEF g
    <3>1. PICK n \in Nat : n = Len(f)
      BY <2>3
    <3>2. g = SubSeq(f, 1, i - 1) \o SubSeq(f, i + 2, n) /\ i \in Nat /\ 1 <= i /\ i + 1 <= n
      BY <2>2, <2>3, <3>1
    <3>3. \A h : h = SubSeq(f, 1, i - 1) \o SubSeq(f, i + 2, n) =>
            /\ h \in Seq(Line) /\ Len(h) = n - 2
            /\ \A k \in 1 .. i - 1 : h[k] = f[k]
            /\ \A k \in i .. n - 2 : h[k] = f[k + 2]
      BY <3>1, <3>2, CutOut
    <3>4. /\ g \in Seq(Line) /\ Len(g) = n - 2
          /\ \A k \in 1 .. i - 1 : g[k] = f[k]
          /\ \A k \in i .. n - 2 : g[k] = f[k + 2]
      BY <3>2, <3>3, Zenon
    <3> QED BY <3>1, <3>4
  <2> HIDE DEF g
  <2> DEFINE Old(k) == IF k < i THEN k ELSE k + 2
  <2>5. ASSUME NEW k \in 1 .. Len(g)
        PROVE  Old(k) \in 1 .. Len(f) /\ g[k] = f[Old(k)] /\ Old(k) \notin {i, i + 1}
    BY <2>3, <2>4
  <2>6. Blocks(g)
    <3> SUFFICES ASSUME NEW k \in 1 .. Len(g)
                 PROVE /\ IsMarker(g[k]) => k + 1 \in 1 .. Len(g) /\ g[k + 1] = Body(g[k].name)
                       /\ g[k].kind = "inner" => k - 1 \in 1 .. Len(g) /\ g[k - 1] = Marker(g[k].name)
      BY DEF Blocks
    <3>1. ASSUME IsMarker(g[k]) PROVE k + 1 \in 1 .. Len(g) /\ g[k + 1] = Body(g[k].name)
      <4>1. Old(k) + 1 \in 1 .. Len(f) /\ f[Old(k) + 1] = Body(g[k].name)
        BY <2>3, <2>5, <3>1 DEF Blocks
      <4>2. Old(k) + 1 # i
        <5>1. f[i].kind = "outer" /\ Body(g[k].name).kind = "inner"
          BY <2>1 DEF Marker, Body
        <5> QED BY <4>1, <5>1
      <4>3. CASE k < i
        <5>1. k + 1 \in 1 .. i - 1 /\ k + 1 \in 1 .. Len(g) /\ Old(k) = k
          BY <2>3, <2>4, <4>1, <4>2, <4>3
        <5>2. g[k + 1] = f[k + 1]
          BY <2>4, <5>1
        <5> QED BY <4>1, <5>1, <5>2
      <4>4. CASE k >= i
        <5>1. k + 1 \in i .. Len(g) /\ (k + 1) + 2 = Old(k) + 1
          BY <2>3, <2>4, <4>1, <4>4
        <5>2. g[k + 1] = f[Old(k) + 1] /\ k + 1 \in 1 .. Len(g)
          BY <2>4, <5>1
        <5> QED BY <4>1, <5>2
      <4> QED BY <4>3, <4>4
    <3>2. ASSUME g[k].kind = "inner"
          PROVE  k - 1 \in 1 .. Len(g) /\ g[k - 1] = Marker(g[k].name)
      <4>1. Old(k) - 1 \in 1 .. Len(f) /\ f[Old(k) - 1] = Marker(g[k].name)
        BY <2>3, <2>5, <3>2 DEF Blocks
      <4>2. Old(k) - 1 # i + 1
        <5>1. f[i + 1].kind = "inner" /\ Marker(g[k].name).kind = "outer"
          BY <2>2 DEF Marker, Body
        <5> QED BY <4>1, <5>1
      <4>3. CASE k < i
        <5>1. k - 1 \in 1 .. i - 1 /\ k - 1 \in 1 .. Len(g) /\ Old(k) = k
          BY <2>3, <2>4, <4>1, <4>3
        <5>2. g[k - 1] = f[k - 1]
          BY <2>4, <5>1
        <5> QED BY <4>1, <5>1, <5>2
      <4>4. CASE k >= i
        <5>1. k - 1 \in i .. Len(g) /\ (k - 1) + 2 = Old(k) - 1
          BY <2>3, <2>4, <4>1, <4>2, <4>4
        <5>2. g[k - 1] = f[Old(k) - 1] /\ k - 1 \in 1 .. Len(g)
          BY <2>4, <5>1
        <5> QED BY <4>1, <5>2
      <4> QED BY <4>3, <4>4
    <3> QED BY <3>1, <3>2
  <2>7. Once(g)
    <3> SUFFICES ASSUME NEW k \in 1 .. Len(g), NEW m \in 1 .. Len(g), IsMarker(g[k]), g[k] = g[m]
                 PROVE  k = m
      BY DEF Once
    <3>1. Old(k) = Old(m)
      BY <2>3, <2>5 DEF Once
    <3> QED BY <2>3, <3>1
  <2>8. ASSUME NEW b PROVE b \in Listeners(g) <=> b \in Listeners(f) /\ b # a
    <3>1. ASSUME b \in Listeners(g) PROVE b \in Listeners(f) /\ b # a
      <4>1. PICK k \in 1 .. Len(g) : IsMarker(g[k]) /\ g[k].name = b
        BY <2>4, <3>1, ListenersOf
      <4>2. Old(k) \in 1 .. Len(f) /\ g[k] = f[Old(k)] /\ Old(k) # i /\ f[Old(k)] \in Line
        BY <2>5
      <4>3. b = a => f[Old(k)] = Marker(a)
        BY <4>1, <4>2 DEF IsMarker, Marker, Line
      <4>4. f[Old(k)] = f[i] => Old(k) = i
        BY <2>3, <4>1, <4>2 DEF Once
      <4> QED BY <2>1, <4>1, <4>2, <4>3, <4>4, ListenersOf
    <3>2. ASSUME b \in Listeners(f), b # a PROVE b \in Listeners(g)
      <4>1. PICK m \in 1 .. Len(f) : IsMarker(f[m]) /\ f[m].name = b
        BY <3>2, ListenersOf
      <4>2. m # i /\ m # i + 1
        BY <2>1, <2>2, <3>2, <4>1, LineType
      <4>3. PICK k \in 1 .. Len(g) : g[k] = f[m]
        <5>1. CASE m < i
          <6>1. m \in 1 .. i - 1 /\ m \in 1 .. Len(g)
            BY <2>3, <2>4, <5>1
          <6> QED BY <2>4, <6>1
        <5>2. CASE m > i + 1
          <6>1. m - 2 \in i .. Len(g) /\ (m - 2) + 2 = m
            BY <2>3, <2>4, <5>2
          <6>2. g[m - 2] = f[m]
            BY <2>4, <6>1
          <6>3. m - 2 \in 1 .. Len(g)
            BY <2>3, <6>1
          <6> QED BY <6>2, <6>3
        <5> QED BY <2>3, <4>2, <5>1, <5>2
      <4> QED BY <2>4, <4>1, <4>3, ListenersOf
    <3> QED BY <3>1, <3>2
  <2>9. Listeners(g) = Listeners(f) \ {a}
    BY <2>8
  <2> QED BY <2>4, <2>6, <2>7, <2>9, Parts DEF g
<1> QED BY <1>1, <1>2

LEMMA NoTextNoListener ==
  ASSUME NEW f \in Seq(Line), NEW a \in Names, ~ HasListenerInFile(f, a)
  PROVE  a \notin Listeners(f)
<1>1. DOMAIN f = 1 .. Len(f)
  OBVIOUS
<1> QED BY <1>1, GatewayAssumption, ListenersOf DEF HasListenerInFile


-----------------------------------------------------------------------------
(* The inductive invariant: what holds between the steps of a command.     *)
AtOneOf(steps) == cmd.step \in steps

(* Enable has written its files, or disable has removed them.              *)
Written == AtOneOf({"commit", "enabled"}) \/ (At("push") /\ cmd.w \in manifest)
Cleared == AtOneOf({"uncommit", "disabled"}) \/ (At("push") /\ cmd.w \notin manifest)

Directories ==
  /\ \A w \in Workloads : dirs[w] = NoDir \/ "." \in dirs[w]
  /\ \A w \in manifest : dirs[w] # NoDir

Enabling ==
  /\ AtOneOf({"render", "manifest"}) => dirs[cmd.w] # NoDir
  /\ AtOneOf({"sync", "route", "listener", "commit", "enabled"}) => cmd.w \in manifest
  /\ At("sync") => todo \subseteq Extras /\ Copied(cmd.w) \subseteq resources[cmd.w] \cup todo
  /\ AtOneOf({"route", "listener"}) \/ Written => Copied(cmd.w) \subseteq resources[cmd.w]
  /\ At("listener") \/ (Written /\ cmd.gw) => routes[App(cmd.w)] = cmd.w
  /\ Written /\ cmd.gw => HasListenerInFile(gateway, App(cmd.w))

Disabling ==
  /\ AtOneOf({"unmanifest", "unresource", "unroute"}) \/ Cleared =>
       cmd.w \in half /\ App(cmd.w) \notin Listeners(gateway)
  /\ AtOneOf({"unresource", "unroute", "uncommit", "disabled", "erase"}) => cmd.w \notin manifest
  /\ AtOneOf({"unlisten", "unmanifest", "unresource"}) /\ ~ cmd.gw => routes[App(cmd.w)] = NoRoute
  /\ (At("unroute") \/ Cleared) /\ cmd.ok => resources[cmd.w] = NoDir
  /\ Cleared => routes[App(cmd.w)] = NoRoute

Committed ==
  /\ Written /\ ~ At("commit") /\ cmd.sync /\ cmd.ok =>
       /\ cmd.w \in head.manifest
       /\ head.resources[cmd.w] = Files(resources[cmd.w])
       /\ cmd.gw => head.routes[App(cmd.w)] = cmd.w /\ head.gateway = gateway
  /\ At("enabled") /\ cmd.sync /\ cmd.push => pushed
  /\ Cleared /\ ~ At("uncommit") /\ cmd.sync /\ cmd.ok =>
       \/ cmd.w \notin head.manifest
       \/ cmd.gw /\ head.routes[App(cmd.w)] = NoRoute

Serving ==
  \A w \in served \ half :
    OwnName(w) => w \in manifest /\ App(w) \in Listeners(gateway) /\ routes[App(w)] = w

Typed == TypeOK /\ WellFormed(gateway) /\ (At("sync") => todo \subseteq Extras)

-----------------------------------------------------------------------------
(* Facts about the types.                                                  *)
LEMMA WorkloadType ==
  ASSUME NEW w \in Workloads
  PROVE  App(w) \in Names
  BY WorkloadAssumption DEF App

LEMMA Running ==
  ASSUME cmd \in Command \cup {Idle}
  PROVE  /\ cmd = Idle <=> cmd.step = "idle"
         /\ cmd # Idle =>
              /\ cmd \in Command /\ cmd.step \in Steps /\ cmd.w \in Workloads
              /\ cmd.gw \in BOOLEAN /\ cmd.sync \in BOOLEAN /\ cmd.push \in BOOLEAN
              /\ cmd.ok \in BOOLEAN
  BY DEF Command, Idle, Steps

LEMMA StartType ==
  ASSUME NEW step \in Steps, NEW w \in Workloads, NEW gw \in BOOLEAN, NEW opt \in Options,
         commands \in Nat, Start(step, w, gw, opt)
  PROVE  /\ cmd = Idle
         /\ cmd' \in Command /\ cmd'.step = step /\ cmd'.w = w /\ cmd'.ok
         /\ cmd'.gw = gw
         /\ commands' \in Nat /\ UNCHANGED <<git, edits, faults>>
  BY WorkloadAssumption DEF Start, Command

LEMMA GotoType ==
  ASSUME cmd \in Command, NEW step \in Steps, Goto(step)
  PROVE  /\ cmd' \in Command /\ cmd'.step = step /\ cmd'.w = cmd.w /\ cmd'.gw = cmd.gw
         /\ cmd'.sync = cmd.sync /\ cmd'.push = cmd.push /\ cmd'.ok = cmd.ok
  BY DEF Goto, Command

LEMMA StageEnableType ==
  ASSUME TypeOK, NEW w \in Workloads
  PROVE  /\ StageEnable(w) \in Tracked
         /\ w \in StageEnable(w).manifest
         /\ StageEnable(w).resources[w] = Files(resources[w])
         /\ routes[App(w)] # NoRoute =>
              StageEnable(w).routes[App(w)] = routes[App(w)] /\ StageEnable(w).gateway = gateway
<1>1. /\ index \in Tracked /\ App(w) \in Names /\ routes[App(w)] \in Owners /\ gateway \in Seq(Line)
      /\ Files(resources[w]) \subseteq Extras
  BY WorkloadType DEF TypeOK, Files
<1> DEFINE files == [index EXCEPT !.manifest = @ \cup {w}, !.resources[w] = Files(resources[w])]
<1>2. /\ files \in Tracked /\ w \in files.manifest
      /\ files.resources[w] = Files(resources[w])
  BY <1>1 DEF Tracked
<1> DEFINE both == [files EXCEPT !.routes[App(w)] = routes[App(w)], !.gateway = gateway]
<1> HIDE DEF files
<1>3. /\ both \in Tracked /\ both.manifest = files.manifest /\ both.resources = files.resources
      /\ both.routes[App(w)] = routes[App(w)] /\ both.gateway = gateway
  BY <1>1, <1>2 DEF Tracked
<1>4. StageEnable(w) = IF routes[App(w)] = NoRoute THEN files ELSE both
  BY DEF StageEnable, files
<1> HIDE DEF both
<1> QED BY <1>2, <1>3, <1>4

LEMMA StageDisableType ==
  ASSUME TypeOK, cmd \in Command, NEW w \in Workloads, w = cmd.w
  PROVE  /\ StageDisable(w) \in Tracked
         /\ w \notin manifest => w \notin StageDisable(w).manifest
<1>1. /\ index \in Tracked /\ App(w) \in Names /\ routes[App(w)] \in Owners /\ gateway \in Seq(Line)
      /\ (\A v \in Workloads : Files(resources[v]) \subseteq Extras)
      /\ manifest \subseteq Workloads /\ w \in Siblings(w) /\ Siblings(w) \subseteq Workloads
  BY WorkloadType DEF TypeOK, Files, Siblings
<1> DEFINE owner == IF cmd.gw THEN routes[App(w)] ELSE index.routes[App(w)]
           m == (index.manifest \ Siblings(w)) \cup (manifest \cap Siblings(w))
           r == [v \in Workloads |-> IF v \in Siblings(w) THEN Files(resources[v])
                                     ELSE index.resources[v]]
<1>2. m \subseteq Workloads /\ r \in [Workloads -> SUBSET Extras] /\ owner \in Owners
  BY <1>1 DEF Tracked
<1>3. StageDisable(w) = [index EXCEPT !.manifest = m, !.resources = r, !.gateway = gateway,
                                      !.routes[App(w)] = owner]
  BY <1>1 DEF StageDisable, Tracked
<1>4. w \notin manifest => w \notin m
  BY <1>1
<1> HIDE DEF m, r, owner
<1> DEFINE o == [index.routes EXCEPT ![App(w)] = owner]
<1>5. o \in [Names -> Owners]
  BY <1>1, <1>2 DEF Tracked
<1>6. StageDisable(w) = [manifest |-> m, resources |-> r, routes |-> o, gateway |-> gateway]
  BY <1>1, <1>3 DEF Tracked
<1> HIDE DEF o
<1> QED BY <1>1, <1>2, <1>4, <1>5, <1>6 DEF Tracked

-----------------------------------------------------------------------------
(* Types and the shape of the gateway file.                                *)
LEMMA TypedInit == Init => Typed
<1> SUFFICES ASSUME Init PROVE Typed
  OBVIOUS
<1>1. routes \in [Names -> Owners] /\ gateway \in Seq(Line) /\ WellFormed(gateway)
  BY WorkloadAssumption DEF Init, Owners
<1>2. head \in Tracked /\ index \in Tracked
  BY <1>1 DEF Init, Tracked
<1>3. dirs \in [Workloads -> SUBSET (File \cup {"."})]
  BY DEF Init, NoDir
<1>4. resources \in [Workloads -> SUBSET (Extras \cup {"."})]
  BY DEF Init, NoDir
<1>5. cmd = Idle /\ ~ At("sync")
  BY DEF Init, Idle, At
<1> QED BY <1>1, <1>2, <1>3, <1>4, <1>5 DEF Typed, TypeOK, Init

LEMMA TypedStep ==
  ASSUME Typed, [Next]_vars
  PROVE  Typed'
<1> USE DEF Typed
<1>1. /\ cmd = Idle <=> cmd.step = "idle"
      /\ cmd # Idle =>
           /\ cmd \in Command /\ cmd.step \in Steps /\ cmd.w \in Workloads /\ App(cmd.w) \in Names
           /\ cmd.gw \in BOOLEAN /\ cmd.sync \in BOOLEAN /\ cmd.push \in BOOLEAN
           /\ cmd.ok \in BOOLEAN
  BY Running, WorkloadType DEF TypeOK
<1>2. ASSUME NEW w \in Workloads, New(w) PROVE Typed'
  <2>1. PICK opt \in Options : Start("render", w, FALSE, opt)
    BY <1>2 DEF New
  <2>2. cmd' \in Command /\ cmd'.step = "render" /\ commands' \in Nat /\ UNCHANGED <<git, edits, faults>>
    BY <2>1, StartType DEF TypeOK, Steps
  <2>3. todo' \subseteq File /\ dirs' \in [Workloads -> SUBSET (File \cup {"."})]
    BY <1>2 DEF New, File, TypeOK
  <2> QED BY <1>2, <2>2, <2>3 DEF New, TypeOK, At, history, git
<1>3. ASSUME NEW w \in Workloads, Enable(w) PROVE Typed'
  <2>1. PICK opt \in Options : \E gw \in BOOLEAN : Start("manifest", w, gw, opt)
    <3>1. ("gateway.yaml" \in dirs[w]) \in BOOLEAN
      OBVIOUS
    <3> QED BY <1>3, <3>1, Zenon DEF Enable
  <2>2. cmd' \in Command /\ cmd'.step = "manifest" /\ commands' \in Nat /\ UNCHANGED <<git, edits, faults>>
    BY <2>1, StartType DEF TypeOK, Steps
  <2> QED BY <1>3, <2>2 DEF Enable, TypeOK, At, history, git, tree
<1>4. ASSUME NEW w \in Workloads, Disable(w) PROVE Typed'
  <2>1. PICK opt \in Options : Start("unlisten", w, routes[App(w)] # NoRoute, opt)
    BY <1>4 DEF Disable
  <2>2. cmd' \in Command /\ cmd'.step = "unlisten" /\ commands' \in Nat /\ UNCHANGED <<git, edits, faults>>
    BY <2>1, StartType DEF TypeOK, Steps
  <2> QED BY <1>4, <2>2 DEF Disable, TypeOK, At, history, git, tree
<1>5. ASSUME NEW w \in Workloads, Delete(w) PROVE Typed'
  <2>1. PICK opt \in Options : Start("erase", w, FALSE, opt)
    BY <1>5 DEF Delete
  <2>2. cmd' \in Command /\ cmd'.step = "erase" /\ commands' \in Nat /\ UNCHANGED <<git, edits, faults>>
    BY <2>1, StartType DEF TypeOK, Steps
  <2> QED BY <1>5, <2>2 DEF Delete, TypeOK, At, history, git, tree
<1>6. ASSUME NEW w \in Workloads, NEW f \in Templates, Edit(w, f) PROVE Typed'
  <2>1. dirs' \in [Workloads -> SUBSET (File \cup {"."})]
    BY <1>6 DEF Edit, TypeOK, File
  <2> QED BY <1>6, <2>1 DEF Edit, TypeOK, At, history, git
<1>7. ASSUME NEW f \in Templates, RenderTemplate(f) PROVE Typed'
  <2>1. dirs' \in [Workloads -> SUBSET (File \cup {"."})] /\ todo' \subseteq File
    BY <1>7 DEF RenderTemplate, TypeOK, File
  <2> QED BY <1>1, <1>7, <2>1 DEF RenderTemplate, TypeOK, At, history, git, bounds
<1>8. CASE WriteSecretSeed
  <2>1. dirs' \in [Workloads -> SUBSET (File \cup {"."})]
    BY <1>8 DEF WriteSecretSeed, TypeOK, File
  <2> QED BY <1>8, <2>1 DEF WriteSecretSeed, TypeOK, At, Idle, history, git, bounds
<1>9. CASE CopyManifest
  <2>1. cmd \in Command /\ cmd.w \in Workloads
    BY <1>1, <1>9 DEF CopyManifest, At
  <2>2. cmd' \in Command
    BY <1>9, <2>1, GotoType DEF CopyManifest, Steps
  <2>3. todo' \subseteq Extras /\ todo' \subseteq File
    BY <1>9 DEF CopyManifest, Copied, File, Templates
  <2> QED BY <1>9, <2>1, <2>2, <2>3 DEF CopyManifest, TypeOK, history, git, bounds
<1>10. ASSUME NEW done \in {{}} \cup {{f} : f \in Templates}, SyncResources(done) PROVE Typed'
  <2>1. cmd \in Command /\ cmd.w \in Workloads /\ todo \subseteq Extras /\ done \subseteq todo
    BY <1>1, <1>10 DEF SyncResources, At
  <2>2. cmd' \in Command
    <3>1. CASE done # {}
      BY <1>10, <2>1, <3>1 DEF SyncResources
    <3>2. CASE done = {}
      BY <1>10, <2>1, <3>2, GotoType DEF SyncResources, Steps, AfterFiles
    <3> QED BY <3>1, <3>2
  <2>3. resources' \in [Workloads -> SUBSET (Extras \cup {"."})] /\ todo' \subseteq todo
    BY <1>10, <2>1 DEF SyncResources, TypeOK
  <2> QED BY <1>10, <2>1, <2>2, <2>3 DEF SyncResources, TypeOK, history, git, bounds
<1>11. CASE CopyRoute
  <2>1. cmd \in Command /\ cmd.w \in Workloads /\ App(cmd.w) \in Names
    BY <1>1, <1>11 DEF CopyRoute, At
  <2>2. cmd' \in Command /\ cmd'.step = "listener"
    BY <1>11, <2>1, GotoType DEF CopyRoute, Steps
  <2>3. routes' \in [Names -> Owners]
    BY <1>11, <2>1 DEF CopyRoute, TypeOK, Owners
  <2> QED BY <1>11, <2>2, <2>3 DEF CopyRoute, TypeOK, At, history, git, bounds
<1>12. CASE AddListener
  <2>1. cmd \in Command /\ App(cmd.w) \in Names
    BY <1>1, <1>12 DEF AddListener, At
  <2>2. cmd' \in Command /\ cmd'.step # "sync"
    BY <1>12, <2>1, GotoType DEF AddListener, Steps, AfterFiles
  <2>3. gateway' \in Seq(Line) /\ WellFormed(gateway')
    <3>1. CASE HasListenerInFile(gateway, App(cmd.w))
      BY <1>12, <3>1 DEF AddListener, TypeOK
    <3>2. CASE ~ HasListenerInFile(gateway, App(cmd.w))
      <4>1. App(cmd.w) \notin Listeners(gateway)
        BY <2>1, <3>2, NoTextNoListener DEF TypeOK
      <4>2. gateway' = AppendListenerToFile(gateway, App(cmd.w))
        BY <1>12, <3>2 DEF AddListener
      <4> QED BY <2>1, <4>1, <4>2, Appended DEF TypeOK
    <3> QED BY <3>1, <3>2
  <2> QED BY <1>12, <2>2, <2>3 DEF AddListener, TypeOK, At, history, git, bounds
<1>13. ASSUME NEW step \in Steps, Finish(step) PROVE Typed'
  <2>1. cmd' = Idle /\ ~ At("sync")'
    BY <1>13 DEF Finish, At, Idle
  <2>2. cmd.w \in Workloads
    BY <1>1, <1>13 DEF Finish, At, Steps
  <2> QED BY <1>13, <2>1, <2>2 DEF Finish, TypeOK, tree, git, bounds
<1>14. CASE Enabled
  BY <1>13, <1>14 DEF Enabled, Steps
<1>15. CASE Disabled
  BY <1>13, <1>15 DEF Disabled, Steps
<1>16. ASSUME NEW staged \in Tracked, NEW ok \in BOOLEAN, NEW done \in {"enabled", "disabled"},
              cmd \in Command, CommitAndMaybePush(staged, ok, done)
       PROVE  Typed'
  <2>1. cmd' \in Command /\ cmd'.step # "sync"
    BY <1>16 DEF CommitAndMaybePush, Command, Steps
  <2>2. index' \in Tracked /\ head' \in Tracked /\ pushed' \in BOOLEAN /\ faults' \in Nat
    BY <1>16 DEF CommitAndMaybePush, TypeOK
  <2> QED BY <1>16, <2>1, <2>2 DEF CommitAndMaybePush, TypeOK, At, history, tree
<1>17. ASSUME NEW ok \in BOOLEAN, CommitEnable(ok) PROVE Typed'
  <2>1. cmd \in Command /\ StageEnable(cmd.w) \in Tracked
    BY <1>1, <1>17, StageEnableType DEF CommitEnable, At
  <2> QED BY <1>16, <1>17, <2>1 DEF CommitEnable
<1>18. ASSUME NEW ok \in BOOLEAN, CommitDisable(ok) PROVE Typed'
  <2>1. cmd \in Command /\ StageDisable(cmd.w) \in Tracked /\ index \in Tracked
    BY <1>1, <1>18, StageDisableType DEF CommitDisable, At, TypeOK
  <2> QED BY <1>16, <1>18, <2>1 DEF CommitDisable
<1>19. CASE Push
  <2>1. cmd \in Command
    BY <1>1, <1>19 DEF Push, At
  <2>2. cmd' \in Command /\ cmd'.step # "sync"
    BY <1>19, <2>1, GotoType DEF Push, Steps
  <2> QED BY <1>19, <2>2 DEF Push, TypeOK, At, history, tree, bounds
<1>20. CASE RemoveListener
  <2>1. cmd \in Command /\ cmd.w \in Workloads /\ App(cmd.w) \in Names
    BY <1>1, <1>20 DEF RemoveListener, At
  <2>2. cmd' \in Command /\ cmd'.step = "unmanifest"
    BY <1>20, <2>1, GotoType DEF RemoveListener, Steps
  <2>3. gateway' \in Seq(Line) /\ WellFormed(gateway')
    BY <1>20, <2>1, Removed DEF RemoveListener, TypeOK
  <2> QED BY <1>20, <2>1, <2>2, <2>3 DEF RemoveListener, TypeOK, At, git, bounds
<1>21. CASE RemoveManifest
  <2>1. cmd' \in Command /\ cmd'.step = "unresource"
    BY <1>1, <1>21, GotoType DEF RemoveManifest, Steps, At
  <2> QED BY <1>21, <2>1 DEF RemoveManifest, TypeOK, At, history, git, bounds
<1>22. ASSUME NEW left \in SUBSET (Extras \cup {"."}), RemoveResources(left) PROVE Typed'
  <2>1. cmd \in Command /\ cmd.w \in Workloads
    BY <1>1, <1>22 DEF RemoveResources, At
  <2>2. cmd' \in Command /\ cmd'.step # "sync"
    BY <1>22, <2>1 DEF RemoveResources, Command, Steps, AfterRemoval
  <2>3. resources' \in [Workloads -> SUBSET (Extras \cup {"."})] /\ faults' \in Nat
    BY <1>22, <2>1 DEF RemoveResources, TypeOK
  <2> QED BY <1>22, <2>2, <2>3 DEF RemoveResources, TypeOK, At, history, git
<1>23. CASE RemoveRoute
  <2>1. cmd \in Command /\ App(cmd.w) \in Names
    BY <1>1, <1>23 DEF RemoveRoute, At
  <2>2. cmd' \in Command /\ cmd'.step # "sync"
    BY <1>23, <2>1, GotoType DEF RemoveRoute, Steps, AfterRemoval
  <2>3. routes' \in [Names -> Owners]
    BY <1>23, <2>1 DEF RemoveRoute, TypeOK, Owners
  <2> QED BY <1>23, <2>2, <2>3 DEF RemoveRoute, TypeOK, At, history, git, bounds
<1>24. CASE Erase
  <2>1. cmd.w \in Workloads /\ cmd.step = "erase"
    BY <1>1, <1>24 DEF Erase, At
  <2>2. dirs' \in [Workloads -> SUBSET (File \cup {"."})]
    BY <1>24, <2>1 DEF Erase, TypeOK, NoDir
  <2>3. cmd' \in Command \cup {Idle} /\ ~ At("sync")'
    BY <1>24, <2>1 DEF Erase, TypeOK, At, Idle
  <2> QED BY <1>24, <2>2, <2>3 DEF Erase, TypeOK, history, git, bounds
<1>25. CASE Stop
  <2>1. cmd' = Idle /\ ~ At("sync")'
    BY <1>25 DEF Stop, At, Idle
  <2> QED BY <1>25, <2>1 DEF Stop, TypeOK, tree, git, history
<1>26. CASE UNCHANGED vars
  BY <1>26 DEF TypeOK, vars, tree, git, history, bounds, At
<1> QED
  BY <1>2, <1>3, <1>4, <1>5, <1>6, <1>7, <1>8, <1>9, <1>10, <1>11, <1>12, <1>14, <1>15, <1>17,
     <1>18, <1>19, <1>20, <1>21, <1>22, <1>23, <1>24, <1>25, <1>26
     DEF Next, NewStep, EnableStep, DisableStep

(* The state is typed, and the gateway file stays a sequence of complete   *)
(* blocks, one per listener, whatever the commands are and wherever they   *)
(* are stopped.                                                            *)
THEOREM WorkloadsTypeCorrect == Spec => []TypeOK
<1>1. Typed => TypeOK
  BY DEF Typed
<1> QED BY <1>1, TypedInit, TypedStep, PTL DEF Spec

(* gateway.go's editing never breaks the file it edits.                    *)
THEOREM GatewayStaysWellFormed == Spec => []GatewayWellFormed
<1>1. Typed => GatewayWellFormed
  BY DEF Typed, GatewayWellFormed
<1> QED BY <1>1, TypedInit, TypedStep, PTL DEF Spec

-----------------------------------------------------------------------------
(* The invariant is inductive.                                             *)
Inv == Typed /\ Directories /\ Enabling /\ Disabling /\ Committed /\ Serving

(* No command is under way, or one that only writes a new directory.       *)
LEMMA NothingToKeep ==
  ASSUME cmd'.step = "idle" \/ (cmd'.step = "render" /\ dirs'[cmd'.w] # NoDir)
  PROVE  Enabling' /\ Disabling' /\ Committed'
  BY DEF Enabling, Disabling, Committed, AtOneOf, At, Written, Cleared

LEMMA ListenerHasText ==
  ASSUME NEW f \in Seq(Line), NEW a \in Names, a \in Listeners(f)
  PROVE  HasListenerInFile(f, a)
<1>1. DOMAIN f = 1 .. Len(f)
  OBVIOUS
<1> QED BY <1>1, GatewayAssumption, ListenersOf DEF HasListenerInFile

LEMMA UnderWay ==
  ASSUME Typed
  PROVE  /\ cmd = Idle <=> cmd.step = "idle"
         /\ cmd # Idle =>
              /\ cmd \in Command /\ cmd.step \in Steps /\ cmd.w \in Workloads
              /\ App(cmd.w) \in Names
              /\ cmd.gw \in BOOLEAN /\ cmd.sync \in BOOLEAN /\ cmd.push \in BOOLEAN
              /\ cmd.ok \in BOOLEAN
  BY Running, WorkloadType DEF TypeOK, Typed

LEMMA CommandStep ==
  ASSUME Inv, [Next]_vars
  PROVE  Enabling' /\ Disabling' /\ Committed'
<1> USE DEF Inv
<1>1. ASSUME NEW w \in Workloads, New(w) PROVE Enabling' /\ Disabling' /\ Committed'
  <2>1. PICK opt \in Options : Start("render", w, FALSE, opt)
    BY <1>1 DEF New
  <2>2. cmd'.step = "render" /\ cmd'.w = w
    BY <2>1, StartType DEF TypeOK, Typed, Steps
  <2>3. dirs'[w] # NoDir
    BY <1>1 DEF New, Typed, TypeOK, NoDir
  <2> QED BY <2>2, <2>3, NothingToKeep
<1>2. ASSUME NEW w \in Workloads, Enable(w) PROVE Enabling' /\ Disabling' /\ Committed'
  <2>1. PICK opt \in Options : \E gw \in BOOLEAN : Start("manifest", w, gw, opt)
    <3>1. ("gateway.yaml" \in dirs[w]) \in BOOLEAN
      OBVIOUS
    <3> QED BY <1>2, <3>1, Zenon DEF Enable
  <2>2. cmd'.step = "manifest" /\ cmd'.w = w
    BY <2>1, StartType DEF TypeOK, Typed, Steps
  <2>3. dirs'[w] # NoDir
    BY <1>2 DEF Enable, tree, NoDir
  <2> QED BY <2>2, <2>3 DEF Enabling, Disabling, Committed, AtOneOf, At, Written, Cleared
<1>3. ASSUME NEW w \in Workloads, Disable(w) PROVE Enabling' /\ Disabling' /\ Committed'
  <2>1. PICK opt \in Options, gw \in BOOLEAN :
          Start("unlisten", w, gw, opt) /\ gw = (routes[App(w)] # NoRoute)
    <3>1. (routes[App(w)] # NoRoute) \in BOOLEAN
      OBVIOUS
    <3> QED BY <1>3, <3>1, Zenon DEF Disable
  <2>2. cmd'.step = "unlisten" /\ cmd'.w = w /\ cmd'.gw = gw
    BY <2>1, StartType DEF TypeOK, Typed, Steps
  <2>3. ~ cmd'.gw => routes'[App(w)] = NoRoute
    BY <1>3, <2>1, <2>2 DEF Disable, tree
  <2> QED BY <2>2, <2>3 DEF Enabling, Disabling, Committed, AtOneOf, At, Written, Cleared
<1>4. ASSUME NEW w \in Workloads, Delete(w) PROVE Enabling' /\ Disabling' /\ Committed'
  <2>1. PICK opt \in Options : Start("erase", w, FALSE, opt)
    BY <1>4 DEF Delete
  <2>2. cmd'.step = "erase" /\ cmd'.w = w
    BY <2>1, StartType DEF TypeOK, Typed, Steps
  <2>3. w \notin manifest'
    BY <1>4 DEF Delete, tree
  <2> QED BY <2>2, <2>3 DEF Enabling, Disabling, Committed, AtOneOf, At, Written, Cleared
<1>5. ASSUME NEW w \in Workloads, NEW f \in Templates, Edit(w, f)
      PROVE  Enabling' /\ Disabling' /\ Committed'
  BY <1>5, NothingToKeep DEF Edit, Idle
<1>6. ASSUME NEW f \in Templates, RenderTemplate(f) PROVE Enabling' /\ Disabling' /\ Committed'
  <2>1. cmd.w \in Workloads /\ cmd' = cmd /\ cmd.step = "render"
    BY <1>6, UnderWay DEF RenderTemplate, At
  <2>2. dirs'[cmd.w] # NoDir
    BY <1>6, <2>1 DEF RenderTemplate, Typed, TypeOK, NoDir
  <2> QED BY <2>1, <2>2, NothingToKeep
<1>7. CASE WriteSecretSeed \/ Enabled \/ Disabled \/ Stop
  BY <1>7, NothingToKeep DEF WriteSecretSeed, Enabled, Disabled, Finish, Stop, Idle
<1>8. CASE CopyManifest
  <2>1. cmd'.step = "sync" /\ cmd'.w = cmd.w /\ cmd.w \in Workloads
    BY <1>8, UnderWay, GotoType DEF CopyManifest, Steps, At
  <2>2. cmd.w \in manifest' /\ todo' = Copied(cmd.w) /\ todo' \subseteq Extras /\ dirs' = dirs
    BY <1>8 DEF CopyManifest, Copied
  <2> QED BY <2>1, <2>2 DEF Enabling, Disabling, Committed, AtOneOf, At, Written, Cleared, Copied
<1>9. ASSUME NEW done \in {{}} \cup {{f} : f \in Templates}, SyncResources(done)
      PROVE  Enabling' /\ Disabling' /\ Committed'
  <2>1. /\ cmd \in Command /\ cmd.w \in Workloads /\ cmd.w \in manifest /\ cmd.step = "sync"
        /\ todo \subseteq Extras /\ Copied(cmd.w) \subseteq resources[cmd.w] \cup todo
        /\ UNCHANGED <<dirs, manifest>>
    BY <1>9, UnderWay DEF SyncResources, At, Enabling, AtOneOf
  <2>2. /\ resources'[cmd.w] = resources[cmd.w] \cup {"."} \cup done
        /\ todo' = todo \ done
    BY <1>9, <2>1 DEF SyncResources, TypeOK, Typed
  <2>3. CASE done # {}
    <3>1. cmd' = cmd
      BY <1>9, <2>3 DEF SyncResources
    <3> QED BY <2>1, <2>2, <3>1
            DEF Enabling, Disabling, Committed, AtOneOf, At, Written, Cleared, Copied
  <2>4. CASE done = {}
    <3>1. todo = {} /\ Copied(cmd.w) \subseteq resources'[cmd.w]
      BY <1>9, <2>1, <2>2, <2>4 DEF SyncResources
    <3>2. /\ cmd'.step = IF cmd.gw THEN "route" ELSE AfterFiles
          /\ cmd'.w = cmd.w /\ cmd'.gw = cmd.gw /\ cmd'.sync = cmd.sync /\ cmd'.push = cmd.push
      BY <1>9, <2>1, <2>4, GotoType DEF SyncResources, AfterFiles, Steps
    <3>3. Copied(cmd.w)' = Copied(cmd.w)
      BY <2>1, <3>2 DEF Copied
    <3> QED BY <2>1, <3>1, <3>2, <3>3
            DEF Enabling, Disabling, Committed, AtOneOf, At, Written, Cleared, AfterFiles, Copied
  <2> QED BY <2>3, <2>4
<1>10. CASE CopyRoute
  <2>1. /\ cmd.w \in manifest /\ Copied(cmd.w) \subseteq resources[cmd.w]
        /\ cmd \in Command /\ App(cmd.w) \in Names
    BY <1>10, UnderWay DEF CopyRoute, At, Enabling, AtOneOf
  <2>2. cmd'.step = "listener" /\ cmd'.w = cmd.w
    BY <1>10, <2>1, GotoType DEF CopyRoute, Steps
  <2>3. routes'[App(cmd.w)] = cmd.w /\ UNCHANGED <<dirs, manifest, resources>>
    BY <1>10, <2>1 DEF CopyRoute, TypeOK, Typed
  <2> QED BY <2>1, <2>2, <2>3
          DEF Enabling, Disabling, Committed, AtOneOf, At, Written, Cleared, Copied
<1>11. CASE AddListener
  <2>1. /\ cmd.w \in manifest /\ Copied(cmd.w) \subseteq resources[cmd.w]
        /\ routes[App(cmd.w)] = cmd.w
        /\ cmd \in Command /\ App(cmd.w) \in Names
    BY <1>11, UnderWay DEF AddListener, At, Enabling, AtOneOf
  <2>2. cmd'.step = AfterFiles /\ cmd'.w = cmd.w /\ cmd'.sync = cmd.sync
    BY <1>11, <2>1, GotoType DEF AddListener, Steps, AfterFiles
  <2>3. HasListenerInFile(gateway', App(cmd.w))
    <3>1. CASE HasListenerInFile(gateway, App(cmd.w))
      BY <1>11, <3>1 DEF AddListener
    <3>2. CASE ~ HasListenerInFile(gateway, App(cmd.w))
      <4>1. gateway' = AppendListenerToFile(gateway, App(cmd.w))
        BY <1>11, <3>2 DEF AddListener
      <4>2. gateway' \in Seq(Line) /\ App(cmd.w) \in Listeners(gateway')
        BY <2>1, <3>2, <4>1, NoTextNoListener, Appended DEF Typed, TypeOK
      <4> QED BY <2>1, <4>2, ListenerHasText
    <3> QED BY <3>1, <3>2
  <2>4. UNCHANGED <<dirs, manifest, resources, routes>>
    BY <1>11 DEF AddListener
  <2> QED BY <2>1, <2>2, <2>3, <2>4
          DEF Enabling, Disabling, Committed, AtOneOf, At, Written, Cleared, Copied, AfterFiles
<1>12. ASSUME NEW ok \in BOOLEAN, CommitEnable(ok) PROVE Enabling' /\ Disabling' /\ Committed'
  <2>1. /\ cmd.w \in manifest /\ Copied(cmd.w) \subseteq resources[cmd.w]
        /\ cmd.gw => routes[App(cmd.w)] = cmd.w /\ HasListenerInFile(gateway, App(cmd.w))
        /\ cmd \in Command /\ cmd.w \in Workloads
    BY <1>12, UnderWay DEF CommitEnable, At, Enabling, AtOneOf, Written
  <2>2. /\ cmd'.step = (IF cmd.push THEN "push" ELSE "enabled") /\ cmd'.ok = (cmd.ok /\ ok)
        /\ cmd'.w = cmd.w /\ cmd'.gw = cmd.gw /\ cmd'.sync = cmd.sync /\ cmd'.push = cmd.push
    BY <1>12, <2>1 DEF CommitEnable, CommitAndMaybePush, Command
  <2>3. UNCHANGED <<dirs, manifest, resources, routes, gateway>> /\ (ok => head' = StageEnable(cmd.w))
    BY <1>12 DEF CommitEnable, CommitAndMaybePush, tree
  <2>4. Enabling' /\ Disabling'
    BY <2>1, <2>2, <2>3 DEF Enabling, Disabling, AtOneOf, At, Written, Cleared, Copied
  <2>5. cmd'.ok => /\ cmd.w \in head'.manifest
                   /\ head'.resources[cmd.w] = Files(resources[cmd.w])
                   /\ cmd.gw => head'.routes[App(cmd.w)] = cmd.w /\ head'.gateway = gateway
    BY <2>1, <2>2, <2>3, StageEnableType, WorkloadAssumption DEF Typed
  <2>6. Committed'
    BY <2>1, <2>2, <2>3, <2>5 DEF Committed, AtOneOf, At, Written, Cleared
  <2> QED BY <2>4, <2>6
<1>13. ASSUME NEW ok \in BOOLEAN, CommitDisable(ok) PROVE Enabling' /\ Disabling' /\ Committed'
  <2>1. /\ cmd.w \notin manifest /\ cmd.w \in half /\ App(cmd.w) \notin Listeners(gateway)
        /\ routes[App(cmd.w)] = NoRoute /\ (cmd.ok => resources[cmd.w] = NoDir)
        /\ cmd \in Command /\ cmd.w \in Workloads
    BY <1>13, UnderWay DEF CommitDisable, At, Disabling, AtOneOf, Cleared
  <2>2. /\ cmd'.step = (IF cmd.push THEN "push" ELSE "disabled") /\ cmd'.ok = (cmd.ok /\ ok)
        /\ cmd'.w = cmd.w /\ cmd'.gw = cmd.gw /\ cmd'.sync = cmd.sync /\ cmd'.push = cmd.push
    BY <1>13, <2>1 DEF CommitDisable, CommitAndMaybePush, Command
  <2>3. /\ UNCHANGED <<dirs, manifest, resources, routes, gateway, half>>
        /\ ok => head' = IF CanStageDisable THEN StageDisable(cmd.w) ELSE index
    BY <1>13 DEF CommitDisable, CommitAndMaybePush, tree, history
  <2>4. Enabling' /\ Disabling'
    BY <2>1, <2>2, <2>3 DEF Enabling, Disabling, AtOneOf, At, Written, Cleared
  <2>5. ok => \/ cmd.w \notin head'.manifest
              \/ cmd.gw /\ head'.routes[App(cmd.w)] = NoRoute
    <3>1. CASE CanStageDisable
      BY <2>1, <2>3, <3>1, StageDisableType DEF Typed
    <3>2. CASE ~ CanStageDisable
      <4>1. Known(cmd.w) \/ cmd.w \notin index.manifest
        BY <2>1 DEF Known, Siblings
      <4> QED BY <2>3, <3>2, <4>1 DEF CanStageDisable
    <3> QED BY <3>1, <3>2
  <2>6. Committed'
    BY <2>1, <2>2, <2>3, <2>5 DEF Committed, AtOneOf, At, Written, Cleared
  <2> QED BY <2>4, <2>6
<1>14. CASE Push
  <2>1. cmd \in Command /\ cmd.w \in Workloads /\ cmd.step = "push"
    BY <1>14, UnderWay DEF Push, At
  <2>2. /\ cmd'.step = (IF cmd.w \in manifest THEN "enabled" ELSE "disabled") /\ cmd'.ok = cmd.ok
        /\ cmd'.w = cmd.w /\ cmd'.gw = cmd.gw /\ cmd'.sync = cmd.sync /\ cmd'.push = cmd.push
    BY <1>14, <2>1, GotoType DEF Push, Steps
  <2>3. pushed' /\ UNCHANGED <<dirs, manifest, resources, routes, gateway, head, half>>
    BY <1>14 DEF Push, tree, history
  <2> QED BY <2>1, <2>2, <2>3
          DEF Enabling, Disabling, Committed, AtOneOf, At, Written, Cleared, Copied
<1>15. CASE RemoveListener
  <2>1. /\ cmd \in Command /\ cmd.w \in Workloads /\ App(cmd.w) \in Names
        /\ ~ cmd.gw => routes[App(cmd.w)] = NoRoute
    BY <1>15, UnderWay DEF RemoveListener, At, Disabling, AtOneOf
  <2>2. cmd'.step = "unmanifest" /\ cmd'.w = cmd.w /\ cmd'.gw = cmd.gw
    BY <1>15, <2>1, GotoType DEF RemoveListener, Steps
  <2>3. cmd.w \in half' /\ App(cmd.w) \notin Listeners(gateway') /\ routes' = routes
    BY <1>15, <2>1, Removed DEF RemoveListener, Typed, TypeOK
  <2> QED BY <2>1, <2>2, <2>3 DEF Enabling, Disabling, Committed, AtOneOf, At, Written, Cleared
<1>16. CASE RemoveManifest
  <2>1. /\ cmd \in Command /\ cmd.w \in half /\ App(cmd.w) \notin Listeners(gateway)
        /\ ~ cmd.gw => routes[App(cmd.w)] = NoRoute
    BY <1>16, UnderWay DEF RemoveManifest, At, Disabling, AtOneOf
  <2>2. cmd'.step = "unresource" /\ cmd'.w = cmd.w /\ cmd'.gw = cmd.gw
    BY <1>16, <2>1, GotoType DEF RemoveManifest, Steps
  <2>3. cmd.w \notin manifest' /\ UNCHANGED <<gateway, routes, half>>
    BY <1>16 DEF RemoveManifest, history
  <2> QED BY <2>1, <2>2, <2>3 DEF Enabling, Disabling, Committed, AtOneOf, At, Written, Cleared
<1>17. ASSUME NEW left \in SUBSET (Extras \cup {"."}), RemoveResources(left)
       PROVE  Enabling' /\ Disabling' /\ Committed'
  <2>1. /\ cmd \in Command /\ cmd.w \in half /\ App(cmd.w) \notin Listeners(gateway)
        /\ cmd.w \notin manifest /\ cmd.w \in Workloads
        /\ ~ cmd.gw => routes[App(cmd.w)] = NoRoute
    BY <1>17, UnderWay DEF RemoveResources, At, Disabling, AtOneOf
  <2>2. /\ cmd'.step = (IF cmd.gw THEN "unroute" ELSE AfterRemoval) /\ cmd'.ok = (left = NoDir)
        /\ cmd'.w = cmd.w /\ cmd'.gw = cmd.gw /\ cmd'.sync = cmd.sync /\ cmd'.push = cmd.push
    BY <1>17, <2>1 DEF RemoveResources, Command
  <2>3. UNCHANGED <<manifest, gateway, routes, half>> /\ resources'[cmd.w] = left
    BY <1>17, <2>1 DEF RemoveResources, history, Typed, TypeOK
  <2> QED BY <2>1, <2>2, <2>3
          DEF Enabling, Disabling, Committed, AtOneOf, At, Written, Cleared, AfterRemoval
<1>18. CASE RemoveRoute
  <2>1. /\ cmd \in Command /\ cmd.w \in half /\ App(cmd.w) \notin Listeners(gateway)
        /\ cmd.w \notin manifest /\ App(cmd.w) \in Names
        /\ cmd.ok => resources[cmd.w] = NoDir
    BY <1>18, UnderWay DEF RemoveRoute, At, Disabling, AtOneOf
  <2>2. /\ cmd'.step = AfterRemoval /\ cmd'.ok = cmd.ok
        /\ cmd'.w = cmd.w /\ cmd'.gw = cmd.gw /\ cmd'.sync = cmd.sync /\ cmd'.push = cmd.push
    BY <1>18, <2>1, GotoType DEF RemoveRoute, Steps, AfterRemoval
  <2>3. UNCHANGED <<manifest, gateway, resources, half>> /\ routes'[App(cmd.w)] = NoRoute
    BY <1>18, <2>1 DEF RemoveRoute, history, Typed, TypeOK
  <2> QED BY <2>1, <2>2, <2>3
          DEF Enabling, Disabling, Committed, AtOneOf, At, Written, Cleared, AfterRemoval
<1>19. CASE Erase
  <2>1. cmd.step = "erase" /\ cmd.w \notin manifest /\ UNCHANGED manifest
    BY <1>19 DEF Erase, At, Disabling, AtOneOf
  <2>2. CASE cmd' = cmd
    BY <2>1, <2>2 DEF Enabling, Disabling, Committed, AtOneOf, At, Written, Cleared
  <2>3. CASE cmd' = Idle
    BY <2>3, NothingToKeep DEF Idle
  <2> QED BY <1>19, <2>2, <2>3 DEF Erase
<1>20. CASE UNCHANGED vars
  BY <1>20 DEF vars, tree, git, history, Enabling, Disabling, Committed, AtOneOf, At, Written,
               Cleared, Copied
<1> QED
  BY <1>1, <1>2, <1>3, <1>4, <1>5, <1>6, <1>7, <1>8, <1>9, <1>10, <1>11, <1>12, <1>13, <1>14,
     <1>15, <1>16, <1>17, <1>18, <1>19, <1>20 DEF Next, NewStep, EnableStep, DisableStep

-----------------------------------------------------------------------------
(* A directory is never empty, and is there while its manifest is.  What a *)
(* step does to one of them decides what it does to the life of a workload. *)
LEMMA LifeStep ==
  ASSUME Inv, [Next]_vars
  PROVE  Directories' /\ [Contract!Next]_Life
<1> DEFINE Good == Directories' /\ [Contract!Next]_Life
<1> SUFFICES Good
  OBVIOUS
<1>1. /\ Life \in [Workloads -> {"absent", "scaffolded", "enabled"}]
      /\ \A w \in Workloads :
           Life[w] = IF w \in manifest THEN "enabled" ELSE IF dirs[w] = NoDir THEN "absent" ELSE "scaffolded"
  BY DEF Life
<1>2. Life' = [w \in Workloads |->
        IF w \in manifest' THEN "enabled" ELSE IF dirs'[w] = NoDir THEN "absent" ELSE "scaffolded"]
  BY DEF Life
<1>3. ASSUME UNCHANGED <<dirs, manifest>> PROVE Good
  BY <1>3 DEF Life, Inv, Directories
<1>4. ASSUME NEW w \in Workloads, NEW here \in SUBSET (File \cup {"."}),
             dirs' = [dirs EXCEPT ![w] = here], manifest' = manifest,
             dirs[w] # NoDir => here # NoDir, here # NoDir => "." \in here
      PROVE  Good
  <2>1. /\ dirs'[w] = here /\ \A v \in Workloads : v # w => dirs'[v] = dirs[v]
        /\ manifest \subseteq Workloads
    BY <1>4 DEF Inv, Typed, TypeOK
  <2>2. Directories'
    BY <1>4, <2>1 DEF Inv, Directories
  <2>3. CASE w \notin manifest /\ dirs[w] = NoDir /\ here # NoDir
    <3>1. Life' = [Life EXCEPT ![w] = "scaffolded"] /\ Life[w] = "absent"
      BY <1>1, <1>2, <1>4, <2>1, <2>3
    <3> QED BY <2>2, <3>1 DEF Contract!Next, Contract!Scaffold, Contract!Move
  <2>4. CASE ~ (w \notin manifest /\ dirs[w] = NoDir /\ here # NoDir)
    <3>1. Life' = Life
      BY <1>1, <1>2, <1>4, <2>1, <2>4
    <3> QED BY <2>2, <3>1
  <2> QED BY <2>3, <2>4
<1>5. ASSUME NEW w \in Workloads, New(w) PROVE Good
  <2>1. dirs' = [dirs EXCEPT ![w] = {"."}] /\ manifest' = manifest
    BY <1>5 DEF New
  <2>2. {"."} # NoDir
    BY DEF NoDir
  <2> QED BY <1>4, <2>1, <2>2
<1>6. ASSUME NEW w \in Workloads, Enable(w) \/ Disable(w) \/ Delete(w) PROVE Good
  BY <1>3, <1>6 DEF Enable, Disable, Delete, tree
<1>7. ASSUME NEW w \in Workloads, NEW f \in Templates, Edit(w, f) PROVE Good
  <2>1. "." \in dirs[w] /\ dirs[w] \in SUBSET (File \cup {"."}) /\ f # "." /\ f \in File
    BY <1>7, WorkloadAssumption DEF Edit, Inv, Directories, Typed, TypeOK, Templates, File
  <2>2. PICK here \in SUBSET (File \cup {"."}) :
          dirs' = [dirs EXCEPT ![w] = here] /\ "." \in here /\ manifest' = manifest
    <3>1. PICK here : here = IF f \in dirs[w] THEN dirs[w] \ {f} ELSE dirs[w] \cup {f}
      OBVIOUS
    <3>2. here \in SUBSET (File \cup {"."}) /\ "." \in here
      BY <2>1, <3>1
    <3>3. dirs' = [dirs EXCEPT ![w] = here] /\ manifest' = manifest
      BY <1>7, <3>1 DEF Edit
    <3> QED BY <3>2, <3>3
  <2> QED BY <1>4, <2>2 DEF NoDir
<1>8. ASSUME NEW f \in Templates, RenderTemplate(f) PROVE Good
  <2>1. cmd.w \in Workloads /\ f \in File /\ dirs[cmd.w] \in SUBSET (File \cup {"."})
    BY <1>8, UnderWay DEF RenderTemplate, At, Inv, File, Typed, TypeOK
  <2>2. "." \in dirs[cmd.w]
    BY <1>8, <2>1 DEF Inv, RenderTemplate, Directories, Enabling, AtOneOf, At
  <2>3. dirs' = [dirs EXCEPT ![cmd.w] = dirs[cmd.w] \cup {f}] /\ manifest' = manifest
    BY <1>8 DEF RenderTemplate
  <2>4. PICK here \in SUBSET (File \cup {"."}) : here = dirs[cmd.w] \cup {f}
    BY <2>1
  <2> QED BY <1>4, <2>1, <2>2, <2>3, <2>4 DEF NoDir
<1>9. CASE WriteSecretSeed
  <2>1. cmd.w \in Workloads /\ dirs[cmd.w] \in SUBSET (File \cup {"."}) /\ "." \in dirs[cmd.w]
    BY <1>9, UnderWay
       DEF WriteSecretSeed, At, Inv, Typed, TypeOK, Directories, Enabling, AtOneOf
  <2>2. dirs' = [dirs EXCEPT ![cmd.w] = dirs[cmd.w] \cup {".secret-seed"}] /\ manifest' = manifest
    BY <1>9 DEF WriteSecretSeed
  <2>3. ".secret-seed" \in File
    BY DEF File
  <2> QED BY <1>4, <2>1, <2>2, <2>3 DEF NoDir
<1>10. CASE CopyManifest
  <2>1. /\ cmd.w \in Workloads /\ dirs[cmd.w] # NoDir
        /\ dirs' = dirs /\ manifest' = manifest \cup {cmd.w}
    BY <1>10, UnderWay DEF CopyManifest, At, Inv, Enabling, AtOneOf
  <2>2. Directories'
    BY <2>1 DEF Inv, Directories
  <2>3. CASE cmd.w \in manifest
    BY <1>3, <2>1, <2>3
  <2>4. CASE cmd.w \notin manifest
    <3>1. Life' = [Life EXCEPT ![cmd.w] = "enabled"] /\ Life[cmd.w] = "scaffolded"
      BY <1>1, <1>2, <2>1, <2>4
    <3> QED BY <2>1, <2>2, <3>1 DEF Contract!Next, Contract!Promote, Contract!Move
  <2> QED BY <2>3, <2>4
<1>11. CASE RemoveManifest
  <2>1. /\ cmd.w \in Workloads /\ dirs' = dirs /\ manifest' = manifest \ {cmd.w}
    BY <1>11, UnderWay DEF RemoveManifest, At, Inv
  <2>2. Directories'
    BY <2>1 DEF Inv, Directories
  <2>3. CASE cmd.w \notin manifest
    BY <1>3, <2>1, <2>3
  <2>4. CASE cmd.w \in manifest
    <3>1. dirs[cmd.w] # NoDir
      BY <2>4 DEF Inv, Directories
    <3>2. Life' = [Life EXCEPT ![cmd.w] = "scaffolded"] /\ Life[cmd.w] = "enabled"
      BY <1>1, <1>2, <2>1, <2>4, <3>1
    <3> QED BY <2>1, <2>2, <3>2 DEF Contract!Next, Contract!TakeBack, Contract!Move
  <2> QED BY <2>3, <2>4
<1>12. CASE Erase
  <2>1. cmd.w \in Workloads /\ cmd.w \notin manifest /\ manifest' = manifest
    BY <1>12, UnderWay DEF Erase, At, Inv, Disabling, AtOneOf
  <2>2. ASSUME NEW f \in Files(dirs[cmd.w]), dirs' = [dirs EXCEPT ![cmd.w] = @ \ {f}] PROVE Good
    <3>1. "." \in dirs[cmd.w] /\ dirs[cmd.w] \in SUBSET (File \cup {"."}) /\ f # "."
      BY <2>1, <2>2 DEF Files, Inv, Typed, TypeOK, Directories, NoDir
    <3>2. PICK here \in SUBSET (File \cup {"."}) : here = dirs[cmd.w] \ {f} /\ "." \in here
      BY <3>1
    <3> QED BY <1>4, <2>1, <2>2, <3>2 DEF NoDir
  <2>3. ASSUME dirs' = [dirs EXCEPT ![cmd.w] = NoDir] PROVE Good
    <3>1. /\ dirs'[cmd.w] = NoDir /\ \A v \in Workloads : v # cmd.w => dirs'[v] = dirs[v]
          /\ manifest \subseteq Workloads
      BY <2>1, <2>3 DEF Inv, Typed, TypeOK
    <3>2. Directories'
      BY <2>1, <3>1 DEF Inv, Directories
    <3>3. CASE dirs[cmd.w] = NoDir
      <4>1. Life' = Life
        BY <1>1, <1>2, <2>1, <3>1, <3>3
      <4> QED BY <3>2, <4>1
    <3>4. CASE dirs[cmd.w] # NoDir
      <4>1. Life[cmd.w] = "scaffolded" /\ Life'[cmd.w] = "absent"
        BY <1>1, <1>2, <2>1, <3>1, <3>4
      <4>2. \A v \in Workloads : v # cmd.w => Life'[v] = Life[v]
        BY <1>1, <1>2, <2>1, <3>1
      <4>3. Life' = [Life EXCEPT ![cmd.w] = "absent"]
        BY <1>1, <1>2, <4>1, <4>2
      <4> QED BY <2>1, <3>2, <4>1, <4>3 DEF Contract!Next, Contract!Discard, Contract!Move
    <3> QED BY <3>3, <3>4
  <2> QED BY <1>12, <2>2, <2>3 DEF Erase
<1>13. ASSUME NEW done, SyncResources(done) PROVE Good
  BY <1>3, <1>13 DEF SyncResources
<1>14. ASSUME NEW ok, CommitEnable(ok) \/ CommitDisable(ok) PROVE Good
  BY <1>3, <1>14 DEF CommitEnable, CommitDisable, CommitAndMaybePush, tree
<1>15. ASSUME NEW left, RemoveResources(left) PROVE Good
  BY <1>3, <1>15 DEF RemoveResources
<1>16. CASE CopyRoute \/ AddListener \/ Enabled \/ RemoveListener \/ RemoveRoute \/ Disabled
  BY <1>3, <1>16 DEF CopyRoute, AddListener, Enabled, RemoveListener, RemoveRoute, Disabled,
                     Finish, tree
<1>17. CASE Push \/ Stop \/ UNCHANGED vars
  BY <1>3, <1>17 DEF Push, Stop, vars, tree
<1> HIDE DEF Good
<1>18. ASSUME NewStep PROVE Good
  BY <1>8, <1>9, <1>18 DEF NewStep
<1>19. ASSUME EnableStep PROVE Good
  BY <1>10, <1>13, <1>14, <1>16, <1>19 DEF EnableStep
<1>20. ASSUME DisableStep PROVE Good
  BY <1>11, <1>14, <1>15, <1>16, <1>20 DEF DisableStep
<1> QED
  BY <1>5, <1>6, <1>7, <1>12, <1>17, <1>18, <1>19, <1>20 DEF Next

(* Initially nothing is enabled and every directory is complete.           *)
LEMMA LifeInit == Init => Directories /\ Contract!Init
<1> SUFFICES ASSUME Init PROVE Directories /\ Contract!Init
  OBVIOUS
<1>1. Directories
  BY DEF Init, Directories, NoDir
<1>2. Contract!Init
  BY DEF Contract!Init, Life
<1> QED BY <1>1, <1>2

-----------------------------------------------------------------------------
(* What the tree holds of a workload, and what the gateway serves of it.   *)
Belonging == NoResidue /\ RoutesInUse /\ ListenersInUse

(* The steps that touch nothing another workload or a later command reads. *)
Untouched == UNCHANGED <<manifest, resources, routes, gateway, half, served>>

LEMMA UntouchedStep ==
  ASSUME Belonging, Serving, Untouched
  PROVE  Belonging' /\ Serving'
  BY DEF Belonging, Serving, Untouched, NoResidue, RoutesInUse, ListenersInUse, InUse

LEMMA UntouchedBy ==
  ASSUME \/ \E w \in Workloads : \/ New(w) \/ Enable(w) \/ Disable(w) \/ Delete(w)
                                 \/ \E f \in Templates : Edit(w, f)
         \/ NewStep \/ Push \/ Erase \/ Stop \/ UNCHANGED vars
         \/ \E ok \in BOOLEAN : CommitEnable(ok) \/ CommitDisable(ok)
  PROVE  Untouched
<1> USE DEF Untouched, tree, history
<1>1. ASSUME NEW w \in Workloads, New(w) \/ Enable(w) \/ Disable(w) \/ Delete(w) PROVE Untouched
  BY <1>1 DEF New, Enable, Disable, Delete
<1>2. ASSUME NEW w \in Workloads, NEW f \in Templates, Edit(w, f) PROVE Untouched
  BY <1>2 DEF Edit
<1>3. CASE NewStep
  BY <1>3 DEF NewStep, RenderTemplate, WriteSecretSeed
<1>4. CASE Push \/ Erase \/ Stop \/ UNCHANGED vars
  BY <1>4 DEF Push, Erase, Stop, vars
<1>5. ASSUME NEW ok \in BOOLEAN, CommitEnable(ok) \/ CommitDisable(ok) PROVE Untouched
  BY <1>5 DEF CommitEnable, CommitDisable, CommitAndMaybePush
<1> QED BY <1>1, <1>2, <1>3, <1>4, <1>5

(* A workload with a name of its own: a listener whose text contains its   *)
(* name's is its own.                                                      *)
LEMMA OwnListener ==
  ASSUME NEW f \in Seq(Line), NEW w \in Workloads, OwnName(w), HasListenerInFile(f, App(w))
  PROVE  App(w) \in Listeners(f)
<1>1. PICK i \in 1 .. Len(f) : IsMarker(f[i]) /\ <<App(w), f[i].name>> \in Prefixes
  <2>1. DOMAIN f = 1 .. Len(f)
    OBVIOUS
  <2> QED BY <2>1 DEF HasListenerInFile
<1>2. f[i] \in Line
  OBVIOUS
<1>3. f[i].name \in Names
  BY <1>1, <1>2 DEF IsMarker, Line
<1>4. f[i].name = App(w)
  BY <1>1, <1>3 DEF OwnName
<1> QED BY <1>1, <1>4, ListenersOf

LEMMA TreeStep ==
  ASSUME Inv, Belonging, [Next]_vars
  PROVE  Belonging' /\ Serving'
<1> USE DEF Inv
<1>1. /\ manifest \subseteq Workloads /\ half \subseteq Workloads /\ served \subseteq Workloads
      /\ gateway \in Seq(Line) /\ WellFormed(gateway)
      /\ resources \in [Workloads -> SUBSET (Extras \cup {"."})] /\ routes \in [Names -> Owners]
      /\ \A w \in Workloads : App(w) \in Names
  BY WorkloadType DEF Typed, TypeOK
<1>2. CASE Untouched
  BY <1>2, UntouchedStep
<1>3. CASE CopyManifest
  <2>1. /\ manifest' = manifest \cup {cmd.w} /\ half' = half \cup {cmd.w}
        /\ UNCHANGED <<resources, routes, gateway, served>>
    BY <1>3 DEF CopyManifest
  <2>2. Belonging'
    BY <2>1 DEF Belonging, NoResidue, RoutesInUse, ListenersInUse, InUse
  <2> QED BY <2>1, <2>2 DEF Serving
<1>4. ASSUME NEW done, SyncResources(done) PROVE Belonging' /\ Serving'
  <2>1. /\ cmd.w \in manifest /\ UNCHANGED <<manifest, routes, gateway, half, served>>
        /\ \A v \in Workloads : v # cmd.w => resources'[v] = resources[v]
    BY <1>1, <1>4 DEF SyncResources, At, Enabling, AtOneOf, history
  <2>2. Belonging'
    BY <2>1 DEF Belonging, NoResidue, RoutesInUse, ListenersInUse, InUse
  <2> QED BY <2>1, <2>2 DEF Serving
<1>5. CASE CopyRoute
  <2>1. /\ cmd.w \in manifest /\ cmd.w \in Workloads
        /\ UNCHANGED <<manifest, resources, gateway, half, served>>
        /\ routes'[App(cmd.w)] = cmd.w
        /\ \A a \in Names : a # App(cmd.w) => routes'[a] = routes[a]
    BY <1>1, <1>5 DEF CopyRoute, At, Enabling, AtOneOf, history
  <2>2. Belonging'
    BY <2>1 DEF Belonging, NoResidue, RoutesInUse, ListenersInUse, InUse
  <2>3. Serving'
    BY <1>1, <2>1 DEF Serving, OwnName
  <2> QED BY <2>2, <2>3
<1>6. CASE AddListener
  <2>1. /\ cmd.w \in manifest /\ App(cmd.w) \in Names
        /\ UNCHANGED <<manifest, resources, routes, half, served>>
    BY <1>1, <1>6 DEF AddListener, At, Enabling, AtOneOf, history
  <2>2. Listeners(gateway) \subseteq Listeners(gateway')
        /\ Listeners(gateway') \subseteq Listeners(gateway) \cup {App(cmd.w)}
    <3>1. CASE HasListenerInFile(gateway, App(cmd.w))
      BY <1>6, <3>1 DEF AddListener
    <3>2. CASE ~ HasListenerInFile(gateway, App(cmd.w))
      <4>1. gateway' = AppendListenerToFile(gateway, App(cmd.w))
        BY <1>6, <3>2 DEF AddListener
      <4>2. Listeners(gateway') = Listeners(gateway) \cup {App(cmd.w)}
        BY <1>1, <2>1, <3>2, <4>1, NoTextNoListener, Appended
      <4> QED BY <4>2
    <3> QED BY <3>1, <3>2
  <2>3. Belonging'
    BY <2>1, <2>2 DEF Belonging, NoResidue, RoutesInUse, ListenersInUse, InUse
  <2>4. Serving'
    BY <2>1, <2>2 DEF Serving
  <2> QED BY <2>3, <2>4
<1>7. CASE Enabled
  <2>1. /\ cmd.w \in manifest /\ UNCHANGED <<manifest, resources, routes, gateway>>
        /\ half' = (IF cmd.ok THEN half \ {cmd.w} ELSE half \cup {cmd.w})
        /\ served' = (IF cmd.gw THEN served \cup {cmd.w} ELSE served \ {cmd.w})
        /\ cmd.gw => routes[App(cmd.w)] = cmd.w /\ HasListenerInFile(gateway, App(cmd.w))
    BY <1>7 DEF Enabled, Finish, At, Enabling, AtOneOf, Written, tree
  <2>2. manifest \cup half \subseteq manifest' \cup half'
    BY <2>1
  <2>3. Belonging'
    BY <2>1, <2>2 DEF Belonging, NoResidue, RoutesInUse, ListenersInUse, InUse
  <2>4. cmd.gw /\ OwnName(cmd.w) => App(cmd.w) \in Listeners(gateway)
    BY <1>1, <2>1, OwnListener
  <2>5. \A v \in served' \ half' : v # cmd.w => v \in served \ half
    BY <2>1
  <2>6. cmd.w \in served' => cmd.gw
    BY <2>1
  <2>7. Serving'
    BY <2>1, <2>4, <2>5, <2>6 DEF Serving
  <2> QED BY <2>3, <2>7
<1>8. CASE RemoveListener
  <2>1. /\ half' = half \cup {cmd.w} /\ UNCHANGED <<manifest, resources, routes, served>>
        /\ cmd.w \in Workloads
    BY <1>8, UnderWay DEF RemoveListener, At
  <2>2. Listeners(gateway') = Listeners(gateway) \ {App(cmd.w)}
    BY <1>1, <1>8, <2>1, Removed DEF RemoveListener
  <2>3. Belonging'
    BY <2>1, <2>2 DEF Belonging, NoResidue, RoutesInUse, ListenersInUse, InUse
  <2>4. Serving'
    BY <1>1, <2>1, <2>2 DEF Serving, OwnName
  <2> QED BY <2>3, <2>4
<1>9. CASE RemoveManifest
  <2>1. /\ manifest' = manifest \ {cmd.w} /\ UNCHANGED <<resources, routes, gateway, half, served>>
        /\ cmd.w \in half
    BY <1>9 DEF RemoveManifest, At, Disabling, AtOneOf, history
  <2>2. Belonging'
    BY <2>1 DEF Belonging, NoResidue, RoutesInUse, ListenersInUse, InUse
  <2>3. Serving'
    BY <2>1 DEF Serving
  <2> QED BY <2>2, <2>3
<1>10. ASSUME NEW left, RemoveResources(left) PROVE Belonging' /\ Serving'
  <2>1. /\ cmd.w \in half /\ UNCHANGED <<manifest, routes, gateway, half, served>>
        /\ \A v \in Workloads : v # cmd.w => resources'[v] = resources[v]
    BY <1>1, <1>10 DEF RemoveResources, At, Disabling, AtOneOf, history
  <2>2. Belonging'
    BY <2>1 DEF Belonging, NoResidue, RoutesInUse, ListenersInUse, InUse
  <2> QED BY <2>1, <2>2 DEF Serving
<1>11. CASE RemoveRoute
  <2>1. /\ cmd.w \in half /\ cmd.w \in Workloads
        /\ UNCHANGED <<manifest, resources, gateway, half, served>>
        /\ routes'[App(cmd.w)] = NoRoute
        /\ \A a \in Names : a # App(cmd.w) => routes'[a] = routes[a]
    BY <1>1, <1>11 DEF RemoveRoute, At, Disabling, AtOneOf, history
  <2>2. Belonging'
    BY <2>1, WorkloadAssumption DEF Belonging, NoResidue, RoutesInUse, ListenersInUse, InUse
  <2>3. Serving'
    BY <1>1, <2>1 DEF Serving, OwnName
  <2> QED BY <2>2, <2>3
<1>12. CASE Disabled
  <2>1. /\ UNCHANGED <<manifest, resources, routes, gateway>>
        /\ half' = (IF cmd.ok THEN half \ {cmd.w} ELSE half \cup {cmd.w})
        /\ served' = served \ {cmd.w} /\ cmd.w \in Workloads
        /\ cmd.ok => resources[cmd.w] = NoDir
        /\ routes[App(cmd.w)] = NoRoute /\ App(cmd.w) \notin Listeners(gateway)
    BY <1>12, UnderWay DEF Disabled, Finish, At, Disabling, AtOneOf, Cleared, tree
  <2>2. \A a : InUse(a) => InUse(a)' \/ a = App(cmd.w)
    BY <2>1 DEF InUse
  <2>3. NoResidue'
    BY <2>1 DEF Belonging, NoResidue
  <2>4. RoutesInUse'
    BY <2>1, <2>2, WorkloadAssumption DEF Belonging, RoutesInUse
  <2>5. ListenersInUse'
    BY <2>1, <2>2 DEF Belonging, ListenersInUse
  <2>6. Serving'
    BY <2>1 DEF Serving
  <2> QED BY <2>3, <2>4, <2>5, <2>6 DEF Belonging
<1>13. CASE EnableStep
  BY <1>2, <1>3, <1>4, <1>5, <1>6, <1>7, <1>13, UntouchedBy DEF EnableStep
<1>14. CASE DisableStep
  BY <1>2, <1>8, <1>9, <1>10, <1>11, <1>12, <1>14, UntouchedBy DEF DisableStep
<1>15. CASE ~ (EnableStep \/ DisableStep)
  BY <1>2, <1>15, UntouchedBy DEF Next
<1> QED BY <1>13, <1>14, <1>15

LEMMA TreeInit == Init => Belonging /\ Serving
<1> SUFFICES ASSUME Init PROVE Belonging /\ Serving
  OBVIOUS
<1>1. NoResidue
  BY DEF Init, NoResidue
<1>2. RoutesInUse
  BY WorkloadAssumption DEF Init, RoutesInUse
<1>3. ListenersInUse
  BY DEF Init, ListenersInUse
<1>4. Serving
  BY DEF Init, Serving
<1> QED BY <1>1, <1>2, <1>3, <1>4 DEF Belonging

-----------------------------------------------------------------------------
LEMMA InvHolds == Spec => [](Inv /\ Belonging)
<1>1. Init => Inv /\ Belonging
  <2> SUFFICES ASSUME Init PROVE Inv /\ Belonging
    OBVIOUS
  <2>1. cmd.step = "idle"
    BY DEF Init, Idle
  <2>2. Enabling /\ Disabling /\ Committed
    BY <2>1 DEF Enabling, Disabling, Committed, AtOneOf, At, Written, Cleared
  <2> QED BY <2>2, TypedInit, LifeInit, TreeInit DEF Inv
<1>2. Inv /\ Belonging /\ [Next]_vars => (Inv /\ Belonging)'
  <2> SUFFICES ASSUME Inv, Belonging, [Next]_vars PROVE (Inv /\ Belonging)'
    OBVIOUS
  <2>1. Typed'
    BY TypedStep DEF Inv
  <2>2. Enabling' /\ Disabling' /\ Committed'
    BY CommandStep
  <2>3. Directories'
    BY LifeStep
  <2>4. Belonging' /\ Serving'
    BY TreeStep
  <2> QED BY <2>1, <2>2, <2>3, <2>4 DEF Inv
<1> QED BY <1>1, <1>2, PTL DEF Spec

(* disable and delete leave nothing behind: what gitops holds of a         *)
(* workload that is neither enabled nor left half done is nothing.         *)
THEOREM NothingIsLeftBehind == Spec => []NoResidue
<1>1. Belonging => NoResidue
  BY DEF Belonging
<1> QED BY <1>1, InvHolds, PTL

(* A route belongs to a workload of its name that is enabled or was left   *)
(* half done: the order of disable's steps never orphans it.               *)
THEOREM RoutesHaveAnOwner == Spec => []RoutesInUse
<1>1. Belonging => RoutesInUse
  BY DEF Belonging
<1> QED BY <1>1, InvHolds, PTL

(* Likewise for the listeners, those of the platform apart.                *)
THEOREM ListenersHaveAnOwner == Spec => []ListenersInUse
<1>1. Belonging => ListenersInUse
  BY DEF Belonging
<1> QED BY <1>1, InvHolds, PTL

(* An enabled workload with a name of its own keeps the route it brought   *)
(* and the listener that list reports.                                     *)
THEOREM ServedStaysServed == Spec => []EnabledIsServed
<1>1. Inv => EnabledIsServed
  <2> SUFFICES ASSUME Inv, NEW w \in served \ half, OwnName(w)
               PROVE  /\ App(w) \in Listeners(gateway) /\ routes[App(w)] = w
                      /\ w \in DOMAIN List => List[w].enabled /\ List[w].listener
    BY DEF EnabledIsServed
  <2>1. w \in Workloads /\ App(w) \in Names /\ gateway \in Seq(Line)
    BY WorkloadType DEF Inv, Typed, TypeOK
  <2>2. w \in manifest /\ App(w) \in Listeners(gateway) /\ routes[App(w)] = w
    BY DEF Inv, Serving
  <2>3. HasListenerInFile(gateway, App(w))
    BY <2>1, <2>2, ListenerHasText
  <2>4. w \in DOMAIN List => List[w].enabled /\ List[w].listener
    BY <2>2, <2>3 DEF List, Status
  <2> QED BY <2>2, <2>4
<1> QED BY <1>1, InvHolds, PTL

(* A complete enable has copied every manifest, and with --sync committed  *)
(* it; a complete disable --sync has committed the removal, unless git had *)
(* nothing to add for the route.                                           *)
THEOREM CompleteMeansCommitted == Spec => []CompleteIsCommitted
<1>1. Inv => CompleteIsCommitted
  <2> SUFFICES ASSUME Inv PROVE CompleteIsCommitted
    OBVIOUS
  <2>1. Enabling /\ Committed
    BY DEF Inv
  <2> QED BY <2>1 DEF CompleteIsCommitted, Enabling, Committed, Written, Cleared, At, AtOneOf
<1> QED BY <1>1, InvHolds, PTL

(* The commands implement the life the help text describes, wherever they  *)
(* are killed.                                                             *)
THEOREM CommandsFollowTheContract == Spec => LifeFollowsContract
<1>1. Init => Contract!Init
  BY LifeInit
<1>2. Inv /\ [Next]_vars => [Contract!Next]_Life
  BY LifeStep
<1> QED BY <1>1, <1>2, InvHolds, PTL DEF Spec, LifeFollowsContract, Contract!Spec

(* Disabling a workload never takes away the listener of another name.     *)
THEOREM OnlyItsOwnListenerLeaves == Spec => ListenerLeavesWithItsApp
<1> DEFINE Leaves == \A a \in Listeners(gateway) \ Listeners(gateway') :
                       cmd.step = "unlisten" /\ App(cmd.w) = a
<1>1. Inv /\ [Next]_vars => [Leaves]_vars
  <2> SUFFICES ASSUME Inv, [Next]_vars PROVE Leaves
    OBVIOUS
  <2>1. CASE RemoveListener
    <3>1. /\ cmd.step = "unlisten" /\ App(cmd.w) \in Names
          /\ gateway \in Seq(Line) /\ WellFormed(gateway)
      BY <2>1, UnderWay DEF RemoveListener, At, Inv, Typed, TypeOK
    <3>2. Listeners(gateway') = Listeners(gateway) \ {App(cmd.w)}
      BY <2>1, <3>1, Removed DEF RemoveListener
    <3> QED BY <3>1, <3>2
  <2>2. CASE AddListener
    <3>1. App(cmd.w) \in Names /\ gateway \in Seq(Line) /\ WellFormed(gateway)
      BY <2>2, UnderWay DEF AddListener, At, Inv, Typed, TypeOK
    <3>2. CASE HasListenerInFile(gateway, App(cmd.w))
      BY <2>2, <3>2 DEF AddListener
    <3>3. CASE ~ HasListenerInFile(gateway, App(cmd.w))
      <4>1. gateway' = AppendListenerToFile(gateway, App(cmd.w))
        BY <2>2, <3>3 DEF AddListener
      <4>2. Listeners(gateway') = Listeners(gateway) \cup {App(cmd.w)}
        BY <3>1, <3>3, <4>1, NoTextNoListener, Appended
      <4> QED BY <4>2
    <3> QED BY <3>2, <3>3
  <2>3. ASSUME gateway' = gateway PROVE Leaves
    BY <2>3
  <2>4. CASE Untouched
    BY <2>3, <2>4 DEF Untouched
  <2>5. CASE CopyManifest \/ CopyRoute \/ Enabled \/ RemoveManifest \/ RemoveRoute \/ Disabled
    BY <2>3, <2>5 DEF CopyManifest, CopyRoute, Enabled, RemoveManifest, RemoveRoute, Disabled,
                      Finish, tree
  <2>6. ASSUME NEW x, SyncResources(x) \/ RemoveResources(x) PROVE Leaves
    BY <2>3, <2>6 DEF SyncResources, RemoveResources
  <2> HIDE DEF Leaves
  <2>7. CASE EnableStep
    BY <2>2, <2>4, <2>5, <2>6, <2>7, UntouchedBy DEF EnableStep
  <2>8. CASE DisableStep
    BY <2>1, <2>4, <2>5, <2>6, <2>8, UntouchedBy DEF DisableStep
  <2>9. CASE ~ (EnableStep \/ DisableStep)
    BY <2>4, <2>9, UntouchedBy DEF Next
  <2> QED BY <2>7, <2>8, <2>9
<1> QED BY <1>1, InvHolds, PTL DEF Spec, ListenerLeavesWithItsApp

=============================================================================
