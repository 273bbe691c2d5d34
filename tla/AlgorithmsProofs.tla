-------------------------- MODULE AlgorithmsProofs --------------------------
(***************************************************************************)
(* The pure algorithms, for every input.  tailBuffer keeps the end of what *)
(* is written, for every capacity and every way to cut the output into     *)
(* writes; a purge finds the object of a video for every file name, over   *)
(* every alphabet and of every length.                                     *)
(***************************************************************************)
EXTENDS MCAlgorithms, SequenceTheorems, WellFoundedInduction, TLAPS

-----------------------------------------------------------------------------
(* tailBuffer.                                                             *)

\* t is the end of s.
IsTail(t, s) ==
    /\ Len(t) <= Len(s)
    /\ \A i \in 1 .. Len(t) : t[i] = s[Len(s) - Len(t) + i]

\* How much of s the buffer has room for.
Kept(s) == IF Len(s) < maxBytes THEN Len(s) ELSE maxBytes

\* TailExact by position, which concatenation and SubSeq are known by.
Inv ==
    /\ maxBytes \in Nat
    /\ written \in Seq(Chars)
    /\ buf \in Seq(Chars)
    /\ IsTail(buf, written)
    /\ Len(buf) = Kept(written)

\* LastBytes returns the end of its argument.
LEMMA LastBytesIsTail ==
    ASSUME NEW s \in Seq(Chars), NEW n \in 0 .. Len(s)
    PROVE  /\ LastBytes(s, n) \in Seq(Chars)
           /\ Len(LastBytes(s, n)) = n
           /\ IsTail(LastBytes(s, n), s)
<1> DEFINE t == SubSeq(s, Len(s) - n + 1, Len(s))
<1>1. Len(s) \in Nat /\ Len(s) - n + 1 \in 1 .. Len(s) + 1
  OBVIOUS
<1>2. /\ t \in Seq(Chars)
      /\ Len(t) = n
      /\ \A i \in 1 .. n : t[i] = s[Len(s) - n + i]
  BY <1>1
<1> QED BY <1>2 DEF LastBytes, IsTail

\* There is only one end of a given length.
LEMMA TailUnique ==
    ASSUME NEW s \in Seq(Chars), NEW t \in Seq(Chars), NEW u \in Seq(Chars),
           IsTail(t, s), IsTail(u, s), Len(t) = Len(u)
    PROVE  t = u
<1>1. \A i \in 1 .. Len(t) : t[i] = u[i]
  BY DEF IsTail
<1> QED BY <1>1, SeqEqual

\* What is left of an end after dropping its first k bytes, followed by p.
LEMMA TailExtends ==
    ASSUME NEW s \in Seq(Chars), NEW t \in Seq(Chars), NEW p \in Seq(Chars), IsTail(t, s),
           NEW k \in 0 .. Len(t)
    PROVE  LET u == SubSeq(t, k + 1, Len(t)) \o p
           IN  u \in Seq(Chars) /\ Len(u) = Len(t) - k + Len(p) /\ IsTail(u, s \o p)
<1> DEFINE r == SubSeq(t, k + 1, Len(t))
           u == r \o p
           w == s \o p
<1>1. /\ r \in Seq(Chars)
      /\ Len(r) = Len(t) - k
      /\ \A i \in 1 .. Len(r) : r[i] = t[k + i]
  OBVIOUS
<1>2. /\ u \in Seq(Chars)
      /\ Len(u) = Len(r) + Len(p)
      /\ \A i \in 1 .. Len(u) : u[i] = IF i <= Len(r) THEN r[i] ELSE p[i - Len(r)]
  BY <1>1
<1>3. /\ w \in Seq(Chars)
      /\ Len(w) = Len(s) + Len(p)
      /\ \A i \in 1 .. Len(w) : w[i] = IF i <= Len(s) THEN s[i] ELSE p[i - Len(s)]
  OBVIOUS
<1> HIDE DEF r, u, w
<1>4. ASSUME NEW i \in 1 .. Len(r)
      PROVE  r[i] = s[Len(s) - Len(r) + i]
  <2>1. k + i \in 1 .. Len(t) /\ Len(s) - Len(t) + (k + i) = Len(s) - Len(r) + i
    BY <1>1
  <2> QED BY <1>1, <2>1 DEF IsTail
<1>5. Len(r) \in Nat /\ Len(r) <= Len(s) /\ Len(s) \in Nat /\ Len(p) \in Nat
  BY <1>1 DEF IsTail
<1>6. \A i \in 1 .. Len(u) : u[i] = w[Len(w) - Len(u) + i]
  <2> SUFFICES ASSUME NEW i \in 1 .. Len(u)
               PROVE  u[i] = w[Len(w) - Len(u) + i]
    OBVIOUS
  <2>1. Len(w) - Len(u) + i = Len(s) - Len(r) + i /\ Len(s) - Len(r) + i \in 1 .. Len(w)
    BY <1>2, <1>3, <1>5
  <2>2. CASE i <= Len(r)
    <3>1. u[i] = r[i] BY <1>2, <2>2
    <3>2. Len(s) - Len(r) + i <= Len(s) BY <1>5, <2>2
    <3>3. w[Len(s) - Len(r) + i] = s[Len(s) - Len(r) + i] BY <1>3, <2>1, <3>2
    <3>4. i \in 1 .. Len(r) BY <1>2, <1>5, <2>2
    <3> QED BY <1>4, <2>1, <3>1, <3>3, <3>4
  <2>3. CASE i > Len(r)
    <3>1. u[i] = p[i - Len(r)] BY <1>2, <1>5, <2>3
    <3>2. /\ ~(Len(s) - Len(r) + i <= Len(s))
          /\ (Len(s) - Len(r) + i) - Len(s) = i - Len(r)
      BY <1>5, <2>3
    <3>3. w[Len(s) - Len(r) + i] = p[(Len(s) - Len(r) + i) - Len(s)] BY <1>3, <2>1, <3>2
    <3> QED BY <2>1, <3>1, <3>2, <3>3
  <2> QED BY <1>2, <1>5, <2>2, <2>3
<1>7. Len(u) <= Len(w)
  BY <1>2, <1>3, <1>5
<1> QED BY <1>1, <1>2, <1>6, <1>7 DEF IsTail, r, u, w

\* An end of the last piece is an end of the whole.
LEMMA TailOfLast ==
    ASSUME NEW s \in Seq(Chars), NEW p \in Seq(Chars), NEW t \in Seq(Chars), IsTail(t, p)
    PROVE  IsTail(t, s \o p)
BY DEF IsTail

\* Write's four cases: no capacity, a piece as large as the buffer, a piece that
\* displaces older bytes, and one that fits.
LEMMA WriteKeepsInv ==
    ASSUME Inv, NEW p \in Seq(Chars), Write(p)
    PROVE  Inv'
<1>1. /\ maxBytes' = maxBytes
      /\ maxBytes \in Nat
      /\ written' = written \o p
      /\ written' \in Seq(Chars)
      /\ Len(written') = Len(written) + Len(p)
      /\ Len(p) \in Nat /\ Len(written) \in Nat /\ Len(buf) \in Nat
  BY DEF Inv, Write
<1>2. SUFFICES buf' \in Seq(Chars) /\ IsTail(buf', written') /\ Len(buf') = Kept(written)'
  BY <1>1 DEF Inv
<1>3. Kept(written)' = IF Len(written') < maxBytes THEN Len(written') ELSE maxBytes
  BY <1>1 DEF Kept
<1>4. CASE maxBytes = 0
  <2>1. buf' = buf /\ Len(buf) = 0
    BY <1>4 DEF Write, Inv, Kept
  <2> QED BY <2>1, <1>1, <1>3, <1>4 DEF Inv, IsTail
<1>5. CASE maxBytes > 0 /\ Len(p) >= maxBytes
  <2>1. buf' = LastBytes(p, maxBytes) BY <1>5, <1>1 DEF Write
  <2>2. buf' \in Seq(Chars) /\ Len(buf') = maxBytes /\ IsTail(buf', p)
    BY <2>1, <1>1, <1>5, LastBytesIsTail
  <2>3. IsTail(buf', written')
    BY <2>2, <1>1, TailOfLast DEF Inv
  <2> QED BY <2>2, <2>3, <1>1, <1>3, <1>5
<1>6. CASE maxBytes > 0 /\ Len(p) < maxBytes /\ Needed(p) > 0
  <2> ~(maxBytes <= 0) /\ ~(Len(p) >= maxBytes) BY <1>1, <1>6
  <2>1. buf' = SubSeq(buf, Needed(p) + 1, Len(buf)) \o p BY <1>6, Zenon DEF Write
  <2>2. Needed(p) \in 0 .. Len(buf) BY <1>1, <1>6 DEF Needed
  <2>3. /\ buf' \in Seq(Chars)
        /\ Len(buf') = Len(buf) - Needed(p) + Len(p)
        /\ IsTail(buf', written')
    <3>1. /\ SubSeq(buf, Needed(p) + 1, Len(buf)) \o p \in Seq(Chars)
          /\ Len(SubSeq(buf, Needed(p) + 1, Len(buf)) \o p) = Len(buf) - Needed(p) + Len(p)
          /\ IsTail(SubSeq(buf, Needed(p) + 1, Len(buf)) \o p, written \o p)
      <4> written \in Seq(Chars) /\ buf \in Seq(Chars) /\ IsTail(buf, written) BY DEF Inv
      <4> QED BY <2>2, TailExtends, ZenonT(60)
    <3> QED BY <1>1, <2>1, <3>1, Zenon
  <2>4. Len(buf') = maxBytes BY <2>3, <1>1 DEF Needed
  <2> QED BY <2>3, <2>4, <1>1, <1>3, <1>6 DEF Inv, Kept, Needed
<1>7. CASE maxBytes > 0 /\ Len(p) < maxBytes /\ Needed(p) <= 0
  <2> ~(maxBytes <= 0) /\ ~(Len(p) >= maxBytes) /\ ~(Needed(p) > 0) BY <1>1, <1>7 DEF Needed
  <2>1. buf' = buf \o p BY Zenon DEF Write
  <2>2. SubSeq(buf, 0 + 1, Len(buf)) = buf
    <3> buf \in Seq(Chars) BY DEF Inv
    <3>1. SubSeq(buf, 1, Len(buf)) = buf BY SubSeqFull, Zenon
    <3>2. 0 + 1 = 1 OBVIOUS
    <3> QED BY <3>1, <3>2, Zenon
  <2>3. /\ buf' \in Seq(Chars)
        /\ Len(buf') = Len(buf) - 0 + Len(p)
        /\ IsTail(buf', written')
    <3>1. /\ SubSeq(buf, 0 + 1, Len(buf)) \o p \in Seq(Chars)
          /\ Len(SubSeq(buf, 0 + 1, Len(buf)) \o p) = Len(buf) - 0 + Len(p)
          /\ IsTail(SubSeq(buf, 0 + 1, Len(buf)) \o p, written \o p)
      <4> written \in Seq(Chars) /\ buf \in Seq(Chars) /\ IsTail(buf, written) BY DEF Inv
      <4> 0 \in 0 .. Len(buf) BY <1>1
      <4> QED BY TailExtends, ZenonT(60)
    <3> QED BY <1>1, <2>1, <2>2, <3>1, Zenon
  <2>4. Len(buf) + Len(p) <= maxBytes /\ Len(p) < maxBytes BY <1>1, <1>7 DEF Needed
  <2>5. Len(buf) = IF Len(written) < maxBytes THEN Len(written) ELSE maxBytes BY DEF Inv, Kept
  <2>6. Len(buf') = Kept(written)'
    <3>1. Len(buf') = Len(buf) + Len(p) BY <2>3, <1>1
    <3>2. /\ Len(p) \in Nat /\ Len(written) \in Nat /\ maxBytes \in Nat
          /\ Len(written') = Len(written) + Len(p)
      BY <1>1
    <3>3. CASE Len(written) < maxBytes
      <4>1. Len(buf') = Len(written') /\ Len(written') <= maxBytes
        BY <3>1, <3>2, <2>4, <2>5, <3>3
      <4> QED BY <4>1, <3>2, <1>3
    <3>4. CASE ~(Len(written) < maxBytes)
      BY <3>1, <3>2, <2>4, <2>5, <1>3, <3>4
    <3> QED BY <3>3, <3>4
  <2> QED BY <2>3, <2>6
<1> QED BY <1>1, <1>4, <1>5, <1>6, <1>7 DEF Needed

\* The invariant holds in every reachable state of every instance.
THEOREM Invariance == Spec => []Inv
<1>1. Init => Inv
  BY BufferAssumption DEF Init, Inv, IsTail, Kept
<1>2. Inv /\ [Next]_vars => Inv'
  <2> SUFFICES ASSUME Inv, [Next]_vars PROVE Inv' OBVIOUS
  <2>1. CASE UNCHANGED vars BY <2>1 DEF vars, Inv, Kept
  <2>2. ASSUME NEW n \in 0 .. MaxText, NEW p \in [1 .. n -> Chars], Write(p)
        PROVE  Inv'
    <3>1. p \in Seq(Chars) BY BufferAssumption
    <3> QED BY <2>2, <3>1, WriteKeepsInv
  <2> QED BY <2>1, <2>2 DEF Next
<1> QED BY <1>1, <1>2, PTL DEF Spec

\* In whatever pieces ffmpeg's output arrives, an error message quotes exactly
\* the last maxBytes bytes of it.
THEOREM BufferIsTail == Spec => []TailExact
<1>1. Inv => TailExact
  <2> SUFFICES ASSUME Inv PROVE TailExact OBVIOUS
  <2>1. Kept(written) \in 0 .. Len(written) BY DEF Inv, Kept
  <2> QED BY <2>1, LastBytesIsTail, TailUnique DEF Inv, TailExact, Kept
<1> QED BY <1>1, Invariance, PTL

-----------------------------------------------------------------------------
(* Induction.  The library states it for a predicate; here a set takes the *)
(* predicate's place.                                                      *)

\* Every set of natural numbers has a least element.
LEMMA Least ==
    ASSUME NEW T \in SUBSET Nat, T # {}
    PROVE  \E m \in T : \A k \in T : m <= k
<1>1. PICK m \in T : \A k \in T : ~(<<k, m>> \in OpToRel(<, Nat))
  BY WFMin, NatLessThanWellFounded, Zenon
<1>2. ASSUME NEW k \in T
      PROVE  m <= k
  <2>1. ~(<<k, m>> \in {p \in Nat \X Nat : p[1] < p[2]}) BY <1>1, Zenon DEF OpToRel
  <2> QED BY <2>1
<1> QED BY <1>2

\* Max and Min of positions in a text.
LEMMA MaxMin ==
    ASSUME NEW n \in Nat, NEW S \in SUBSET (1 .. n), S # {}
    PROVE  /\ Max(S) \in S /\ \A k \in S : k <= Max(S)
           /\ Min(S) \in S /\ \A k \in S : Min(S) <= k
<1>1. \E m \in S : \A k \in S : m <= k
  BY Least
<1>2. \E m \in S : \A k \in S : m >= k
  <2> DEFINE T == {n - k : k \in S}
  <2>1. T \in SUBSET Nat /\ T # {}
    <3>1. \A k \in S : n - k \in Nat OBVIOUS
    <3>2. PICK k \in S : TRUE OBVIOUS
    <3>3. n - k \in T BY <3>2
    <3> QED BY <3>1, <3>3
  <2>2. PICK t \in T : \A u \in T : t <= u BY <2>1, Least
  <2>3. PICK m \in S : t = n - m OBVIOUS
  <2>4. \A k \in S : n - m <= n - k BY <2>2, <2>3
  <2> QED BY <2>4
<1>3. Max(S) \in S /\ \A k \in S : Max(S) >= k
  BY <1>2 DEF Max
<1>4. Min(S) \in S /\ \A k \in S : Min(S) <= k
  BY <1>1 DEF Min
<1> QED BY <1>3, <1>4

\* Induction up to N, for a set in place of a predicate.
LEMMA InductionUpTo ==
    ASSUME NEW N \in Nat, NEW D, 0 \in D, \A n \in 1 .. N : n - 1 \in D => n \in D
    PROVE  \A n \in 0 .. N : n \in D
<1> DEFINE T == {n \in 0 .. N : n \notin D}
<1>1. SUFFICES ASSUME T # {} PROVE FALSE
  OBVIOUS
<1>2. PICK m \in T : \A k \in T : m <= k
  <2>1. T \in SUBSET Nat OBVIOUS
  <2> QED BY <1>1, <2>1, Least
<1>3. m \in 1 .. N /\ m - 1 \in 0 .. N /\ ~(m <= m - 1) BY <1>2
<1> QED BY <1>2, <1>3

-----------------------------------------------------------------------------
(* Storage keys.  Split, FlattenSeq and Clean are recursive functions: for *)
(* the texts that keys are made of, each equals an explicit function g,    *)
(* because g solves the recursion and so does whatever CHOOSE picks.       *)

\* A text without slashes is one part.
LEMMA SplitPlain ==
    ASSUME NEW A, NEW s \in Seq(A), \A i \in 1 .. Len(s) : s[i] # "/"
    PROVE  Split(s) = <<s>>
<1> DEFINE F(f) == [n \in 0 .. Len(s) |->
                      IF n = 0 THEN << << >> >>
                      ELSE IF s[n] = "/" THEN Append(f[n - 1], << >>)
                      ELSE Front(f[n - 1]) \o <<Append(Last(f[n - 1]), s[n])>>]
           upTo == CHOOSE f : f = F(f)
           g == [n \in 0 .. Len(s) |-> <<SubSeq(s, 1, n)>>]
<1>1. Split(s) = upTo[Len(s)]
  BY Zenon DEF Split
<1>2. ASSUME NEW n \in 1 .. Len(s)
      PROVE  Front(g[n - 1]) \o <<Append(Last(g[n - 1]), s[n])>> = g[n]
  <2>1. g[n - 1] = <<SubSeq(s, 1, n - 1)>> /\ g[n] = <<SubSeq(s, 1, n)>> OBVIOUS
  <2>2. Front(g[n - 1]) = << >> BY <2>1 DEF Front
  <2>3. Last(g[n - 1]) = SubSeq(s, 1, n - 1) BY <2>1 DEF Last
  <2>4. Append(SubSeq(s, 1, n - 1), s[n]) = SubSeq(s, 1, n) OBVIOUS
  <2>5. << >> \o <<SubSeq(s, 1, n)>> = <<SubSeq(s, 1, n)>> OBVIOUS
  <2> QED BY <2>1, <2>2, <2>3, <2>4, <2>5, Zenon
<1>3. g[0] = << << >> >>
  OBVIOUS
<1>4. g = F(g)
  <2>1. ASSUME NEW n \in 0 .. Len(s) PROVE g[n] = F(g)[n]
    <3>1. CASE n = 0 BY <1>3, <3>1
    <3>2. CASE n # 0
      <4>1. n \in 1 .. Len(s) BY <3>2
      <4>2. s[n] # "/" BY <4>1
      <4>3. F(g)[n] = Front(g[n - 1]) \o <<Append(Last(g[n - 1]), s[n])>>
        BY <3>2, <4>2, Zenon
      <4> QED BY <1>2, <4>1, <4>3, Zenon
    <3> QED BY <3>1, <3>2
  <2> QED BY <2>1, Zenon
<1>5. upTo = F(upTo)
  BY <1>4, Zenon
<1> HIDE DEF upTo, g
<1>6. upTo[0] = g[0]
  BY <1>3, <1>5
<1> DEFINE D == {n \in 0 .. Len(s) : upTo[n] = g[n]}
<1>7. ASSUME NEW n \in 1 .. Len(s), n - 1 \in D
      PROVE  n \in D
  <2>1. n \in 0 .. Len(s) /\ n # 0 /\ s[n] # "/" OBVIOUS
  <2>2. upTo[n] = F(upTo)[n] BY <1>5, Zenon
  <2>3. F(upTo)[n] = Front(upTo[n - 1]) \o <<Append(Last(upTo[n - 1]), s[n])>>
    BY <2>1, Zenon
  <2> QED BY <1>2, <1>7, <2>1, <2>2, <2>3, Zenon
<1>8. upTo[Len(s)] = g[Len(s)]
  <2>1. 0 \in D /\ Len(s) \in Nat /\ Len(s) \in 0 .. Len(s) BY <1>6
  <2> HIDE DEF D
  <2>2. Len(s) \in D BY <1>7, <2>1, InductionUpTo
  <2> QED BY <2>2 DEF D
<1>9. g[Len(s)] = <<s>>
  BY DEF g
<1> QED BY <1>1, <1>8, <1>9

\* Flattening undoes the splitting of texts that are one part each.
LEMMA FlattenSingles ==
    ASSUME NEW A, NEW texts \in Seq(A), Len(texts) > 0,
           NEW seqs, seqs = [i \in DOMAIN texts |-> <<texts[i]>>]
    PROVE  FlattenSeq(seqs) = texts
<1> DEFINE N == Len(texts)
           F(f) == [i \in 1 .. Len(seqs) |-> IF i = 1 THEN seqs[i] ELSE f[i - 1] \o seqs[i]]
           flatten == CHOOSE f : f = F(f)
           g == [n \in 1 .. Len(seqs) |-> SubSeq(texts, 1, n)]
<1>1. /\ DOMAIN texts = 1 .. N /\ N \in Nat /\ N > 0
      /\ seqs \in Seq(Seq(A)) /\ Len(seqs) = N
      /\ \A i \in 1 .. N : seqs[i] = <<texts[i]>>
  <2>1. DOMAIN texts = 1 .. N /\ N \in Nat /\ N > 0 /\ \A i \in 1 .. N : texts[i] \in A
    OBVIOUS
  <2>2. \A i \in 1 .. N : seqs[i] = <<texts[i]>> /\ <<texts[i]>> \in Seq(A)
    <3> HIDE DEF N
    <3> QED BY <2>1
  <2>3. seqs \in [1 .. N -> Seq(A)]
    <3> HIDE DEF N
    <3> QED BY <2>1, <2>2
  <2> HIDE DEF N
  <2>4. seqs \in Seq(Seq(A)) /\ Len(seqs) = N BY <2>1, <2>3
  <2> QED BY <2>1, <2>2, <2>4
<1> HIDE DEF N
<1>2. FlattenSeq(seqs) = flatten[Len(seqs)]
  <2>1. ~(Len(seqs) = 0) BY <1>1
  <2> QED BY <2>1, Zenon DEF FlattenSeq
<1>3. ASSUME NEW n \in 1 .. Len(seqs), n # 1
      PROVE  g[n - 1] \o seqs[n] = g[n]
  <2>1. n - 1 \in 1 .. Len(seqs) /\ n \in 1 .. Len(texts) BY <1>1, <1>3 DEF N
  <2>2. g[n - 1] = SubSeq(texts, 1, n - 1) /\ g[n] = SubSeq(texts, 1, n) BY <2>1
  <2>3. SubSeq(texts, 1, n) = SubSeq(texts, 1, n - 1) \o <<texts[n]>>
    <3>1. 1 \in 1 .. Len(texts) /\ n \in 1 .. Len(texts) BY <2>1
    <3> QED BY <3>1, SubSeqRecursiveSecond, Zenon
  <2>4. seqs[n] = <<texts[n]>> BY <1>1
  <2> QED BY <2>2, <2>3, <2>4, Zenon
<1>4. g[1] = seqs[1]
  <2>1. SubSeq(texts, 1, 1) = SubSeq(texts, 1, 1 - 1) \o <<texts[1]>>
    <3>1. 1 \in 1 .. Len(texts) BY <1>1 DEF N
    <3> QED BY <3>1, SubSeqRecursiveSecond, Zenon
  <2>2. SubSeq(texts, 1, 1 - 1) = << >> BY SubSeqEmpty
  <2>3. << >> \o <<texts[1]>> = <<texts[1]>> OBVIOUS
  <2>4. 1 \in 1 .. N /\ 1 \in 1 .. Len(seqs) BY <1>1
  <2>5. seqs[1] = <<texts[1]>> BY <1>1, <2>4, Zenon
  <2>6. g[1] = SubSeq(texts, 1, 1) BY <2>4, Zenon
  <2> QED BY <2>1, <2>2, <2>3, <2>5, <2>6, Zenon
<1>5. g = F(g)
  <2>1. ASSUME NEW n \in 1 .. Len(seqs) PROVE g[n] = F(g)[n]
    <3>1. CASE n = 1 BY <1>4, <3>1, Zenon
    <3>2. CASE n # 1 BY <1>3, <3>2, Zenon
    <3> QED BY <3>1, <3>2
  <2> QED BY <2>1, Zenon
<1>6. flatten = F(flatten)
  BY <1>5, Zenon
<1> HIDE DEF flatten, g
<1> DEFINE D == {0} \cup {n \in 1 .. Len(seqs) : flatten[n] = g[n]}
<1>7. ASSUME NEW n \in 1 .. Len(seqs), n - 1 \in D
      PROVE  n \in D
  <2>1. flatten[n] = F(flatten)[n] BY <1>6, Zenon
  <2>2. CASE n = 1 BY <1>4, <2>1, <2>2
  <2>3. CASE n # 1
    <3>1. n - 1 # 0 BY <2>3
    <3>2. flatten[n - 1] = g[n - 1] BY <1>7, <3>1
    <3>3. F(flatten)[n] = flatten[n - 1] \o seqs[n] BY <2>3, Zenon
    <3> QED BY <1>3, <2>1, <2>3, <3>2, <3>3, Zenon
  <2> QED BY <2>2, <2>3
<1>8. flatten[N] = g[N]
  <2>1. 0 \in D /\ Len(seqs) \in Nat /\ Len(seqs) \in 0 .. Len(seqs) BY <1>1
  <2> HIDE DEF D
  <2>2. Len(seqs) \in D BY <1>7, <2>1, InductionUpTo
  <2> QED BY <1>1, <2>2 DEF D
<1>9. g[N] = texts
  BY <1>1 DEF g, N
<1> QED BY <1>1, <1>2, <1>8, <1>9

\* The first n of s.
LEMMA Prefix ==
    ASSUME NEW A, NEW s \in Seq(A), NEW n \in 0 .. Len(s)
    PROVE  /\ SubSeq(s, 1, n) \in Seq(A)
           /\ Len(SubSeq(s, 1, n)) = n
           /\ \A i \in 1 .. n : SubSeq(s, 1, n)[i] = s[i]
OBVIOUS

\* A part that path.Clean keeps whatever comes before it.
Ordinary(p) == p \notin {<< >>, <<".">>, <<".", ".">>}

\* Ordinary parts are kept; ".." after them takes the last one along.
LEMMA CleanOrdinary ==
    ASSUME NEW A, NEW parts \in Seq(A), NEW k \in 0 .. Len(parts),
           \A i \in 1 .. k : Ordinary(parts[i]),
           \/ k = Len(parts)
           \/ k = Len(parts) - 1 /\ k > 0 /\ parts[Len(parts)] = <<".", ".">>
    PROVE  Clean(parts) = SubSeq(parts, 1, IF k = Len(parts) THEN k ELSE k - 1)
<1> DEFINE N == Len(parts)
           F(f) == [n \in 0 .. Len(parts) |-> IF n = 0 THEN << >> ELSE Push(f[n - 1], parts[n])]
           upTo == CHOOSE f : f = F(f)
           len(n) == IF n <= k THEN n ELSE k - 1
           g == [n \in 0 .. Len(parts) |-> SubSeq(parts, 1, len(n))]
<1>1. Clean(parts) = upTo[Len(parts)]
  BY Zenon DEF Clean
<1>2. ASSUME NEW n \in 1 .. Len(parts)
      PROVE  Push(g[n - 1], parts[n]) = g[n]
  <2>1. n - 1 \in 0 .. Len(parts) /\ n - 1 <= k /\ k \in Nat OBVIOUS
  <2>2. g[n - 1] = SubSeq(parts, 1, n - 1) BY <2>1
  <2>3. CASE n <= k
    <3>1. Push(SubSeq(parts, 1, n - 1), parts[n]) = Append(SubSeq(parts, 1, n - 1), parts[n])
      <4>1. Ordinary(parts[n]) BY <2>3
      <4> QED BY <4>1, Zenon DEF Push, Ordinary
    <3>2. Append(SubSeq(parts, 1, n - 1), parts[n]) = SubSeq(parts, 1, n) OBVIOUS
    <3>3. g[n] = SubSeq(parts, 1, n) BY <2>3
    <3> QED BY <2>2, <3>1, <3>2, <3>3, Zenon
  <2>4. CASE ~(n <= k)
    <3>1. n = Len(parts) /\ k = n - 1 /\ k > 0 /\ parts[n] = <<".", ".">> BY <2>1, <2>4
    <3> DEFINE q == SubSeq(parts, 1, k)
    <3>2. q \in Seq(A) /\ Len(q) = k /\ q # << >> /\ q[k] = parts[k]
      <4>1. q \in Seq(A) /\ Len(q) = k /\ \A i \in 1 .. k : q[i] = parts[i] BY Prefix, Zenon
      <4>2. k \in 1 .. k BY <3>1
      <4> HIDE DEF q
      <4>3. q # << >> BY <3>1, <4>1
      <4> QED BY <4>1, <4>2, <4>3, Zenon
    <3>7. Last(q) = parts[k] BY <3>2, Zenon DEF Last
    <3>8. Front(q) = SubSeq(parts, 1, k - 1)
      <4>1. SubSeq(q, 1, k - 1) = SubSeq(parts, 1, k - 1) BY <3>1
      <4> QED BY <3>2, <4>1, Zenon DEF Front
    <3>3. Last(q) # parts[n] BY <3>1, <3>7 DEF Ordinary
    <3>4. parts[n] \notin {<< >>, <<".">>} BY <3>1
    <3>5. Push(q, parts[n]) = Front(q)
      BY <3>1, <3>2, <3>3, <3>4, Zenon DEF Push
    <3>6. g[n] = SubSeq(parts, 1, k - 1) BY <2>4
    <3> QED BY <2>2, <3>1, <3>8, <3>5, <3>6, Zenon
  <2> QED BY <2>3, <2>4
<1>3. g[0] = << >>
  OBVIOUS
<1>4. g = F(g)
  <2>1. ASSUME NEW n \in 0 .. Len(parts) PROVE g[n] = F(g)[n]
    <3>1. CASE n = 0 BY <1>3, <3>1
    <3>2. CASE n # 0
      <4>1. n \in 1 .. Len(parts) BY <3>2
      <4> QED BY <1>2, <3>2, <4>1, Zenon
    <3> QED BY <3>1, <3>2
  <2> QED BY <2>1, Zenon
<1>5. upTo = F(upTo)
  BY <1>4, Zenon
<1> HIDE DEF upTo, g
<1> DEFINE D == {n \in 0 .. Len(parts) : upTo[n] = g[n]}
<1>6. ASSUME NEW n \in 1 .. Len(parts), n - 1 \in D
      PROVE  n \in D
  <2>1. n \in 0 .. Len(parts) /\ n # 0 OBVIOUS
  <2>2. upTo[n] = F(upTo)[n] BY <1>5, Zenon
  <2>3. F(upTo)[n] = Push(upTo[n - 1], parts[n]) BY <2>1, Zenon
  <2> QED BY <1>2, <1>6, <2>1, <2>2, <2>3, Zenon
<1>7. upTo[Len(parts)] = g[Len(parts)]
  <2>1. 0 \in D /\ Len(parts) \in Nat /\ Len(parts) \in 0 .. Len(parts) BY <1>3, <1>5
  <2> HIDE DEF D
  <2>2. Len(parts) \in D BY <1>6, <2>1, InductionUpTo
  <2> QED BY <2>2 DEF D
<1>8. g[Len(parts)] = SubSeq(parts, 1, IF k = Len(parts) THEN k ELSE k - 1)
  BY DEF g
<1> QED BY <1>1, <1>7, <1>8

\* path.Clean changes nothing in a path of ordinary parts.
LEMMA CleanPlain ==
    ASSUME NEW A, NEW parts \in Seq(A), \A i \in 1 .. Len(parts) : Ordinary(parts[i])
    PROVE  Clean(parts) = parts
<1>1. Len(parts) \in 0 .. Len(parts) OBVIOUS
<1>2. Clean(parts) = SubSeq(parts, 1, IF Len(parts) = Len(parts) THEN Len(parts) ELSE Len(parts) - 1)
  BY <1>1, CleanOrdinary, Zenon
<1> QED BY <1>2

\* A ".." at the end goes, and with it the part before it.
LEMMA CleanUp ==
    ASSUME NEW A, NEW parts \in Seq(A), NEW k \in Nat, k > 0, Len(parts) = k + 1,
           \A i \in 1 .. k : Ordinary(parts[i]), parts[k + 1] = <<".", ".">>
    PROVE  Clean(parts) = SubSeq(parts, 1, k - 1)
<1>1. k \in 0 .. Len(parts) /\ k = Len(parts) - 1 /\ k # Len(parts) OBVIOUS
<1>2. parts[Len(parts)] = <<".", ".">> OBVIOUS
<1>3. Clean(parts) = SubSeq(parts, 1, IF k = Len(parts) THEN k ELSE k - 1)
  BY <1>1, <1>2, CleanOrdinary, Zenon
<1> QED BY <1>1, <1>3, Zenon

\* Joining texts without slashes is cleaning them.
LEMMA JoinPlain ==
    ASSUME NEW A, NEW texts \in Seq(Seq(A)), Len(texts) > 0,
           \A i \in 1 .. Len(texts) : \A k \in 1 .. Len(texts[i]) : texts[i][k] # "/"
    PROVE  Join(texts) = Clean(texts)
<1> DEFINE seqs == [i \in DOMAIN texts |-> Split(texts[i])]
           singles == [i \in DOMAIN texts |-> <<texts[i]>>]
<1>1. ASSUME NEW i \in DOMAIN texts
      PROVE  Split(texts[i]) = <<texts[i]>>
  <2>1. i \in 1 .. Len(texts) /\ texts[i] \in Seq(A) OBVIOUS
  <2>2. \A k \in 1 .. Len(texts[i]) : texts[i][k] # "/" BY <2>1
  <2> QED BY <2>1, <2>2, SplitPlain
<1>2. seqs = singles
  BY <1>1, Zenon
<1>3. FlattenSeq(singles) = texts
  BY FlattenSingles
<1>4. Join(texts) = Clean(FlattenSeq(seqs))
  BY Zenon DEF Join
<1> QED BY <1>2, <1>3, <1>4, Zenon

\* What the service's words and file names are made of.
Letters == Chars \cup {"users", "o1", "o2", "media", "m1", "m2", "original", "file", "_", "."}

\* The result of sanitizeFilename is one part of a path, neither empty nor ".".
LEMMA SanitizedName ==
    ASSUME NEW name \in Seq(Chars)
    PROVE  /\ SanitizeFilename(name) \in Seq(Letters)
           /\ SanitizeFilename(name) \notin {<< >>, <<".">>}
           /\ \A i \in 1 .. Len(SanitizeFilename(name)) : SanitizeFilename(name)[i] # "/"
<1> DEFINE t == TrimSpace(name)
           b == Base(t)
<1>1. t \in Seq(Chars)
  <2> DEFINE I == {i \in DOMAIN name : name[i] \notin White}
  <2>1. CASE I = {}
    <3>1. t = << >> BY <2>1, Zenon DEF TrimSpace
    <3> QED BY <3>1
  <2>2. CASE I # {}
    <3>1. t = SubSeq(name, Min(I), Max(I)) BY <2>2, Zenon DEF TrimSpace
    <3>2. Len(name) \in Nat /\ I \in SUBSET (1 .. Len(name)) OBVIOUS
    <3>3. Max(I) \in I /\ Min(I) \in I BY <2>2, <3>2, MaxMin
    <3> DEFINE lo == Min(I)
               hi == Max(I)
    <3>4. lo \in 1 .. Len(name) /\ hi \in 1 .. Len(name) BY <3>2, <3>3
    <3>5. t = SubSeq(name, lo, hi) BY <3>1
    <3> HIDE DEF lo, hi, t
    <3> QED BY <3>4, <3>5
  <2> QED BY <2>1, <2>2
<1> HIDE DEF t
<1>2. \/ b \in {<< >>, <<".">>, <<"/">>}
      \/ /\ b \in Seq(Chars)
         /\ \A i \in 1 .. Len(b) : b[i] # "/"
  <2> DEFINE I == {i \in DOMAIN t : t[i] # "/"}
             slashes == {i \in 1 .. Max(I) : t[i] = "/"}
             lo == IF slashes = {} THEN 1 ELSE Max(slashes) + 1
             hi == Max(I)
  <2>1. CASE t = << >> \/ I = {}
    <3>1. b = <<".">> \/ b = <<"/">> BY <2>1, Zenon DEF Base
    <3> QED BY <3>1
  <2>2. CASE t # << >> /\ I # {}
    <3>1. b = SubSeq(t, lo, hi) BY <2>2, Zenon DEF Base
    <3>2. Len(t) \in Nat /\ I \in SUBSET (1 .. Len(t)) BY <1>1
    <3>3. hi \in I BY <2>2, <3>2, MaxMin
    <3>4. hi \in 1 .. Len(t) /\ hi \in Nat BY <3>2, <3>3
    <3> HIDE DEF hi, I
    <3>5. lo \in 1 .. Len(t) + 1 /\ \A i \in lo .. hi : t[i] # "/"
      <4>1. slashes = {i \in 1 .. hi : t[i] = "/"} BY DEF hi
      <4>2. CASE slashes = {} BY <3>4, <4>1, <4>2
      <4>3. CASE slashes # {}
        <5> DEFINE last == Max(slashes)
        <5>1. slashes \in SUBSET (1 .. hi) BY <4>1
        <5>2. last \in slashes /\ \A i \in slashes : i <= last BY <4>3, <5>1, <3>4, MaxMin
        <5>3. lo = last + 1 BY <4>3
        <5>4. last \in 1 .. hi BY <5>1, <5>2
        <5> HIDE DEF last, slashes, lo
        <5>5. \A i \in lo .. hi : i \notin slashes /\ i \in 1 .. hi BY <5>2, <5>3, <5>4, <3>4
        <5>6. \A i \in lo .. hi : t[i] # "/" BY <5>5, <4>1
        <5> QED BY <5>3, <5>4, <5>6, <3>4
      <4> QED BY <4>2, <4>3
    <3> HIDE DEF lo, b
    <3>6. b \in Seq(Chars) BY <1>1, <3>1, <3>4, <3>5
    <3>7. \A i \in 1 .. Len(b) : b[i] = t[lo + i - 1] /\ lo + i - 1 \in lo .. hi
      BY <1>1, <3>1, <3>4, <3>5
    <3>8. \A i \in 1 .. Len(b) : b[i] # "/" BY <3>5, <3>7
    <3> QED BY <3>6, <3>8
  <2> QED BY <2>1, <2>2
<1> HIDE DEF b
<1>3. SanitizeFilename(name) = IF b \in {<< >>, <<".">>, <<"/">>} THEN <<"file">> ELSE Underscored(b)
  BY Zenon DEF SanitizeFilename, Word, b, t
<1>4. CASE b \in {<< >>, <<".">>, <<"/">>}
  <2>1. SanitizeFilename(name) = <<"file">> BY <1>3, <1>4, Zenon
  <2> DEFINE f == SanitizeFilename(name)
  <2>2. f = <<"file">> BY <2>1
  <2> HIDE DEF f
  <2>3. f \in Seq(Letters) /\ f \notin {<< >>, <<".">>} /\ \A i \in 1 .. Len(f) : f[i] # "/"
    BY <2>2 DEF Letters
  <2> QED BY <2>3 DEF f
<1>5. CASE b \notin {<< >>, <<".">>, <<"/">>}
  <2>1. SanitizeFilename(name) = Underscored(b) BY <1>3, <1>5, Zenon
  <2>2. b \in Seq(Chars) /\ \A i \in 1 .. Len(b) : b[i] # "/" BY <1>2, <1>5
  <2> DEFINE f == SanitizeFilename(name)
  <2>3. f = [i \in DOMAIN b |-> IF b[i] = " " THEN "_" ELSE b[i]] BY <2>1, Zenon DEF Underscored
  <2> HIDE DEF f
  <2>4. DOMAIN b = 1 .. Len(b) /\ Len(b) \in Nat BY <2>2
  <2>5. f \in [1 .. Len(b) -> Letters]
    <3>1. ASSUME NEW i \in 1 .. Len(b)
          PROVE  (IF b[i] = " " THEN "_" ELSE b[i]) \in Letters
      <4>1. b[i] \in Chars BY <2>2
      <4>2. "_" \in Letters BY Zenon DEF Letters
      <4> QED BY <4>1, <4>2, Zenon DEF Letters
    <3> QED BY <2>3, <2>4, <3>1, Zenon
  <2>6. f \in Seq(Letters) /\ Len(f) = Len(b) BY <2>4, <2>5
  <2>7. \A i \in 1 .. Len(b) : f[i] = IF b[i] = " " THEN "_" ELSE b[i] BY <2>3, <2>4
  <2>8. \A i \in 1 .. Len(f) : f[i] # "/" BY <2>2, <2>6, <2>7
  <2>9. f # << >>
    <3>1. Len(b) # 0 BY <1>5, <2>2
    <3> QED BY <2>6, <3>1
  <2>10. f # <<".">>
    <3> SUFFICES ASSUME f = <<".">> PROVE FALSE OBVIOUS
    <3>1. Len(b) = 1 BY <2>6
    <3>2. f[1] = "." OBVIOUS
    <3>3. b[1] = "."
      <4>1. 1 \in 1 .. Len(b) BY <3>1
      <4>2. f[1] = IF b[1] = " " THEN "_" ELSE b[1] BY <2>7, <4>1, Zenon
      <4>3. "." # "_" OBVIOUS
      <4> QED BY <3>2, <4>2, <4>3, Zenon
    <3>4. b = <<".">> BY <2>2, <3>1, <3>3
    <3> QED BY <1>5, <3>4
  <2> QED BY <2>6, <2>8, <2>9, <2>10 DEF f
<1> QED BY <1>4, <1>5

\* The keys that StorageKey and MediaFolder make.
Key4(o, m) == <<Word("users"), Word(o), Word("media"), Word(m)>>
Key6(o, m, f) == <<Word("users"), Word(o), Word("media"), Word(m), Word("original"), f>>

\* path.Join makes these keys, except that a file called ".." is stored under the
\* name of its video's folder.
LEMMA Keys ==
    ASSUME NEW o \in {"o1", "o2"}, NEW m \in {"m1", "m2"}, NEW name \in Seq(Chars)
    PROVE  /\ MediaFolder(o, m) = Key4(o, m)
           /\ StorageKey(o, m, name) = IF SanitizeFilename(name) = <<".", ".">> THEN Key4(o, m)
                                       ELSE Key6(o, m, SanitizeFilename(name))
<1> DEFINE f == SanitizeFilename(name)
           k4 == Key4(o, m)
           k6 == Key6(o, m, f)
<1>1. f \in Seq(Letters) /\ f \notin {<< >>, <<".">>} /\ \A i \in 1 .. Len(f) : f[i] # "/"
  BY SanitizedName
<1> HIDE DEF f
<1>2. ASSUME NEW w \in {"users", "o1", "o2", "media", "m1", "m2", "original"}
      PROVE  /\ Word(w) \in Seq(Letters) /\ Ordinary(Word(w))
             /\ \A i \in 1 .. Len(Word(w)) : Word(w)[i] # "/"
  <2>1. w \in Letters BY Zenon DEF Letters
  <2>2. w # "." /\ w # "/" OBVIOUS
  <2> DEFINE t == Word(w)
  <2>3. t \in Seq(Letters) /\ Len(t) = 1 /\ t[1] = w BY <2>1 DEF Word
  <2> HIDE DEF t
  <2>4. \A i \in 1 .. Len(t) : t[i] # "/"
    <3>1. \A i \in 1 .. Len(t) : i = 1 BY <2>3
    <3> QED BY <2>2, <2>3, <3>1, Zenon
  <2>5. t # << >> /\ t # <<".", ".">> BY <2>3
  <2>6. t # <<".">>
    <3>1. ASSUME t = <<".">> PROVE FALSE
      <4>1. t[1] = "." BY <3>1
      <4> QED BY <2>2, <2>3, <4>1, Zenon
    <3> QED BY <3>1
  <2>7. Ordinary(t) BY <2>5, <2>6, Zenon DEF Ordinary
  <2> QED BY <2>3, <2>4, <2>7 DEF t
<1> DEFINE NoSlash(t) == \A k \in 1 .. Len(t) : t[k] # "/"
           Good(t) == t \in Seq(Letters) /\ NoSlash(t)
<1>3. /\ Good(Word("users")) /\ Good(Word(o)) /\ Good(Word("media")) /\ Good(Word(m))
      /\ Good(Word("original")) /\ Good(f)
      /\ Ordinary(Word("users")) /\ Ordinary(Word(o)) /\ Ordinary(Word("media"))
      /\ Ordinary(Word(m)) /\ Ordinary(Word("original"))
  <2>1. \A w \in {"users", "o1", "o2", "media", "m1", "m2", "original"} :
           Good(Word(w)) /\ Ordinary(Word(w))
    BY <1>2, Zenon
  <2>2. Good(f) BY <1>1, Zenon
  <2>3. o \in {"users", "o1", "o2", "media", "m1", "m2", "original"} OBVIOUS
  <2>4. m \in {"users", "o1", "o2", "media", "m1", "m2", "original"} OBVIOUS
  <2> HIDE DEF Good
  <2> QED BY <2>1, <2>2, <2>3, <2>4, Zenon
<1>4. /\ Len(k4) = 4 /\ k4[1] = Word("users") /\ k4[2] = Word(o) /\ k4[3] = Word("media")
      /\ k4[4] = Word(m)
  BY DEF Key4
<1>5. /\ Len(k6) = 6 /\ k6[1] = Word("users") /\ k6[2] = Word(o) /\ k6[3] = Word("media")
      /\ k6[4] = Word(m) /\ k6[5] = Word("original") /\ k6[6] = f
  BY DEF Key6
<1>6. k4 \in Seq(Seq(Letters)) /\ k6 \in Seq(Seq(Letters))
  <2> HIDE DEF NoSlash
  <2> QED BY <1>3 DEF Key4, Key6
<1>7. SubSeq(k6, 1, 4) = k4
  <2> DEFINE q == SubSeq(k6, 1, 4)
  <2>1. /\ q \in Seq(Seq(Letters)) /\ Len(q) = 4
        /\ \A i \in 1 .. 4 : q[i] = k6[i]
    <3> HIDE DEF k6, k4
    <3>1. 4 \in 0 .. Len(k6) BY <1>5
    <3> QED BY <1>6, <3>1, Prefix, Zenon
  <2> HIDE DEF q, k6, k4
  <2>2. \A i \in 1 .. 4 : i = 1 \/ i = 2 \/ i = 3 \/ i = 4 OBVIOUS
  <2>3. \A i \in 1 .. Len(q) : q[i] = k4[i] BY <1>4, <1>5, <2>1, <2>2, Zenon
  <2>4. q \in Seq(Seq(Letters)) /\ k4 \in Seq(Seq(Letters)) /\ Len(q) = Len(k4)
    BY <1>4, <1>6, <2>1, Zenon
  <2>5. q = k4 BY <2>3, <2>4, SeqEqual, Zenon
  <2> QED BY <2>5 DEF q
<1>8. MediaFolder(o, m) = Join(k4) /\ StorageKey(o, m, name) = Join(k6)
  BY Zenon DEF MediaFolder, StorageKey, Key4, Key6, f
<1> HIDE DEF k4, k6, Good
<1>9. \A i \in 1 .. 4 : i = 1 \/ i = 2 \/ i = 3 \/ i = 4
  OBVIOUS
<1>10. \A i \in 1 .. 5 : i = 1 \/ i = 2 \/ i = 3 \/ i = 4 \/ i = 5
  OBVIOUS
<1>11. \A i \in 1 .. 6 : i \in 1 .. 5 \/ i = 6
  OBVIOUS
<1>12. \A i \in 1 .. 4 : Ordinary(k4[i]) /\ Good(k4[i])
  BY <1>3, <1>4, <1>9, Zenon
<1>13. \A i \in 1 .. 5 : Ordinary(k6[i]) /\ Good(k6[i])
  BY <1>3, <1>5, <1>10, Zenon
<1>14. Join(k4) = Clean(k4)
  <2>1. \A i \in 1 .. Len(k4) : \A k \in 1 .. Len(k4[i]) : k4[i][k] # "/"
    BY <1>4, <1>12, Zenon DEF Good
  <2>2. Len(k4) > 0 BY <1>4
  <2> QED BY <1>6, <2>1, <2>2, JoinPlain, Zenon
<1>15. Join(k6) = Clean(k6)
  <2>1. \A i \in 1 .. Len(k6) : \A k \in 1 .. Len(k6[i]) : k6[i][k] # "/"
    BY <1>3, <1>5, <1>11, <1>13, Zenon DEF Good
  <2>2. Len(k6) > 0 BY <1>5
  <2> QED BY <1>6, <2>1, <2>2, JoinPlain, Zenon
<1>16. Clean(k4) = k4
  BY <1>4, <1>6, <1>12, CleanPlain, Zenon
<1>17. CASE f = <<".", ".">>
  <2>1. 5 \in Nat /\ 5 > 0 /\ 5 + 1 = 6 /\ 5 - 1 = 4 OBVIOUS
  <2>2. Clean(k6) = SubSeq(k6, 1, 5 - 1)
    BY <1>5, <1>6, <1>13, <1>17, <2>1, CleanUp
  <2>3. StorageKey(o, m, name) = k4 BY <1>7, <1>8, <1>15, <2>1, <2>2, Zenon
  <2> QED BY <1>8, <1>14, <1>16, <1>17, <2>3, Zenon DEF k4, f
<1>18. CASE f # <<".", ".">>
  <2>1. Ordinary(f) BY <1>1, <1>18 DEF Ordinary
  <2>2. \A i \in 1 .. Len(k6) : Ordinary(k6[i]) BY <1>5, <1>11, <1>13, <2>1, Zenon
  <2>3. Clean(k6) = k6 BY <1>6, <2>2, CleanPlain, Zenon
  <2> QED BY <1>8, <1>14, <1>15, <1>16, <1>18, <2>3, Zenon DEF k4, k6, f
<1> QED BY <1>17, <1>18

\* What TrimSpace of a key does: only its last part can change, and does so just
\* when it ends in white space.
LEMMA TrimmedKey ==
    ASSUME NEW A, NEW key \in Seq(Seq(A)), NEW n \in Nat, Len(key) = n, n > 0, key[n] # << >>
    PROVE  /\ TrimKey(key) \in Seq(Seq(A))
           /\ Len(TrimKey(key)) = n
           /\ \A i \in 1 .. n - 1 : TrimKey(key)[i] = key[i]
           /\ TrimKey(key)[n] = key[n] <=> Last(key[n]) \notin White
<1> DEFINE s == key[n]
           I == {i \in DOMAIN s : s[i] \notin White}
           r == IF I = {} THEN << >> ELSE SubSeq(s, 1, Max(I))
           p == Front(key)
           T == TrimKey(key)
<1>1. s \in Seq(A) /\ Len(s) \in Nat /\ Len(s) > 0 /\ DOMAIN s = 1 .. Len(s)
  OBVIOUS
<1>2. T = p \o <<r>>
  <2>1. Last(key) = s BY Zenon DEF Last
  <2> QED BY <2>1, Zenon DEF TrimKey
<1>3. p \in Seq(Seq(A)) /\ Len(p) = n - 1 /\ \A i \in 1 .. n - 1 : p[i] = key[i]
  <2>1. p = SubSeq(key, 1, n - 1) BY Zenon DEF Front
  <2>2. n - 1 \in 0 .. Len(key) OBVIOUS
  <2> HIDE DEF p
  <2> QED BY <2>1, <2>2, Prefix, Zenon
<1> HIDE DEF s, p, T
<1>4. r \in Seq(A) /\ (r = s <=> s[Len(s)] \notin White)
  <2>1. CASE I = {}
    <3>1. r = << >> BY <2>1, Zenon
    <3>2. s[Len(s)] \in White BY <1>1, <2>1
    <3>3. s # << >> /\ << >> \in Seq(A) BY <1>1
    <3> QED BY <3>1, <3>2, <3>3, Zenon
  <2>2. CASE I # {}
    <3> DEFINE hi == Max(I)
    <3>1. r = SubSeq(s, 1, hi) BY <2>2, Zenon
    <3>2. I \in SUBSET (1 .. Len(s)) BY <1>1
    <3>3. hi \in I /\ \A i \in I : i <= hi BY <1>1, <2>2, <3>2, MaxMin
    <3>4. hi \in 1 .. Len(s) /\ hi \in 0 .. Len(s) /\ s[hi] \notin White BY <3>2, <3>3
    <3> HIDE DEF hi, r
    <3>5. r \in Seq(A) /\ Len(r) = hi BY <1>1, <3>1, <3>4, Prefix, Zenon
    <3>6. CASE hi = Len(s)
      <4>1. r = s BY <1>1, <3>1, <3>6, SubSeqFull, Zenon
      <4> QED BY <3>4, <3>5, <3>6, <4>1, Zenon
    <3>7. CASE hi # Len(s)
      <4>1. r # s BY <3>5, <3>7, Zenon
      <4>2. Len(s) \notin I BY <3>3, <3>4, <3>7, <1>1
      <4>3. Len(s) \in DOMAIN s BY <1>1
      <4>4. s[Len(s)] \in White BY <4>2, <4>3, Zenon
      <4> QED BY <3>5, <4>1, <4>4, Zenon
    <3> QED BY <3>6, <3>7
  <2> QED BY <2>1, <2>2
<1> HIDE DEF r
<1>5. /\ T \in Seq(Seq(A)) /\ Len(T) = n /\ T[n] = r
      /\ \A i \in 1 .. n - 1 : T[i] = p[i]
  <2>1. <<r>> \in Seq(Seq(A)) /\ Len(<<r>>) = 1 /\ <<r>>[1] = r BY <1>4
  <2>2. /\ p \o <<r>> \in Seq(Seq(A)) /\ Len(p \o <<r>>) = Len(p) + Len(<<r>>)
        /\ \A i \in 1 .. Len(p) + Len(<<r>>) :
              (p \o <<r>>)[i] = IF i <= Len(p) THEN p[i] ELSE <<r>>[i - Len(p)]
    BY <1>3, <2>1, ConcatProperties, Zenon
  <2>3. /\ Len(p) + Len(<<r>>) = n /\ n \in 1 .. n /\ ~(n <= Len(p)) /\ n - Len(p) = 1
        /\ \A i \in 1 .. n - 1 : i \in 1 .. n /\ i <= Len(p)
    BY <1>3, <2>1
  <2> QED BY <1>2, <2>1, <2>2, <2>3, Zenon
<1>6. Last(s) = s[Len(s)] BY Zenon DEF Last
<1>7. \A i \in 1 .. n - 1 : T[i] = key[i] BY <1>3, <1>5, Zenon
<1> QED BY <1>4, <1>5, <1>6, <1>7, Zenon DEF s, T

\* A word that is not white space is not trimmed away.
LEMMA TrimmedWord ==
    ASSUME NEW w, w \notin White
    PROVE  TrimSpace(<<w>>) # << >>
<1> DEFINE s == <<w>>
           I == {i \in DOMAIN s : s[i] \notin White}
<1>1. s \in Seq({w}) /\ Len(s) = 1 /\ s[1] = w /\ DOMAIN s = 1 .. 1
  OBVIOUS
<1> HIDE DEF s
<1>2. I # {} /\ I \in SUBSET (1 .. 1) /\ 1 \in Nat
  BY <1>1
<1>3. Max(I) \in I /\ Min(I) \in I
  BY <1>2, MaxMin
<1>4. Max(I) = 1 /\ Min(I) = 1
  BY <1>2, <1>3
<1>5. TrimSpace(s) = SubSeq(s, 1, 1)
  BY <1>2, <1>4, Zenon DEF TrimSpace
<1>6. SubSeq(s, 1, 1) = s
  BY <1>1, SubSeqFull
<1>7. s # << >>
  BY <1>1
<1> QED BY <1>5, <1>6, <1>7, Zenon DEF s

\* The cleaner gets from the key of an object, or of what is left of it when it
\* is trimmed, to the video it belongs to.
LEMMA KeyLeadsBack ==
    ASSUME NEW o \in {"o1", "o2"}, NEW m \in {"m1", "m2"},
           NEW key \in Seq(Seq(Letters)), NEW n \in Nat, Len(key) = n,
           \A i \in 1 .. 4 : key[i] = Key4(o, m)[i],
           n = 4 \/ (n > 4 /\ key[n] # << >>)
    PROVE  ExtractMediaPrefix(key) =
               [ok |-> TRUE, id |-> Word(m), folder |-> MediaFolder(o, m)]
<1> DEFINE k4 == Key4(o, m)
           T == TrimKey(key)
           parts == IF Last(T) = << >> THEN Front(T) ELSE T
<1>1. /\ Word("users") # << >> /\ Word(o) # << >> /\ Word("media") # << >> /\ Word(m) # << >>
      /\ m \notin White /\ o \notin White
  BY DEF Word, White
<1>2. /\ k4 \in Seq(Seq(Letters)) /\ Len(k4) = 4
      /\ k4[1] = Word("users") /\ k4[2] = Word(o) /\ k4[3] = Word("media") /\ k4[4] = Word(m)
  <2>1. "users" \in Letters /\ o \in Letters /\ "media" \in Letters /\ m \in Letters
    BY Zenon DEF Letters
  <2> QED BY <2>1 DEF Key4, Word
<1> HIDE DEF k4, T
<1>3. /\ 1 \in 1 .. 4 /\ 2 \in 1 .. 4 /\ 3 \in 1 .. 4 /\ 4 \in 1 .. 4 /\ n >= 4 /\ n > 0
      /\ 1 .. 4 \subseteq 1 .. n
  OBVIOUS
<1>4. \A i \in 1 .. 4 : key[i] = k4[i]
  BY DEF k4
<1>5. key[n] # << >>
  <2>1. CASE n = 4 BY <1>1, <1>2, <1>3, <1>4, <2>1, Zenon
  <2>2. CASE n # 4 BY <2>2
  <2> QED BY <2>1, <2>2
<1>6. /\ T \in Seq(Seq(Letters)) /\ Len(T) = n /\ \A i \in 1 .. n - 1 : T[i] = key[i]
      /\ T[n] = key[n] <=> Last(key[n]) \notin White
  BY <1>3, <1>5, TrimmedKey DEF T
<1>7. n = 4 => T[4] = key[4]
  <2>1. SUFFICES ASSUME n = 4 PROVE T[4] = key[4] OBVIOUS
  <2>2. key[n] = <<m>> BY <1>2, <1>3, <1>4, <2>1, Zenon DEF Word
  <2>3. Last(<<m>>) = m BY DEF Last
  <2> QED BY <1>1, <1>6, <2>1, <2>2, <2>3, Zenon
<1>8. \A i \in 1 .. 4 : T[i] = k4[i]
  <2> SUFFICES ASSUME NEW i \in 1 .. 4 PROVE T[i] = k4[i] OBVIOUS
  <2>1. CASE i \in 1 .. n - 1 BY <1>4, <1>6, <2>1, Zenon
  <2>2. CASE i \notin 1 .. n - 1
    <3>1. i = 4 /\ n = 4 BY <1>3, <2>2
    <3> QED BY <1>3, <1>4, <1>7, <3>1, Zenon
  <2> QED BY <2>1, <2>2
<1>9. parts \in Seq(Seq(Letters)) /\ Len(parts) >= 4 /\ \A i \in 1 .. 4 : parts[i] = k4[i]
  <2>1. CASE Last(T) # << >>
    <3>1. parts = T BY <2>1, Zenon
    <3> HIDE DEF parts
    <3> QED BY <1>3, <1>6, <1>8, <3>1
  <2>2. CASE Last(T) = << >>
    <3>1. T[n] = << >> BY <1>6, <2>2, Zenon DEF Last
    <3>2. n # 4
      <4>1. k4[4] # << >> BY <1>1, <1>2, Zenon
      <4> QED BY <1>3, <1>8, <3>1, <4>1
    <3>3. parts = SubSeq(T, 1, n - 1) BY <1>6, <2>2, Zenon DEF Front
    <3>4. n - 1 \in 0 .. Len(T) /\ n - 1 >= 4 BY <1>3, <1>6, <3>2
    <3> HIDE DEF parts
    <3>5. parts \in Seq(Seq(Letters)) /\ Len(parts) = n - 1 /\ \A i \in 1 .. n - 1 : parts[i] = T[i]
      BY <1>6, <3>3, <3>4, Prefix, Zenon
    <3>6. \A i \in 1 .. 4 : i \in 1 .. n - 1 BY <3>4
    <3>7. \A i \in 1 .. 4 : parts[i] = k4[i] BY <1>8, <3>5, <3>6, Zenon
    <3>8. Len(parts) >= 4 BY <3>4, <3>5
    <3> QED BY <3>5, <3>7, <3>8
  <2> QED BY <2>1, <2>2
<1> HIDE DEF parts
<1>10. SubSeq(parts, 1, 4) = k4
  <2> DEFINE q == SubSeq(parts, 1, 4)
  <2>1. 4 \in 0 .. Len(parts) BY <1>9
  <2>2. q \in Seq(Seq(Letters)) /\ Len(q) = 4 /\ \A i \in 1 .. 4 : q[i] = parts[i]
    BY <1>9, <2>1, Prefix, Zenon
  <2> HIDE DEF q
  <2>3. Len(q) = Len(k4) /\ \A i \in 1 .. Len(q) : q[i] = k4[i] BY <1>2, <1>9, <2>2, Zenon
  <2>4. q = k4 BY <1>2, <2>2, <2>3, SeqEqual, Zenon
  <2> QED BY <2>4 DEF q
<1>11. MediaFolder(o, m) = Join(k4)
  BY Zenon DEF MediaFolder, Key4, k4
<1>12. parts[1] = Word("users") /\ parts[2] = Word(o) /\ parts[3] = Word("media") /\ parts[4] = Word(m)
  BY <1>2, <1>3, <1>9, Zenon
<1>13. TrimSpace(parts[2]) # << >> /\ TrimSpace(parts[4]) # << >>
  BY <1>1, <1>12, TrimmedWord, Zenon DEF Word
<1>14. ExtractMediaPrefix(key) =
           IF /\ Len(parts) >= 4
              /\ parts[1] = Word("users") /\ parts[3] = Word("media")
              /\ TrimSpace(parts[2]) # << >> /\ TrimSpace(parts[4]) # << >>
           THEN [ok |-> TRUE, id |-> parts[4], folder |-> Join(SubSeq(parts, 1, 4))]
           ELSE [ok |-> FALSE]
  BY Zenon DEF ExtractMediaPrefix, parts, T
<1>15. ExtractMediaPrefix(key) = [ok |-> TRUE, id |-> parts[4], folder |-> Join(SubSeq(parts, 1, 4))]
  BY <1>9, <1>12, <1>13, <1>14, Zenon
<1> QED BY <1>10, <1>11, <1>12, <1>15, Zenon

\* Whatever the file name, DeleteMedia and the cleaner find what InitUpload
\* stored, but for the names of Unpurgeable, and touch no other video's object.
THEOREM EveryNameIsPurged ==
    ASSUME NEW name \in Seq(Chars)
    PROVE  PurgeFinds(name)
<1> DEFINE f == SanitizeFilename(name)
           key == StorageKey("o1", "m1", name)
           other == StorageKey("o2", "m2", name)
           folder == MediaFolder("o1", "m1")
           listed == {k \in {key, other} : IsStrictPrefix(folder, k)}
<1>1. f \in Seq(Letters) /\ f \notin {<< >>, <<".">>}
  BY SanitizedName
<1>2. /\ folder = Key4("o1", "m1")
      /\ f = <<".", ".">> => key = Key4("o1", "m1") /\ other = Key4("o2", "m2")
      /\ f # <<".", ".">> => key = Key6("o1", "m1", f) /\ other = Key6("o2", "m2", f)
  BY Keys
<1> HIDE DEF f, key, other, folder
<1> DEFINE n == IF f = <<".", ".">> THEN 4 ELSE 6
<1>3. /\ key \in Seq(Seq(Letters)) /\ Len(key) = n /\ other \in Seq(Seq(Letters)) /\ Len(other) = n
      /\ folder \in Seq(Seq(Letters)) /\ Len(folder) = 4
  <2>1. \A w \in {"users", "o1", "o2", "media", "m1", "m2", "original"} : Word(w) \in Seq(Letters)
    <3> SUFFICES ASSUME NEW w \in {"users", "o1", "o2", "media", "m1", "m2", "original"}
                 PROVE  Word(w) \in Seq(Letters)
      OBVIOUS
    <3>1. w \in Letters BY Zenon DEF Letters
    <3> QED BY <3>1 DEF Word
  <2>2. /\ Key4("o1", "m1") \in Seq(Seq(Letters)) /\ Len(Key4("o1", "m1")) = 4
        /\ Key4("o2", "m2") \in Seq(Seq(Letters)) /\ Len(Key4("o2", "m2")) = 4
    BY <2>1 DEF Key4
  <2>3. /\ Key6("o1", "m1", f) \in Seq(Seq(Letters)) /\ Len(Key6("o1", "m1", f)) = 6
        /\ Key6("o2", "m2", f) \in Seq(Seq(Letters)) /\ Len(Key6("o2", "m2", f)) = 6
    BY <1>1, <2>1 DEF Key6
  <2> QED BY <1>2, <2>2, <2>3, Zenon
<1>4. /\ \A i \in 1 .. 4 : key[i] = Key4("o1", "m1")[i]
      /\ other[2] = <<"o2">> /\ folder[2] = <<"o1">> /\ key[2] = <<"o1">>
      /\ <<"o1">> # <<"o2">>
  <2>1. \A i \in 1 .. 4 : i = 1 \/ i = 2 \/ i = 3 \/ i = 4 OBVIOUS
  <2>2. \A i \in 1 .. 4 : Key6("o1", "m1", f)[i] = Key4("o1", "m1")[i]
    BY <2>1 DEF Key4, Key6
  <2>3. /\ Key4("o1", "m1")[2] = <<"o1">> /\ Key4("o2", "m2")[2] = <<"o2">>
        /\ Key6("o1", "m1", f)[2] = <<"o1">> /\ Key6("o2", "m2", f)[2] = <<"o2">>
        /\ <<"o1">> # <<"o2">>
    BY DEF Key4, Key6, Word
  <2> QED BY <1>2, <2>2, <2>3, Zenon
<1>5. f # <<".", ".">> => key[6] = f
  BY <1>2 DEF Key6
<1>6. ExtractMediaPrefix(key) = [ok |-> TRUE, id |-> Word("m1"), folder |-> folder]
  <2>1. n \in Nat /\ (n = 4 \/ (n > 4 /\ key[n] # << >>))
    <3>1. CASE f = <<".", ".">>
      <4>1. n = 4 BY <3>1, Zenon
      <4> HIDE DEF n
      <4> QED BY <4>1
    <3>2. CASE f # <<".", ".">>
      <4>1. n = 6 BY <3>2, Zenon
      <4>2. key[6] # << >> BY <1>1, <1>5, <3>2, Zenon
      <4> HIDE DEF n
      <4>3. n \in Nat /\ n > 4 BY <4>1
      <4> QED BY <4>1, <4>2, <4>3, Zenon
    <3> QED BY <3>1, <3>2
  <2>2. "o1" \in {"o1", "o2"} /\ "m1" \in {"m1", "m2"} OBVIOUS
  <2> HIDE DEF n
  <2> QED BY <1>3, <1>4, <2>1, <2>2, KeyLeadsBack, Zenon DEF folder
<1>7. ~IsStrictPrefix(folder, other) /\ key # other
  <2>1. SubSeq(folder, 1, 4)[2] = folder[2] /\ SubSeq(other, 1, 4)[2] = other[2]
    <3>1. 4 \in 0 .. Len(folder) /\ 4 \in 0 .. Len(other) /\ 2 \in 1 .. 4 BY <1>3
    <3> QED BY <1>3, <3>1, Prefix, Zenon
  <2>2. SubSeq(folder, 1, 4) # SubSeq(other, 1, 4) BY <1>4, <2>1, Zenon
  <2>3. ~IsPrefix(folder, other) BY <1>3, <2>2, Zenon DEF IsPrefix
  <2> QED BY <1>4, <2>3, Zenon DEF IsStrictPrefix
<1>8. Purged({key, other}, folder) = {key, other} \ {TrimKey(k) : k \in listed}
  BY Zenon DEF Purged
<1>9. Unpurgeable(name) <=> f = <<".", ".">> \/ Last(f) \in White
  BY Zenon DEF Unpurgeable, f
<1>10. Purged({key, other}, folder) = IF Unpurgeable(name) THEN {key, other} ELSE {other}
  <2>1. CASE f = <<".", ".">>
    <3>1. folder = key BY <1>2, <2>1, Zenon
    <3>2. listed = {} BY <1>7, <3>1, Zenon DEF IsStrictPrefix
    <3> HIDE DEF listed
    <3>3. Purged({key, other}, folder) = {key, other} BY <1>8, <3>2
    <3> QED BY <1>9, <2>1, <3>3, Zenon
  <2>2. CASE f # <<".", ".">>
    <3>1. n = 6 /\ Len(key) = 6 /\ key[6] = f BY <1>3, <1>5, <2>2, Zenon
    <3>2. IsStrictPrefix(folder, key)
      <4> DEFINE q == SubSeq(key, 1, 4)
      <4>1. 4 \in 0 .. Len(key) BY <3>1
      <4>2. q \in Seq(Seq(Letters)) /\ Len(q) = 4 /\ \A i \in 1 .. 4 : q[i] = key[i]
        BY <1>3, <4>1, Prefix, Zenon
      <4> HIDE DEF q
      <4>3. Len(q) = Len(folder) /\ \A i \in 1 .. Len(q) : q[i] = folder[i]
        BY <1>2, <1>3, <1>4, <4>2, Zenon
      <4>4. q = folder BY <1>3, <4>2, <4>3, SeqEqual, Zenon
      <4>5. SubSeq(folder, 1, Len(folder)) = folder BY <1>3, SubSeqFull, Zenon
      <4>6. SubSeq(key, 1, Len(folder)) = folder BY <1>3, <4>4, Zenon DEF q
      <4>7. Len(folder) <= Len(key) /\ folder # key
        <5>1. Len(folder) = 4 /\ Len(key) = 6 BY <1>3, <3>1, Zenon
        <5>2. 4 <= 6 /\ 4 # 6 OBVIOUS
        <5> QED BY <5>1, <5>2, Zenon
      <4> QED BY <4>5, <4>6, <4>7, Zenon DEF IsStrictPrefix, IsPrefix
    <3>3. listed = {key} BY <1>7, <3>2, Zenon
    <3> DEFINE T == TrimKey(key)
    <3>4. /\ T \in Seq(Seq(Letters)) /\ Len(T) = 6 /\ \A i \in 1 .. 6 - 1 : T[i] = key[i]
          /\ T[6] = key[6] <=> Last(key[6]) \notin White
      <4>1. 6 \in Nat /\ 6 > 0 /\ key[6] # << >> BY <1>1, <3>1
      <4> QED BY <1>3, <3>1, <4>1, TrimmedKey, ZenonT(60)
    <3> HIDE DEF T, listed
    <3>5. Purged({key, other}, folder) = {key, other} \ {T} BY <1>8, <3>3 DEF T
    <3>6. T # other
      <4>1. 2 \in 1 .. 6 - 1 OBVIOUS
      <4>2. T[2] = <<"o1">> BY <1>4, <3>4, <4>1, Zenon
      <4> QED BY <1>4, <4>2, Zenon
    <3>7. T = key <=> Last(f) \notin White
      <4>1. ASSUME T[6] = key[6] PROVE T = key
        <5>1. \A i \in 1 .. 6 : i \in 1 .. 6 - 1 \/ i = 6 OBVIOUS
        <5>2. \A i \in 1 .. Len(T) : T[i] = key[i] BY <3>4, <4>1, <5>1, Zenon
        <5>3. Len(T) = Len(key) BY <3>1, <3>4, Zenon
        <5> QED BY <1>3, <3>4, <5>2, <5>3, SeqEqual, Zenon
      <4> QED BY <3>1, <3>4, <4>1, Zenon
    <3>8. CASE Last(f) \in White
      BY <1>9, <3>5, <3>6, <3>7, <3>8, Zenon
    <3>9. CASE Last(f) \notin White
      BY <1>7, <1>9, <2>2, <3>5, <3>7, <3>9, Zenon
    <3> QED BY <3>8, <3>9
  <2> QED BY <2>1, <2>2
<1> QED BY <1>6, <1>10, Zenon DEF PurgeFinds, key, other, folder

\* The file name may be any text: the cleaner recognises its key, a purge of the
\* video's folder deletes its object unless it is Unpurgeable, and the object of
\* the other user's video stays.
THEOREM KeysArePurged == Spec => []KeysPurged
<1>1. Inv => KeysPurged
  BY EveryNameIsPurged, Zenon DEF Inv, KeysPurged
<1> QED BY <1>1, Invariance, PTL
=============================================================================
