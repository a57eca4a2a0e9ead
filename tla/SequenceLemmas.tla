----------------------------- MODULE SequenceLemmas -----------------------------
(***************************************************************************)
(* Lemmas about the loops and the sequences of bytes or characters that    *)
(* several components have: a loop runs to its end, what is put together   *)
(* of pieces has each piece where those before it end.                     *)
(*                                                                         *)
(* That a recurrence has a solution, and no two, is proved from the least  *)
(* number at which it would not.                                           *)
(***************************************************************************)
EXTENDS Integers, SequencesExt, SequenceTheorems, NaturalsInduction, WellFoundedInduction, TLAPS

(* What holds at 0, and from each number to the next, holds up to n        *)
LEMMA Induction ==
  ASSUME NEW n \in Nat, NEW S, 0 \in S, \A i \in 1..n : i - 1 \in S => i \in S
  PROVE  \A i \in 0..n : i \in S
<1>. SUFFICES ASSUME 0..n \ S # {} PROVE FALSE
  OBVIOUS
<1>1. PICK i \in 0..n \ S : \A j \in 0..n \ S : i <= j
  <2> DEFINE R == OpToRel(<, Nat)
             rest == 0..n \ S
  <2>1. IsWellFoundedOn(R, Nat)
    BY NatLessThanWellFounded
  <2>2. rest \in SUBSET Nat /\ rest # {}
    OBVIOUS
  <2> HIDE DEF R, rest
  <2>3. PICK x \in rest : \A y \in rest : <<y, x>> \notin R
    BY <2>1, <2>2, WFMin
  <2>4. \A y \in rest : ~(y < x)
    BY <2>2, <2>3 DEF R, OpToRel
  <2>. QED BY <2>2, <2>3, <2>4 DEF rest
<1>2. i # 0 /\ i - 1 \in 0..n /\ i - 1 \notin 0..n \ S
  BY <1>1
<1>. QED BY <1>1, <1>2

(* A loop of n turns: there is a sequence of what it has after each turn.  *)
IsLoop(g, first, turn, n) == g = [i \in 0..n |-> IF i = 0 THEN first ELSE turn[i][g[i-1]]]

LEMMA LoopRuns ==
  ASSUME NEW n \in Nat, NEW X, NEW first \in X, NEW turn \in [1..n -> [X -> X]]
  PROVE  \E g \in [0..n -> X] : IsLoop(g, first, turn, n)
<1> DEFINE Runs(g, k) == g[0] = first /\ \A i \in 1..k : g[i] = turn[i][g[i-1]]
           Possible(k) == \E g \in [0..k -> X] : Runs(g, k)
           S == {k \in 0..n : Possible(k)}
<1>1. Possible(0)
  <2>1. [i \in 0..0 |-> first] \in [0..0 -> X] /\ Runs([i \in 0..0 |-> first], 0)
    OBVIOUS
  <2> HIDE DEF Runs
  <2>. QED BY <2>1
<1>2. ASSUME NEW k \in 1..n, Possible(k - 1) PROVE Possible(k)
  <2>1. PICK g \in [0..k-1 -> X] : Runs(g, k - 1)
    BY <1>2
  <2> DEFINE h == [i \in 0..k |-> IF i = k THEN turn[k][g[k-1]] ELSE g[i]]
  <2>2. turn[k] \in [X -> X] /\ g[k-1] \in X
    OBVIOUS
  <2>3. h \in [0..k -> X]
    BY <2>2
  <2>4. Runs(h, k)
    BY <2>1
  <2> HIDE DEF h, Runs
  <2>. QED BY <2>3, <2>4
<1> HIDE DEF Possible
<1>3. 0 \in S /\ \A k \in 1..n : k - 1 \in S => k \in S
  BY <1>1, <1>2
<1> HIDE DEF S
<1>4. \A k \in 0..n : k \in S
  BY <1>3, Induction
<1>5. PICK g \in [0..n -> X] : Runs(g, n)
  BY <1>4 DEF S, Possible
<1>6. IsLoop(g, first, turn, n)
  BY <1>5 DEF IsLoop
<1>. QED BY <1>6

--------------------------------------------------------------------------------
Joined(a, b) == a \o b

(* c is a with b behind it                                                 *)
Behind(c, a, b) ==
  /\ Len(a) \in Nat /\ Len(b) \in Nat /\ Len(c) = Len(a) + Len(b)
  /\ \A k \in 1..Len(a) : c[k] = a[k]
  /\ \A k \in 1..Len(b) : c[Len(a) + k] = b[k]

LEMMA JoinedProperties ==
  ASSUME NEW X, NEW a \in Seq(X), NEW b \in Seq(X)
  PROVE  Joined(a, b) \in Seq(X) /\ Behind(Joined(a, b), a, b)
<1>1. Joined(a, b) \in Seq(X) /\ Len(Joined(a, b)) = Len(a) + Len(b)
  BY ConcatProperties DEF Joined
<1>2. \A k \in 1..Len(a) : Joined(a, b)[k] = a[k]
  BY DEF Joined
<1>3. \A k \in 1..Len(b) : Joined(a, b)[Len(a) + k] = b[k]
  BY DEF Joined
<1>. QED BY <1>1, <1>2, <1>3, LenProperties DEF Behind

(* What has been put together after each of a sequence of pieces           *)
Pieced(g, pieces, n, X) ==
  /\ \A i \in 1..n : pieces[i] \in Seq(X)
  /\ g \in [0..n -> Seq(X)]
  /\ g[0] = <<>>
  /\ \A i \in 1..n : g[i] = Joined(g[i - 1], pieces[i])

LEMMA PiecesLonger ==
  ASSUME NEW X, NEW n \in Nat, NEW pieces, \A i \in 1..n+1 : pieces[i] \in Seq(X),
         NEW g, Pieced(g, pieces, n, X)
  PROVE  \E h : Pieced(h, pieces, n + 1, X)
<1>. PICK p : p = pieces[n + 1]
  OBVIOUS
<1>1. p \in Seq(X) /\ g[n] \in Seq(X)
  BY DEF Pieced
<1>. PICK next : next = Joined(g[n], p)
  OBVIOUS
<1>2. next \in Seq(X)
  BY <1>1, JoinedProperties
<1> DEFINE h == [i \in 0..n+1 |-> IF i = n + 1 THEN next ELSE g[i]]
<1>3. h \in [0..n+1 -> Seq(X)] /\ h[0] = <<>>
  BY <1>2 DEF Pieced
<1>4. ASSUME NEW i \in 1..n+1
      PROVE  h[i] = Joined(h[i - 1], pieces[i])
  <2>1. CASE i = n + 1
    <3>1. h[i] = next /\ h[i - 1] = g[n]
      BY <2>1
    <3>. QED BY <2>1, <3>1
  <2>2. CASE i # n + 1
    <3>1. i \in 1..n /\ h[i] = g[i] /\ h[i - 1] = g[i - 1]
      BY <2>2
    <3>. QED BY <3>1 DEF Pieced
  <2>. QED BY <2>1, <2>2
<1> HIDE DEF h
<1>. QED BY <1>3, <1>4 DEF Pieced

LEMMA PiecesExist ==
  ASSUME NEW X, NEW n \in Nat, NEW pieces, \A i \in 1..n : pieces[i] \in Seq(X)
  PROVE  \E g : Pieced(g, pieces, n, X)
<1> DEFINE Possible(k) == \E g : Pieced(g, pieces, k, X)
           S == {k \in 0..n : Possible(k)}
<1>1. Possible(0)
  <2>1. Pieced([i \in 0..0 |-> <<>>], pieces, 0, X)
    BY DEF Pieced
  <2>. QED BY <2>1
<1>2. ASSUME NEW k \in 1..n, Possible(k - 1) PROVE Possible(k)
  <2>1. k - 1 \in Nat /\ k - 1 + 1 = k /\ \A i \in 1..k : pieces[i] \in Seq(X)
    OBVIOUS
  <2>. PICK j : j = k - 1
    OBVIOUS
  <2>2. PICK g : Pieced(g, pieces, j, X)
    BY <1>2
  <2>3. j \in Nat /\ j + 1 = k /\ \A i \in 1..j+1 : pieces[i] \in Seq(X)
    BY <2>1
  <2>4. \E h : Pieced(h, pieces, j + 1, X)
    BY <2>2, <2>3, PiecesLonger
  <2>. QED BY <2>3, <2>4
<1> HIDE DEF Possible
<1>3. 0 \in S /\ \A k \in 1..n : k - 1 \in S => k \in S
  BY <1>1, <1>2
<1> HIDE DEF S
<1>4. \A k \in 0..n : k \in S
  BY <1>3, Induction
<1>. QED BY <1>4 DEF S, Possible

(* FlattenSeq puts the pieces together from the first                      *)
LEMMA FlattenPieces ==
  ASSUME NEW X, NEW pieces \in Seq(Seq(X))
  PROVE  \E g : Pieced(g, pieces, Len(pieces), X) /\ FlattenSeq(pieces) = g[Len(pieces)]
<1>. PICK n : n = Len(pieces)
  OBVIOUS
<1>1. n \in Nat /\ \A i \in 1..n : pieces[i] \in Seq(X)
  BY LenProperties, ElementOfSeq
<1>2. PICK g : Pieced(g, pieces, n, X)
  BY <1>1, PiecesExist
<1>3. /\ g[0] = <<>> /\ \A i \in 0..n : g[i] \in Seq(X)
      /\ \A i \in 1..n : g[i] = Joined(g[i - 1], pieces[i])
  BY <1>2 DEF Pieced
<1>4. CASE n = 0
  <2>1. pieces = <<>>
    BY <1>4, EmptySeq
  <2>2. FlattenSeq(pieces) = pieces
    BY <1>4 DEF FlattenSeq
  <2>. QED BY <1>2, <1>3, <1>4, <2>1, <2>2
<1>5. CASE n # 0
  <2> DEFINE Flat(f) == f = [i \in 1..n |-> IF i = 1 THEN pieces[i] ELSE Joined(f[i - 1], pieces[i])]
             chosen == CHOOSE f : Flat(f)
             tail == [i \in 1..n |-> g[i]]
  <2>1. \A i \in 1..n : tail[i] = IF i = 1 THEN pieces[i] ELSE Joined(tail[i - 1], pieces[i])
    <3>. SUFFICES ASSUME NEW i \in 1..n
                  PROVE  tail[i] = IF i = 1 THEN pieces[i] ELSE Joined(tail[i - 1], pieces[i])
      OBVIOUS
    <3>1. CASE i = 1
      <4>1. g[1] = Joined(<<>>, pieces[1])
        BY <1>3, <3>1
      <4>2. Joined(<<>>, pieces[1]) = pieces[1]
        BY <1>1, <3>1, ConcatEmptySeq DEF Joined
      <4>. QED BY <3>1, <4>1, <4>2
    <3>2. CASE i # 1
      <4>1. tail[i] = g[i] /\ tail[i - 1] = g[i - 1]
        BY <1>1, <3>2
      <4> HIDE DEF tail
      <4>. QED BY <1>3, <3>2, <4>1
    <3>. QED BY <3>1, <3>2
  <2>2. Flat(tail)
    BY <2>1
  <2>3. Flat(chosen)
    BY <2>2
  <2>4. FlattenSeq(pieces) = chosen[n]
    BY <1>5 DEF FlattenSeq, Joined
  <2>5. tail[n] = g[n]
    BY <1>1, <1>5
  <2> HIDE DEF chosen, tail
  <2>6. /\ chosen[1] = tail[1]
        /\ \A i \in 2..n : chosen[i] = Joined(chosen[i - 1], pieces[i]) /\ tail[i] = Joined(tail[i - 1], pieces[i])
    <3>1. \A i \in 1..n : chosen[i] = IF i = 1 THEN pieces[i] ELSE Joined(chosen[i - 1], pieces[i])
      BY <2>3
    <3>. QED BY <1>1, <1>5, <2>1, <3>1
  <2> DEFINE S == {i \in 0..n : i = 0 \/ chosen[i] = tail[i]}
  <2>7. 0 \in S
    BY <1>1
  <2>8. \A i \in 1..n : i - 1 \in S => i \in S
    <3>. SUFFICES ASSUME NEW i \in 1..n, i - 1 = 0 \/ chosen[i - 1] = tail[i - 1]
                  PROVE  chosen[i] = tail[i]
      BY <1>1
    <3>1. CASE i = 1
      BY <2>6, <3>1
    <3>2. CASE i # 1
      <4>1. chosen[i] = Joined(chosen[i - 1], pieces[i]) /\ tail[i] = Joined(tail[i - 1], pieces[i])
        BY <1>1, <2>6, <3>2
      <4>. QED BY <3>2, <4>1
    <3>. QED BY <3>1, <3>2
  <2> HIDE DEF S
  <2>9. \A i \in 0..n : i \in S
    BY <1>1, <2>7, <2>8, Induction
  <2>. QED BY <1>1, <1>2, <1>5, <2>4, <2>5, <2>9 DEF S
<1>. QED BY <1>4, <1>5

(* c starts with d                                                         *)
Starts(c, d) == Len(d) <= Len(c) /\ \A k \in 1..Len(d) : c[k] = d[k]

LEMMA StartsLonger ==
  ASSUME NEW a, NEW b, NEW c, NEW d, Len(d) \in Nat, Behind(c, a, b), Starts(a, d)
  PROVE  Starts(c, d)
<1>. PICK x, y, z : x = Len(a) /\ y = Len(b) /\ z = Len(d)
  OBVIOUS
<1>1. x \in Nat /\ y \in Nat /\ z \in Nat /\ z <= x /\ Len(c) = x + y
  BY DEF Behind, Starts
<1>2. \A k \in 1..z : k \in 1..x
  BY <1>1
<1>3. \A k \in 1..z : c[k] = d[k]
  BY <1>2 DEF Behind, Starts
<1>4. z <= x + y
  BY <1>1
<1>. QED BY <1>1, <1>3, <1>4 DEF Starts

(* b stands in c behind its first at cells                                 *)
Stands(c, at, b) == \A k \in 1..Len(b) : c[at + k] = b[k]

LEMMA StandsBehind ==
  ASSUME NEW a, NEW b, NEW c, NEW d, Behind(d, a, b), Starts(c, d)
  PROVE  Stands(c, Len(a), b)
<1>. PICK x, y, z : x = Len(a) /\ y = Len(b) /\ z = Len(d)
  OBVIOUS
<1>1. x \in Nat /\ y \in Nat /\ z = x + y
  BY DEF Behind
<1>2. \A k \in 1..y : x + k \in 1..z
  BY <1>1
<1>3. \A k \in 1..y : c[x + k] = d[x + k] /\ d[x + k] = b[k]
  BY <1>2 DEF Behind, Starts
<1>. QED BY <1>3 DEF Stands

(* A piece stands in the whole where those before it end                   *)
Fits(c, g, pieces, n, i) ==
  /\ Len(g[i - 1]) \in Nat /\ Len(pieces[i]) \in Nat /\ Len(g[n]) \in Nat
  /\ Len(g[i]) = Len(g[i - 1]) + Len(pieces[i]) /\ Len(g[i]) <= Len(g[n])
  /\ Stands(c, Len(g[i - 1]), pieces[i])

LEMMA PieceStands ==
  ASSUME NEW X, NEW n \in Nat, NEW pieces,
         NEW g, Pieced(g, pieces, n, X), NEW i \in 1..n
  PROVE  Fits(g[n], g, pieces, n, i)
<1>1. /\ \A j \in 0..n : g[j] \in Seq(X)
      /\ \A j \in 1..n : pieces[j] \in Seq(X) /\ g[j] = Joined(g[j - 1], pieces[j])
  BY DEF Pieced
<1>2. ASSUME NEW j \in 1..n
      PROVE  Behind(g[j], g[j - 1], pieces[j])
  <2>1. g[j - 1] \in Seq(X) /\ pieces[j] \in Seq(X) /\ g[j] = Joined(g[j - 1], pieces[j])
    BY <1>1
  <2>2. Behind(Joined(g[j - 1], pieces[j]), g[j - 1], pieces[j])
    BY <2>1, JoinedProperties
  <2>. QED BY <2>1, <2>2, Zenon
<1> DEFINE S == {j \in 0..n : i <= j => Starts(g[j], g[i])}
<1>3. \A j \in 0..n : Len(g[j]) \in Nat
  BY <1>1, LenProperties
<1>4. Starts(g[i], g[i])
  BY <1>3 DEF Starts
<1>5. \A j \in 1..n : j - 1 \in S => j \in S
  <2>. SUFFICES ASSUME NEW j \in 1..n, j - 1 \in S, i <= j PROVE Starts(g[j], g[i])
    OBVIOUS
  <2>1. CASE i = j
    BY <1>4, <2>1, Zenon
  <2>2. CASE i # j
    <3>1. i <= j - 1
      BY <2>2
    <3>2. Starts(g[j - 1], g[i])
      BY <3>1
    <3>. QED BY <1>2, <1>3, <3>2, StartsLonger
  <2>. QED BY <2>1, <2>2
<1>6. 0 \in S
  OBVIOUS
<1> HIDE DEF S
<1>7. \A j \in 0..n : j \in S
  BY <1>5, <1>6, Induction
<1>8. Starts(g[n], g[i])
  BY <1>7 DEF S
<1>10. Behind(g[i], g[i - 1], pieces[i])
  BY <1>2
<1>9. Stands(g[n], Len(g[i - 1]), pieces[i])
  BY <1>8, <1>10, StandsBehind
<1>11. Len(g[i - 1]) \in Nat /\ Len(pieces[i]) \in Nat /\ Len(g[i]) = Len(g[i - 1]) + Len(pieces[i])
  BY <1>10 DEF Behind
<1>12. Len(g[i]) <= Len(g[n])
  BY <1>8 DEF Starts
<1>13. Len(g[n]) \in Nat
  BY <1>3
<1>. QED BY <1>9, <1>11, <1>12, <1>13, Zenon DEF Fits

(* What stands in what stands in c stands in c                              *)
LEMMA StandsDeeper ==
  ASSUME NEW c, NEW p \in Nat, NEW b, Stands(c, p, b), NEW q \in Nat, NEW d, Stands(b, q, d),
         NEW m \in Nat, m = Len(b), NEW n \in Nat, n = Len(d), q + n <= m
  PROVE  Stands(c, p + q, d)
<1>. SUFFICES ASSUME NEW k \in 1..n PROVE c[p + q + k] = d[k]
  BY DEF Stands
<1>1. q + k \in 1..m /\ p + (q + k) = p + q + k
  OBVIOUS
<1>2. c[p + (q + k)] = b[q + k]
  BY <1>1 DEF Stands
<1>3. b[q + k] = d[k]
  BY DEF Stands
<1>. QED BY <1>1, <1>2, <1>3

(* The two parts of what stands in c                                       *)
LEMMA StandsApart ==
  ASSUME NEW c, NEW p \in Nat, NEW d, NEW a, NEW b, Behind(d, a, b), Stands(c, p, d),
         NEW q \in Nat, q = Len(a)
  PROVE  Stands(c, p, a) /\ Stands(c, p + q, b)
<1>. PICK y, z : y = Len(b) /\ z = Len(d)
  OBVIOUS
<1>1. y \in Nat /\ z = q + y
  BY DEF Behind
<1>2. ASSUME NEW k \in 1..q PROVE c[p + k] = a[k]
  <2>1. k \in 1..z
    BY <1>1
  <2>2. c[p + k] = d[k] /\ d[k] = a[k]
    BY <2>1 DEF Stands, Behind
  <2>. QED BY <2>2
<1>3. ASSUME NEW k \in 1..y PROVE c[p + q + k] = b[k]
  <2>1. q + k \in 1..z /\ p + (q + k) = p + q + k
    BY <1>1
  <2>2. c[p + (q + k)] = d[q + k] /\ d[q + k] = b[k]
    BY <2>1 DEF Stands, Behind
  <2>. QED BY <2>1, <2>2
<1>. QED BY <1>2, <1>3 DEF Stands

(* A range of the cells, where b stands, is b                              *)
LEMMA StandsRange ==
  ASSUME NEW X, NEW c, NEW p \in Nat, NEW b \in Seq(X), Stands(c, p, b), NEW n, n = Len(b)
  PROVE  SubSeq(c, p + 1, p + n) = b
<1>1. n \in Nat /\ \A k \in 1..n : c[p + k] = b[k] /\ b[k] \in X
  BY LenProperties, ElementOfSeq DEF Stands
<1>2. ASSUME NEW i \in p+1..p+n PROVE c[i] \in X
  <2>1. i - p \in 1..n /\ p + (i - p) = i
    BY <1>1
  <2>. QED BY <1>1, <2>1
<1>3. /\ SubSeq(c, p + 1, p + n) \in Seq(X)
      /\ Len(SubSeq(c, p + 1, p + n)) = (IF p + 1 <= p + n THEN p + n - (p + 1) + 1 ELSE 0)
      /\ \A i \in 1..p+n-(p+1)+1 : SubSeq(c, p + 1, p + n)[i] = c[p + 1 + i - 1]
  BY <1>1, <1>2, SubSeqProperties
<1>. PICK r : r = SubSeq(c, p + 1, p + n)
  OBVIOUS
<1>4. p + n - (p + 1) + 1 = n /\ (IF p + 1 <= p + n THEN p + n - (p + 1) + 1 ELSE 0) = n
  BY <1>1
<1>5. r \in Seq(X) /\ Len(r) = n
  BY <1>3, <1>4
<1>6. ASSUME NEW i \in 1..n PROVE r[i] = b[i]
  <2>1. p + 1 + i - 1 = p + i
    BY <1>1
  <2>. QED BY <1>1, <1>3, <1>4, <2>1
<1>. QED BY <1>5, <1>6, SeqEqual

(* and behind one cell in front of the whole, one cell further             *)
LEMMA PieceStandsBehindOne ==
  ASSUME NEW n, NEW pieces, NEW g, NEW i, Fits(g[n], g, pieces, n, i), NEW c, Stands(c, 1, g[n])
  PROVE  Stands(c, 1 + Len(g[i - 1]), pieces[i])
<1>. PICK x, m, z : x = Len(g[i - 1]) /\ m = Len(pieces[i]) /\ z = Len(g[n])
  OBVIOUS
<1>1. x \in Nat /\ m \in Nat /\ z \in Nat /\ Len(g[i]) = x + m /\ x + m <= z /\ Stands(g[n], x, pieces[i])
  BY DEF Fits
<1>2. Stands(c, 1 + x, pieces[i])
  BY <1>1, StandsDeeper
<1>. QED BY <1>1, <1>2

================================================================================
