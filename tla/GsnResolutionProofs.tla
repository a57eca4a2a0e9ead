--------------------------- MODULE GsnResolutionProofs ---------------------------
(***************************************************************************)
(* Proofs about GsnResolution, for any letters and texts of any length:    *)
(* writing a url and decoding it are inverse to each other, so all nodes   *)
(* on the way of a url handle one and the same.                            *)
(***************************************************************************)
EXTENDS GsnResolution, SequenceLemmas

LEMMA ConcatAppend ==
  ASSUME NEW S, NEW a \in Seq(S), NEW b \in Seq(S), NEW c \in S
  PROVE  a \o Append(b, c) = Append(a \o b, c)
<1>1. <<c>> \in Seq(S) /\ a \o b \in Seq(S)
  BY ConcatProperties
<1>. QED BY <1>1, AppendIsConcat, ConcatAssociative

--------------------------------------------------------------------------------
(* The loop of decode                                                      *)
Text == Seq(Characters)

LEMMA Alphabet ==
  /\ {".", ":", "/", "?", Nul} \subseteq Characters /\ Letters \subseteq Characters
  /\ \A ch \in Letters : ch \notin {".", ":", "/", "?", Nul}
  /\ Nul \notin {".", ":", "/", "?"}
  /\ Part \subseteq Text
<1>1. Part \subseteq Text
  BY SeqMonotonic DEF Part, Text, Characters
<1>. QED BY <1>1, LettersAssumption DEF Characters, Nul

LEMMA TurnCases ==
  ASSUME NEW s, NEW ch
  PROVE  /\ ch \in {".", ":"} =>
              Turn(s, ch) = [url |-> [s.url EXCEPT !.gsn = Append(@, s.t)],
                             state |-> IF ch = ":" THEN "glq" ELSE s.state, t |-> <<>>]
         /\ ch = "/" =>
              Turn(s, ch) = [url |-> IF s.state \in {"gsn", "glq"} THEN Stored(s) ELSE s.url,
                             state |-> "res", t |-> <<>>]
         /\ ch = "?" =>
              Turn(s, ch) = [url |-> IF s.state # "spq" THEN Stored(s) ELSE s.url,
                             state |-> "spq", t |-> <<>>]
         /\ ch = Nul => Turn(s, ch) = [url |-> Stored(s), state |-> s.state, t |-> <<>>]
         /\ ch \in Letters => Turn(s, ch) = [s EXCEPT !.t = Append(@, ch)]
BY LettersAssumption DEF Turn, Terminates, Nul

LEMMA StoredParts ==
  ASSUME NEW u, NEW part
  PROVE  /\ Stored([url |-> u, state |-> "glq", t |-> part]) = [u EXCEPT !.glq = part]
         /\ Stored([url |-> u, state |-> "res", t |-> part]) = [u EXCEPT !.res = part]
         /\ Stored([url |-> u, state |-> "spq", t |-> part]) = [u EXCEPT !.spq = part]
BY DEF Stored

LEMMA StoredType ==
  ASSUME NEW s \in Scan
  PROVE  Stored(s) \in Url
<1>1. s.url \in Url /\ s.t \in Part /\ s.state \in {"gsn", "glq", "res", "spq"}
  BY DEF Scan
<1>2. Append(s.url.gsn, s.t) \in Seq(Part)
  BY <1>1, AppendProperties DEF Url
<1>. QED BY <1>1, <1>2 DEF Stored, Url

LEMMA TurnType ==
  ASSUME NEW s \in Scan, NEW ch \in Characters
  PROVE  Turn(s, ch) \in Scan
<1>1. s.url \in Url /\ s.t \in Part /\ s.state \in {"gsn", "glq", "res", "spq"} /\ <<>> \in Part
  BY EmptySeq DEF Scan, Part
<1>2. Stored(s) \in Url
  BY StoredType
<1>3. Append(s.url.gsn, s.t) \in Seq(Part)
  BY <1>1, AppendProperties DEF Url
<1>4. [s.url EXCEPT !.gsn = Append(@, s.t)] \in Url
  BY <1>1, <1>3 DEF Url
<1>5. CASE ch \in {".", ":"}
  <2>1. Turn(s, ch) = [url |-> [s.url EXCEPT !.gsn = Append(@, s.t)],
                       state |-> IF ch = ":" THEN "glq" ELSE s.state, t |-> <<>>]
    BY <1>5, TurnCases
  <2>. QED BY <1>1, <1>4, <2>1 DEF Scan
<1>6. CASE ch = "/"
  BY <1>1, <1>2, <1>6, TurnCases DEF Scan
<1>7. CASE ch = "?"
  BY <1>1, <1>2, <1>7, TurnCases DEF Scan
<1>8. CASE ch = Nul
  BY <1>1, <1>2, <1>8, TurnCases DEF Scan
<1>9. CASE ch \in Letters
  <2>1. Append(s.t, ch) \in Part
    BY <1>1, <1>9, AppendProperties DEF Part
  <2>2. Turn(s, ch) = [s EXCEPT !.t = Append(@, ch)]
    BY <1>9, TurnCases
  <2>. QED BY <2>1, <2>2 DEF Scan
<1>. QED BY <1>5, <1>6, <1>7, <1>8, <1>9 DEF Characters

(* What the loop has after each turn                                       *)
IsScan(g, from, word, n) ==
  /\ g \in [0..n -> Scan]
  /\ g[0] = from
  /\ \A i \in 1..n : g[i] = Turn(g[i - 1], word[i])

LEMMA ScanUnique ==
  ASSUME NEW from, NEW word, NEW n \in Nat, NEW g, NEW h, IsScan(g, from, word, n), IsScan(h, from, word, n)
  PROVE  g = h
<1> DEFINE S == {i \in 0..n : g[i] = h[i]}
<1>1. 0 \in S
  BY DEF IsScan
<1>2. \A i \in 1..n : g[i] = Turn(g[i-1], word[i]) /\ h[i] = Turn(h[i-1], word[i])
  BY DEF IsScan
<1>3. \A i \in 1..n : i - 1 \in S => i \in S
  BY <1>2
<1> HIDE DEF S
<1>4. \A i \in 0..n : i \in S
  BY <1>1, <1>3, Induction
<1>5. \A i \in 0..n : g[i] = h[i]
  BY <1>4 DEF S
<1>. QED BY <1>5 DEF IsScan

LEMMA ScannedRuns ==
  ASSUME NEW from \in Scan, NEW word \in Text
  PROVE  \E g : IsScan(g, from, word, Len(word)) /\ Scanned(from, word) = g[Len(word)]
<1>. PICK n : n = Len(word)
  OBVIOUS
<1> DEFINE turn == [i \in 1..n |-> [s \in Scan |-> Turn(s, word[i])]]
           Loop(g) == g = [i \in 0..n |-> IF i = 0 THEN from ELSE Turn(g[i - 1], word[i])]
           chosen == CHOOSE g : Loop(g)
<1>1. n \in Nat /\ \A i \in 1..n : word[i] \in Characters
  BY LenProperties, ElementOfSeq DEF Text
<1>2. turn \in [1..n -> [Scan -> Scan]]
  BY <1>1, TurnType
<1>3. \A i \in 1..n, s \in Scan : turn[i][s] = Turn(s, word[i])
  OBVIOUS
<1> HIDE DEF turn
<1>4. PICK g \in [0..n -> Scan] : IsLoop(g, from, turn, n)
  BY <1>1, <1>2, LoopRuns
<1>5. \A i \in 1..n : turn[i][g[i-1]] = Turn(g[i-1], word[i])
  BY <1>1, <1>3
<1>6. Loop(g)
  BY <1>4, <1>5 DEF IsLoop
<1>7. Loop(chosen)
  BY <1>6
<1>8. Scanned(from, word) = chosen[n]
  BY DEF Scanned
<1> HIDE DEF chosen
<1>9. IsScan(chosen, from, word, n)
  <2>1. chosen[0] = from /\ \A i \in 1..n : chosen[i] = Turn(chosen[i - 1], word[i])
    BY <1>1, <1>7
  <2> DEFINE T == {i \in 0..n : chosen[i] \in Scan}
  <2>2. 0 \in T
    BY <1>1, <2>1
  <2>3. \A i \in 1..n : i - 1 \in T => i \in T
    BY <1>1, <2>1, TurnType
  <2> HIDE DEF T
  <2>4. \A i \in 0..n : i \in T
    BY <1>1, <2>2, <2>3, Induction
  <2>5. \A i \in 0..n : chosen[i] \in Scan
    BY <2>4 DEF T
  <2>6. chosen \in [0..n -> Scan]
    BY <1>7, <2>5
  <2>. QED BY <2>1, <2>6 DEF IsScan
<1>. QED BY <1>8, <1>9

LEMMA RunScan ==
  ASSUME NEW from \in Scan, NEW word \in Text, NEW g, IsScan(g, from, word, Len(word))
  PROVE  Scanned(from, word) = g[Len(word)]
<1>1. Len(word) \in Nat
  BY LenProperties DEF Text
<1>2. PICK h : IsScan(h, from, word, Len(word)) /\ Scanned(from, word) = h[Len(word)]
  BY ScannedRuns
<1>3. g = h
  BY <1>1, <1>2, ScanUnique
<1>. QED BY <1>2, <1>3

(* What holds before the loop, and after a turn if it held before it,      *)
(* holds at the end of the text.                                           *)
LEMMA ScanLoop ==
  ASSUME NEW from \in Scan, NEW word \in Text, NEW S, <<0, from>> \in S,
         \A i \in 1..Len(word), s \in Scan : <<i - 1, s>> \in S => <<i, Turn(s, word[i])>> \in S
  PROVE  <<Len(word), Scanned(from, word)>> \in S
<1>. PICK n : n = Len(word)
  OBVIOUS
<1>0. n \in Nat
  BY LenProperties DEF Text
<1>1. PICK g : IsScan(g, from, word, n) /\ Scanned(from, word) = g[n]
  BY ScannedRuns
<1> DEFINE T == {i \in 0..n : <<i, g[i]>> \in S}
<1>2. 0 \in T
  BY <1>0, <1>1 DEF IsScan
<1>3. \A i \in 1..n : g[i] = Turn(g[i - 1], word[i]) /\ g[i - 1] \in Scan
  BY <1>0, <1>1 DEF IsScan
<1>5. \A i \in 1..n : i - 1 \in T => i \in T
  BY <1>0, <1>3
<1> HIDE DEF T
<1>4. \A i \in 0..n : i \in T
  BY <1>0, <1>2, <1>5, Induction
<1>. QED BY <1>0, <1>1, <1>4 DEF T

LEMMA ScannedType ==
  ASSUME NEW from \in Scan, NEW word \in Text
  PROVE  Scanned(from, word) \in Scan
<1>1. Len(word) \in Nat
  BY LenProperties DEF Text
<1>2. PICK g : IsScan(g, from, word, Len(word)) /\ Scanned(from, word) = g[Len(word)]
  BY ScannedRuns
<1>. QED BY <1>1, <1>2 DEF IsScan

LEMMA ScanNothing ==
  ASSUME NEW from \in Scan
  PROVE  Scanned(from, <<>>) = from
<1>1. <<>> \in Text /\ Len(<<>>) = 0
  BY EmptySeq DEF Text
<1>2. PICK g : IsScan(g, from, <<>>, Len(<<>>)) /\ Scanned(from, <<>>) = g[Len(<<>>)]
  BY <1>1, ScannedRuns
<1>. QED BY <1>1, <1>2 DEF IsScan

(* A text in two pieces is read one after the other                        *)
LEMMA ScanConcat ==
  ASSUME NEW from \in Scan, NEW a \in Text, NEW b \in Text
  PROVE  Scanned(from, a \o b) = Scanned(Scanned(from, a), b)
<1>. PICK m, n : m = Len(a) /\ n = Len(b)
  OBVIOUS
<1>1. /\ m \in Nat /\ n \in Nat /\ a \o b \in Text /\ Len(a \o b) = m + n
      /\ \A i \in 1..m : (a \o b)[i] = a[i]
      /\ \A i \in 1..n : (a \o b)[m + i] = b[i]
  BY LenProperties, ConcatProperties DEF Text
<1>2. PICK g : IsScan(g, from, a \o b, Len(a \o b)) /\ Scanned(from, a \o b) = g[Len(a \o b)]
  BY <1>1, ScannedRuns
<1>3. /\ g \in [0..m+n -> Scan] /\ g[0] = from /\ Scanned(from, a \o b) = g[m + n]
      /\ \A i \in 1..m+n : g[i] = Turn(g[i - 1], (a \o b)[i])
  BY <1>1, <1>2 DEF IsScan
<1> DEFINE front == [i \in 0..m |-> g[i]]
           rest == [i \in 0..n |-> g[m + i]]
<1>4. /\ front \in [0..m -> Scan] /\ front[0] = from
      /\ \A i \in 1..m : front[i] = Turn(front[i - 1], a[i])
  BY <1>1, <1>3
<1>5. /\ rest \in [0..n -> Scan] /\ rest[0] = g[m]
      /\ \A i \in 1..n : rest[i] = Turn(rest[i - 1], b[i])
  <2>1. \A i \in 1..n : /\ m + i \in 1..m+n /\ (a \o b)[m + i] = b[i]
                         /\ rest[i] = g[m + i] /\ rest[i - 1] = g[m + i - 1]
    BY <1>1
  <2>2. \A i \in 1..n : rest[i] = Turn(rest[i - 1], b[i])
    BY <1>3, <2>1
  <2>3. rest \in [0..n -> Scan] /\ rest[0] = g[m]
    BY <1>1, <1>3
  <2>. QED BY <2>2, <2>3
<1>6. front[m] = g[m] /\ rest[n] = g[m + n] /\ g[m] \in Scan
  BY <1>1, <1>3
<1> HIDE DEF front, rest
<1>7. IsScan(front, from, a, m) /\ IsScan(rest, g[m], b, n)
  BY <1>4, <1>5 DEF IsScan
<1>8. Scanned(from, a) = g[m]
  BY <1>6, <1>7, RunScan
<1>9. Scanned(g[m], b) = g[m + n]
  BY <1>6, <1>7, RunScan
<1>. QED BY <1>3, <1>8, <1>9

LEMMA ScanOne ==
  ASSUME NEW from \in Scan, NEW word \in Text, Len(word) = 1
  PROVE  Scanned(from, word) = Turn(from, word[1])
<1>1. PICK g : IsScan(g, from, word, Len(word)) /\ Scanned(from, word) = g[Len(word)]
  BY ScannedRuns
<1>. QED BY <1>1 DEF IsScan

LEMMA PartAppend ==
  ASSUME NEW a \in Part, NEW b \in Part, NEW c \in Letters
  PROVE  a \o Append(b, c) = Append(a \o b, c)
BY ConcatAppend DEF Part

(* Letters are added to the part the loop reads                            *)
LEMMA ScanPart ==
  ASSUME NEW s \in Scan, NEW part \in Part
  PROVE  Scanned(s, part) = [s EXCEPT !.t = @ \o part]
<1>. PICK n : n = Len(part)
  OBVIOUS
<1>0. /\ n \in Nat /\ part \in Text /\ \A i \in 1..n : part[i] \in Letters
      /\ s.t \in Part /\ SubSeq(part, 1, 0) = <<>> /\ SubSeq(part, 1, n) = part
      /\ \A i \in 0..n : SubSeq(part, 1, i) \in Part
  BY Alphabet, LenProperties, ElementOfSeq, SubSeqProperties DEF Part, Scan
<1> DEFINE Read(i) == [s EXCEPT !.t = @ \o SubSeq(part, 1, i)]
           S == {<<i, Read(i)>> : i \in 0..n}
<1>1. s = Read(0)
  <2>1. s.t \o SubSeq(part, 1, 0) = s.t
    BY <1>0, ConcatEmptySeq DEF Part
  <2>. QED BY <2>1 DEF Scan
<1>2. \A i \in 1..n : Turn(Read(i - 1), part[i]) = Read(i)
  <2>. SUFFICES ASSUME NEW i \in 1..n PROVE Turn(Read(i - 1), part[i]) = Read(i)
    OBVIOUS
  <2>. PICK before, ch : before = SubSeq(part, 1, i - 1) /\ ch = part[i]
    OBVIOUS
  <2>1. SubSeq(part, 1, i) = Append(before, ch) /\ before \in Part /\ ch \in Letters
    BY <1>0 DEF Part
  <2>2. s.t \o Append(before, ch) = Append(s.t \o before, ch)
      BY <1>0, <2>1, PartAppend
  <2>3. Turn(Read(i - 1), ch) = [Read(i - 1) EXCEPT !.t = Append(@, ch)]
    <3>1. PICK x : x = Read(i - 1)
      OBVIOUS
    <3>2. Turn(x, ch) = [x EXCEPT !.t = Append(@, ch)]
      BY <2>1, Alphabet, TurnCases
    <3>. QED BY <3>1, <3>2, Zenon
  <2>4. [Read(i - 1) EXCEPT !.t = Append(@, ch)] = [s EXCEPT !.t = Append(s.t \o before, ch)]
    BY DEF Scan
  <2>. QED BY <2>1, <2>2, <2>3, <2>4
<1> HIDE DEF Read
<1>3. <<0, s>> \in S
  BY <1>0, <1>1
<1>4. \A i \in 1..n, x \in Scan : <<i - 1, x>> \in S => <<i, Turn(x, part[i])>> \in S
  BY <1>0, <1>2
<1> HIDE DEF S
<1>5. <<n, Scanned(s, part)>> \in S
  BY <1>0, <1>3, <1>4, ScanLoop
<1>6. Scanned(s, part) = Read(n)
  BY <1>5 DEF S
<1>. QED BY <1>0, <1>6 DEF Read

--------------------------------------------------------------------------------
(* The loop of to_string over the elements of the route                    *)
WithDot(word, part) == word \o part \o <<".">>

IsDots(g, gsn, n) ==
  /\ g \in [0..n -> Text]
  /\ g[0] = <<>>
  /\ \A i \in 1..n : g[i] = WithDot(g[i - 1], gsn[i])

LEMMA DotText ==
  ASSUME NEW word \in Text, NEW part \in Part
  PROVE  <<".">> \in Text /\ word \o part \in Text /\ WithDot(word, part) \in Text
<1>1. <<".">> \in Text /\ part \in Text
  BY Alphabet DEF Text
<1>. QED BY <1>1, ConcatProperties DEF Text, WithDot

LEMMA DotsRun ==
  ASSUME NEW gsn \in Seq(Part)
  PROVE  \E g : IsDots(g, gsn, Len(gsn)) /\ Dots(gsn) = g[Len(gsn)]
<1>. PICK n : n = Len(gsn)
  OBVIOUS
<1> DEFINE turn == [i \in 1..n |-> [w \in Text |-> WithDot(w, gsn[i])]]
           Loop(g) == g = [i \in 0..n |-> IF i = 0 THEN <<>> ELSE WithDot(g[i - 1], gsn[i])]
           chosen == CHOOSE g : Loop(g)
<1>1. n \in Nat /\ <<>> \in Text /\ \A i \in 1..n : gsn[i] \in Part
  BY LenProperties, ElementOfSeq DEF Text
<1>2. turn \in [1..n -> [Text -> Text]]
  BY <1>1, DotText
<1>3. \A i \in 1..n, w \in Text : turn[i][w] = WithDot(w, gsn[i])
  OBVIOUS
<1> HIDE DEF turn
<1>4. PICK g \in [0..n -> Text] : IsLoop(g, <<>>, turn, n)
  BY <1>1, <1>2, LoopRuns
<1>5. \A i \in 1..n : turn[i][g[i-1]] = WithDot(g[i-1], gsn[i])
  BY <1>1, <1>3
<1>6. Loop(g)
  BY <1>4, <1>5 DEF IsLoop
<1>7. Loop(chosen)
  BY <1>6
<1>8. Dots(gsn) = chosen[n]
  BY DEF Dots, WithDot
<1> HIDE DEF chosen
<1>9. IsDots(chosen, gsn, n)
  <2>1. chosen[0] = <<>> /\ \A i \in 1..n : chosen[i] = WithDot(chosen[i - 1], gsn[i])
    BY <1>1, <1>7
  <2> DEFINE T == {i \in 0..n : chosen[i] \in Text}
  <2>2. 0 \in T
    BY <1>1, <2>1
  <2>3. \A i \in 1..n : i - 1 \in T => i \in T
    BY <1>1, <2>1, DotText
  <2> HIDE DEF T
  <2>4. \A i \in 0..n : i \in T
    BY <1>1, <2>2, <2>3, Induction
  <2>5. \A i \in 0..n : chosen[i] \in Text
    BY <2>4 DEF T
  <2>6. chosen \in [0..n -> Text]
    BY <1>7, <2>5
  <2>. QED BY <2>1, <2>6 DEF IsDots
<1>. QED BY <1>8, <1>9

LEMMA RunDots ==
  ASSUME NEW gsn \in Seq(Part), NEW g, IsDots(g, gsn, Len(gsn))
  PROVE  Dots(gsn) = g[Len(gsn)]
<1>. PICK n : n = Len(gsn)
  OBVIOUS
<1>1. n \in Nat
  BY LenProperties
<1>2. PICK h : IsDots(h, gsn, n) /\ Dots(gsn) = h[n]
  BY DotsRun
<1> DEFINE S == {i \in 0..n : g[i] = h[i]}
<1>3. 0 \in S
  BY <1>1, <1>2 DEF IsDots
<1>4. \A i \in 1..n : g[i] = WithDot(g[i - 1], gsn[i]) /\ h[i] = WithDot(h[i - 1], gsn[i])
  BY <1>2 DEF IsDots
<1>5. \A i \in 1..n : i - 1 \in S => i \in S
  BY <1>1, <1>4
<1> HIDE DEF S
<1>6. \A i \in 0..n : i \in S
  BY <1>1, <1>3, <1>5, Induction
<1>. QED BY <1>1, <1>2, <1>6 DEF S

LEMMA DotsType ==
  ASSUME NEW gsn \in Seq(Part)
  PROVE  Dots(gsn) \in Text
<1>1. Len(gsn) \in Nat
  BY LenProperties
<1>2. PICK g : IsDots(g, gsn, Len(gsn)) /\ Dots(gsn) = g[Len(gsn)]
  BY DotsRun
<1>. QED BY <1>1, <1>2 DEF IsDots

LEMMA DotsNothing == Dots(<<>>) = <<>>
<1>1. <<>> \in Seq(Part) /\ Len(<<>>) = 0
  OBVIOUS
<1>2. PICK g : IsDots(g, <<>>, Len(<<>>)) /\ Dots(<<>>) = g[Len(<<>>)]
  BY <1>1, DotsRun
<1>. QED BY <1>1, <1>2 DEF IsDots

LEMMA DotsAppend ==
  ASSUME NEW gsn \in Seq(Part), NEW part \in Part
  PROVE  Dots(Append(gsn, part)) = WithDot(Dots(gsn), part)
<1>. PICK n, all : n = Len(gsn) /\ all = Append(gsn, part)
  OBVIOUS
<1>1. /\ n \in Nat /\ all \in Seq(Part) /\ Len(all) = n + 1 /\ all[n + 1] = part
      /\ \A i \in 1..n : all[i] = gsn[i]
  BY LenProperties, AppendProperties
<1>2. PICK g : IsDots(g, all, Len(all)) /\ Dots(all) = g[Len(all)]
  BY <1>1, DotsRun
<1>3. /\ g \in [0..n+1 -> Text] /\ g[0] = <<>> /\ Dots(all) = g[n + 1]
      /\ \A i \in 1..n+1 : g[i] = WithDot(g[i - 1], all[i])
  BY <1>1, <1>2 DEF IsDots
<1> DEFINE front == [i \in 0..n |-> g[i]]
<1>4. \A i \in 1..n : front[i] = g[i] /\ front[i - 1] = g[i - 1]
  BY <1>1
<1>5. \A i \in 1..n : front[i] = WithDot(front[i - 1], gsn[i])
  BY <1>1, <1>3, <1>4
<1>6. front \in [0..n -> Text] /\ front[0] = <<>> /\ front[n] = g[n]
  BY <1>1, <1>3
<1> HIDE DEF front
<1>7. IsDots(front, gsn, n)
  BY <1>5, <1>6 DEF IsDots
<1>8. Dots(gsn) = g[n]
  BY <1>6, <1>7, RunDots
<1>9. g[n + 1] = WithDot(g[n], part)
  BY <1>1, <1>3
<1>. QED BY <1>1, <1>3, <1>8, <1>9

(* What decode has after the dots: the elements, and nothing else          *)
After(gsn) == [url |-> [EmptyUrl EXCEPT !.gsn = gsn], state |-> "gsn", t |-> <<>>]

LEMMA AfterType ==
  ASSUME NEW gsn \in Seq(Part)
  PROVE  After(gsn) \in Scan
<1>1. <<>> \in Part
  BY DEF Part
<1>. QED BY <1>1 DEF After, Scan, Url, EmptyUrl

LEMMA ScanElement ==
  ASSUME NEW gsn \in Seq(Part), NEW part \in Part
  PROVE  Scanned(After(gsn), part \o <<".">>) = After(Append(gsn, part))
<1>1. /\ After(gsn) \in Scan /\ part \in Text /\ <<".">> \in Text
      /\ Len(<<".">>) = 1 /\ <<".">>[1] = "." /\ <<>> \o part = part
  BY AfterType, Alphabet DEF Text, Part
<1>. PICK s : s = Scanned(After(gsn), part)
  OBVIOUS
<1>2. s = [After(gsn) EXCEPT !.t = part]
  BY ZenonT(40), <1>1, ScanPart DEF After
<1>3. s \in Scan
  BY <1>1, ScannedType
<1>4. Scanned(After(gsn), part \o <<".">>) = Turn(s, ".")
  BY <1>1, <1>3, ScanConcat, ScanOne
<1>5. Turn(s, ".") = [url |-> [s.url EXCEPT !.gsn = Append(@, s.t)], state |-> s.state, t |-> <<>>]
  BY TurnCases
<1>. QED BY <1>2, <1>4, <1>5 DEF After, EmptyUrl

Reached(gsn) == Scanned(Begin, Dots(gsn)) = After(gsn)

LEMMA ReachedNothing == Reached(<<>>) /\ Begin = After(<<>>) /\ Begin \in Scan
<1>1. Begin = After(<<>>)
  BY DEF Begin, After, EmptyUrl
<1>2. <<>> \in Seq(Part)
  OBVIOUS
<1>3. Begin \in Scan
  BY <1>1, <1>2, AfterType
<1>. QED BY <1>1, <1>3, ScanNothing, DotsNothing DEF Reached

LEMMA ReachedAppend ==
  ASSUME NEW gsn \in Seq(Part), NEW part \in Part, Reached(gsn)
  PROVE  Reached(Append(gsn, part))
<1>1. Dots(gsn) \in Text /\ part \in Text /\ <<".">> \in Text
  BY DotsType, DotText, Alphabet
<1>2. part \o <<".">> \in Text /\ (Dots(gsn) \o part) \o <<".">> = Dots(gsn) \o (part \o <<".">>)
  BY <1>1, ConcatProperties, ConcatAssociative DEF Text
<1>3. Dots(Append(gsn, part)) = Dots(gsn) \o (part \o <<".">>)
  BY <1>2, DotsAppend DEF WithDot
<1>4. Scanned(Begin, Dots(gsn) \o (part \o <<".">>)) = Scanned(After(gsn), part \o <<".">>)
  BY <1>1, <1>2, ReachedNothing, ScanConcat DEF Reached
<1>. QED BY <1>3, <1>4, ScanElement DEF Reached

LEMMA ScanDots ==
  ASSUME NEW gsn \in Seq(Part)
  PROVE  Scanned(Begin, Dots(gsn)) = After(gsn)
<1>. PICK n : n = Len(gsn)
  OBVIOUS
<1> DEFINE S == {i \in 0..n : Reached(SubSeq(gsn, 1, i))}
<1>1. /\ n \in Nat /\ \A i \in 1..n : gsn[i] \in Part
      /\ \A i \in 0..n : SubSeq(gsn, 1, i) \in Seq(Part)
      /\ SubSeq(gsn, 1, 0) = <<>> /\ SubSeq(gsn, 1, n) = gsn
  BY LenProperties, ElementOfSeq, SubSeqProperties
<1>2. 0 \in S
  <2>1. Reached(SubSeq(gsn, 1, 0))
    BY <1>1, ReachedNothing, Zenon
  <2>. QED BY <1>1, <2>1
<1>3. \A i \in 1..n : i - 1 \in S => i \in S
  <2>. SUFFICES ASSUME NEW i \in 1..n, Reached(SubSeq(gsn, 1, i - 1)) PROVE Reached(SubSeq(gsn, 1, i))
    BY <1>1
  <2>1. SubSeq(gsn, 1, i) = Append(SubSeq(gsn, 1, i - 1), gsn[i])
    BY <1>1
  <2>2. SubSeq(gsn, 1, i - 1) \in Seq(Part) /\ gsn[i] \in Part
    BY <1>1
  <2>. QED BY <2>1, <2>2, ReachedAppend
<1> HIDE DEF S
<1>4. \A i \in 0..n : i \in S
  BY <1>1, <1>2, <1>3, Induction
<1>5. n \in S
  BY <1>1, <1>4
<1>6. Reached(SubSeq(gsn, 1, n))
  BY <1>5 DEF S
<1>7. Reached(gsn)
  BY <1>1, <1>6, Zenon
<1>. QED BY <1>7 DEF Reached

--------------------------------------------------------------------------------
(* Writing a url and decoding it gives the url                             *)
LEMMA FrontLast ==
  ASSUME NEW S, NEW seq \in Seq(S), seq # <<>>
  PROVE  Front(seq) \in Seq(S) /\ Last(seq) \in S /\ Append(Front(seq), Last(seq)) = seq
BY DEF Front, Last

LEMMA FrontLastAppend ==
  ASSUME NEW S, NEW seq \in Seq(S), NEW e \in S
  PROVE  Front(Append(seq, e)) = seq /\ Last(Append(seq, e)) = e /\ Append(seq, e) # <<>>
BY DEF Front, Last

LEMMA DottedType ==
  ASSUME NEW gsn \in Seq(Part)
  PROVE  Dotted(gsn) \in Text
<1>1. CASE gsn = <<>>
  BY <1>1 DEF Dotted, Text
<1>2. CASE gsn # <<>>
  <2>1. Front(gsn) \in Seq(Part) /\ Last(gsn) \in Part
    BY <1>2, FrontLast
  <2>. QED BY <1>2, <2>1, DotsType, DotText DEF Dotted
<1>. QED BY <1>1, <1>2

LEMMA HeadedType ==
  ASSUME NEW separator \in {":", "/", "?"}, NEW part \in Part
  PROVE  Headed(separator, part) \in Text
<1>1. <<>> \in Text /\ <<separator>> \in Text /\ part \in Text
  BY Alphabet DEF Text
<1>. QED BY <1>1, ConcatProperties DEF Headed, Text

LEMMA ToUrlType ==
  ASSUME NEW u \in Url
  PROVE  ToUrl(u) \in Text
<1>. PICK d, q, r, s : /\ d = Dotted(u.gsn) /\ q = Headed(":", u.glq)
                       /\ r = Headed("/", u.res) /\ s = Headed("?", u.spq)
  OBVIOUS
<1>1. d \in Text /\ q \in Text /\ r \in Text /\ s \in Text
  BY DottedType, HeadedType DEF Url
<1>2. d \o q \o r \o s \in Text
  BY <1>1, ConcatProperties DEF Text
<1>. QED BY <1>2 DEF ToUrl

LEMMA ScanDotted ==
  ASSUME NEW gsn \in Seq(Part), gsn # <<>>
  PROVE  Scanned(Begin, Dotted(gsn)) = [After(Front(gsn)) EXCEPT !.t = Last(gsn)]
<1>1. Front(gsn) \in Seq(Part) /\ Last(gsn) \in Part /\ <<>> \o Last(gsn) = Last(gsn)
  BY FrontLast, ConcatEmptySeq DEF Part
<1>2. Dots(Front(gsn)) \in Text /\ Last(gsn) \in Text
  BY <1>1, DotsType, Alphabet
<1>3. Scanned(Begin, Dotted(gsn)) = Scanned(After(Front(gsn)), Last(gsn))
  BY <1>1, <1>2, ReachedNothing, ScanConcat, ScanDots DEF Dotted
<1>4. Scanned(After(Front(gsn)), Last(gsn)) = [After(Front(gsn)) EXCEPT !.t = @ \o Last(gsn)]
  BY <1>1, AfterType, ScanPart
<1>. QED BY <1>1, <1>3, <1>4 DEF After

LEMMA ScanHeaded ==
  ASSUME NEW s \in Scan, NEW separator \in {":", "/", "?"}, NEW part \in Part, part # <<>>, NEW state,
         Turn(s, separator) = [url |-> Stored(s), state |-> state, t |-> <<>>]
  PROVE  Scanned(s, Headed(separator, part)) = [url |-> Stored(s), state |-> state, t |-> part]
<1>1. /\ <<separator>> \in Text /\ Len(<<separator>>) = 1 /\ <<separator>>[1] = separator
      /\ separator \in Characters /\ part \in Text /\ <<>> \o part = part
  BY Alphabet DEF Text, Part
<1>2. Headed(separator, part) = <<separator>> \o part
  BY DEF Headed
<1>3. Scanned(s, <<separator>>) = Turn(s, separator)
  BY <1>1, ScanOne, Zenon
<1>4. Turn(s, separator) \in Scan
  BY <1>1, TurnType
<1>5. Scanned(s, <<separator>> \o part) = Scanned(Turn(s, separator), part)
  BY <1>1, <1>3, ScanConcat, Zenon
<1>6. Scanned(Turn(s, separator), part) = [Turn(s, separator) EXCEPT !.t = @ \o part]
  BY <1>4, ScanPart
<1>. QED BY <1>1, <1>2, <1>5, <1>6

(* The part that ends last is stored by the '\0'                           *)
Holds(s, u) == s \in Scan /\ Stored(s) = u

LEMMA ScanEnds ==
  ASSUME NEW word \in Text, NEW u, Holds(Scanned(Begin, word), u)
  PROVE  Decode(word) = u
<1>1. <<Nul>> \in Text /\ Len(<<Nul>>) = 1 /\ <<Nul>>[1] = Nul
  BY Alphabet DEF Text
<1>2. Append(word, Nul) = word \o <<Nul>>
  BY Alphabet, AppendIsConcat DEF Text
<1>3. Scanned(Begin, Append(word, Nul)) = Turn(Scanned(Begin, word), Nul)
  BY <1>1, <1>2, ReachedNothing, ScanConcat, ScanOne, ScannedType
<1>. QED BY <1>3, TurnCases DEF Decode, Holds

(* The loop of decode on what to_string returned gives the url.            *)
LEMMA DecodeWritten ==
  ASSUME NEW u \in Url, u.gsn # <<>>
  PROVE  Decode(ToUrl(u)) = u
<1>. PICK d, q, r, p : /\ d = Dotted(u.gsn) /\ q = Headed(":", u.glq)
                       /\ r = Headed("/", u.res) /\ p = Headed("?", u.spq)
  OBVIOUS
<1>1. /\ u.gsn \in Seq(Part) /\ u.glq \in Part /\ u.res \in Part /\ u.spq \in Part
      /\ Front(u.gsn) \in Seq(Part) /\ Append(Front(u.gsn), Last(u.gsn)) = u.gsn
      /\ u = [gsn |-> u.gsn, glq |-> u.glq, res |-> u.res, spq |-> u.spq]
  BY FrontLast DEF Url
<1>2. /\ d \in Text /\ q \in Text /\ r \in Text /\ p \in Text
      /\ d \o q \in Text /\ d \o q \o r \in Text
  BY <1>1, DottedType, HeadedType, ConcatProperties DEF Text
<1> DEFINE s0 == Scanned(Begin, d)
           s1 == Scanned(s0, q)
           s2 == Scanned(s1, r)
           s3 == Scanned(s2, p)
<1>3. /\ s0.state = "gsn"
      /\ Holds(s0, [gsn |-> u.gsn, glq |-> <<>>, res |-> <<>>, spq |-> <<>>])
  <2>1. s0 \in Scan
    BY <1>2, ReachedNothing, ScannedType
  <2>2. s0 = [After(Front(u.gsn)) EXCEPT !.t = Last(u.gsn)]
    BY <1>1, ScanDotted
  <2>. QED BY ZenonT(40), <1>1, <2>1, <2>2 DEF Holds, Stored, After, EmptyUrl
<1>4. /\ s1.state \in {"gsn", "glq"}
      /\ Holds(s1, [gsn |-> u.gsn, glq |-> u.glq, res |-> <<>>, spq |-> <<>>])
  <2> HIDE DEF s0
  <2>1. CASE u.glq = <<>>
    <3>1. s1 = s0
      BY <1>3, <2>1, ScanNothing DEF Headed, Holds
    <3>. QED BY <1>3, <2>1, <3>1
  <2>2. CASE u.glq # <<>>
    <3>1. Turn(s0, ":") = [url |-> Stored(s0), state |-> "glq", t |-> <<>>]
      BY <1>3, TurnCases DEF Stored
    <3>2. s1 = [url |-> Stored(s0), state |-> "glq", t |-> u.glq] /\ s1 \in Scan
      BY <1>1, <1>2, <1>3, <2>2, <3>1, ScanHeaded, ScannedType DEF Holds
    <3>3. Stored(s1) = [Stored(s0) EXCEPT !.glq = u.glq]
      BY ZenonT(40), <3>2, StoredParts
    <3> HIDE DEF s1
    <3>. QED BY <1>3, <3>2, <3>3 DEF Holds
  <2>. QED BY <2>1, <2>2
<1>5. /\ s2.state \in {"gsn", "glq", "res"}
      /\ Holds(s2, [gsn |-> u.gsn, glq |-> u.glq, res |-> u.res, spq |-> <<>>])
  <2> HIDE DEF s1
  <2>1. CASE u.res = <<>>
    <3>1. s2 = s1
      BY <1>4, <2>1, ScanNothing DEF Headed, Holds
    <3>. QED BY <1>4, <2>1, <3>1
  <2>2. CASE u.res # <<>>
    <3>1. Turn(s1, "/") = [url |-> Stored(s1), state |-> "res", t |-> <<>>]
      BY <1>4, TurnCases
    <3>2. s2 = [url |-> Stored(s1), state |-> "res", t |-> u.res] /\ s2 \in Scan
      BY <1>1, <1>2, <1>4, <2>2, <3>1, ScanHeaded, ScannedType DEF Holds
    <3>3. Stored(s2) = [Stored(s1) EXCEPT !.res = u.res]
      BY ZenonT(40), <3>2, StoredParts
    <3> HIDE DEF s2
    <3>. QED BY <1>4, <3>2, <3>3 DEF Holds
  <2>. QED BY <2>1, <2>2
<1>6. Holds(s3, u)
  <2> HIDE DEF s2
  <2>1. CASE u.spq = <<>>
    <3>1. s3 = s2
      BY <1>5, <2>1, ScanNothing DEF Headed, Holds
    <3>. QED BY <1>1, <1>5, <2>1, <3>1
  <2>2. CASE u.spq # <<>>
    <3>1. Turn(s2, "?") = [url |-> Stored(s2), state |-> "spq", t |-> <<>>]
      BY <1>5, TurnCases
    <3>2. s3 = [url |-> Stored(s2), state |-> "spq", t |-> u.spq] /\ s3 \in Scan
      BY <1>1, <1>2, <1>5, <2>2, <3>1, ScanHeaded, ScannedType DEF Holds
    <3>3. Stored(s3) = [Stored(s2) EXCEPT !.spq = u.spq]
      BY ZenonT(40), <3>2, StoredParts
    <3> HIDE DEF s3
    <3>. QED BY <1>1, <1>5, <3>2, <3>3 DEF Holds
  <2>. QED BY <2>1, <2>2
<1>7. s3 = Scanned(Begin, d \o q \o r \o p)
  BY <1>2, ReachedNothing, ScanConcat, ScannedType
<1> HIDE DEF s3
<1>. QED BY <1>2, <1>6, <1>7, ToUrlType, ScanEnds DEF ToUrl

--------------------------------------------------------------------------------
(* What decode returns has a route: its test for an empty one cannot       *)
(* succeed.                                                                *)
HasRoute(s) == s.state # "gsn" => s.url.gsn # <<>>

LEMMA StoredRoute ==
  ASSUME NEW s \in Scan, HasRoute(s)
  PROVE  Stored(s).gsn # <<>>
<1>1. s.url \in Url /\ s.t \in Part /\ s.state \in {"gsn", "glq", "res", "spq"}
  BY DEF Scan
<1>2. Append(s.url.gsn, s.t) # <<>>
  BY <1>1, AppendProperties DEF Url
<1>. QED BY <1>1, <1>2 DEF HasRoute, Stored, Url

LEMMA TurnRoute ==
  ASSUME NEW s \in Scan, NEW ch \in Characters, HasRoute(s)
  PROVE  HasRoute(Turn(s, ch))
<1>1. s.url \in Url /\ s.t \in Part /\ s.state \in {"gsn", "glq", "res", "spq"}
  BY DEF Scan
<1>2. Append(s.url.gsn, s.t) # <<>>
  BY <1>1, AppendProperties DEF Url
<1>3. Stored(s).gsn # <<>>
  BY StoredRoute
<1>4. CASE ch \in {".", ":"}
  <2>1. Turn(s, ch).url = [s.url EXCEPT !.gsn = Append(@, s.t)]
    BY <1>4, TurnCases
  <2>. QED BY <1>1, <1>2, <2>1 DEF HasRoute, Url
<1>5. CASE ch = "/"
  <2>1. Turn(s, ch).url = IF s.state \in {"gsn", "glq"} THEN Stored(s) ELSE s.url
    BY <1>5, TurnCases
  <2>. QED BY <1>1, <1>3, <2>1 DEF HasRoute
<1>6. CASE ch = "?"
  <2>1. Turn(s, ch).url = IF s.state # "spq" THEN Stored(s) ELSE s.url
    BY <1>6, TurnCases
  <2>. QED BY <1>1, <1>3, <2>1 DEF HasRoute
<1>7. CASE ch = Nul
  BY <1>3, <1>7, TurnCases DEF HasRoute
<1>8. CASE ch \in Letters
  BY <1>8, TurnCases DEF HasRoute, Scan
<1>. QED BY <1>4, <1>5, <1>6, <1>7, <1>8 DEF Characters

LEMMA ScannedRoute ==
  ASSUME NEW word \in Text
  PROVE  Scanned(Begin, word) \in Scan /\ HasRoute(Scanned(Begin, word))
<1> DEFINE S == {x \in Nat \X Scan : HasRoute(x[2])}
<1>1. Begin \in Scan /\ HasRoute(Begin)
  BY ReachedNothing DEF HasRoute, Begin
<1>2. <<0, Begin>> \in S
  BY <1>1
<1>3. \A i \in 1..Len(word) : word[i] \in Characters /\ i \in Nat
  BY LenProperties, ElementOfSeq DEF Text
<1>4. ASSUME NEW i \in 1..Len(word), NEW s \in Scan, <<i - 1, s>> \in S
      PROVE  <<i, Turn(s, word[i])>> \in S
  <2>1. HasRoute(s)
    BY <1>4
  <2>2. Turn(s, word[i]) \in Scan /\ HasRoute(Turn(s, word[i]))
    BY <1>3, <2>1, TurnType, TurnRoute
  <2>. QED BY <1>3, <2>2
<1> HIDE DEF S
<1>5. <<Len(word), Scanned(Begin, word)>> \in S
  BY <1>1, <1>2, <1>4, ScanLoop
<1>. QED BY <1>5 DEF S

LEMMA DecodeIsStored ==
  ASSUME NEW word \in Text
  PROVE  Decode(word) = Stored(Scanned(Begin, word))
<1>1. Scanned(Begin, word) \in Scan
  BY ScannedRoute
<1>. QED BY <1>1, ScanEnds DEF Holds

LEMMA DecodedRoute ==
  ASSUME NEW word \in Text
  PROVE  Decode(word) \in Url /\ Decode(word).gsn # <<>>
BY ScannedRoute, DecodeIsStored, StoredType, StoredRoute

(* The constructor of netspace_url on what to_string of a url with a route *)
(* returned gives that url, and it throws on one only: the url that is a   *)
(* route of one empty element is written as "spring://"                    *)
(* (netspace_url.cpp:20-24, 103-121).                                      *)
THEOREM RoundTrip ==
  ASSUME NEW u \in Url, u.gsn # <<>>
  PROVE  IF Malformed(ToUrl(u)) THEN u = [EmptyUrl EXCEPT !.gsn = << <<>> >>]
                                ELSE Decode(ToUrl(u)) = u
<1>1. Decode(ToUrl(u)) = u
  BY DecodeWritten
<1>2. ASSUME ToUrl(u) = <<>>
      PROVE  u = [EmptyUrl EXCEPT !.gsn = << <<>> >>]
  <2>1. <<>> \in Text
    BY DEF Text
  <2>2. Decode(<<>>) = Stored(Scanned(Begin, <<>>))
    BY <2>1, DecodeIsStored
  <2>3. Scanned(Begin, <<>>) = Begin
    BY ScanNothing, ReachedNothing
  <2>4. Stored(Begin) = [EmptyUrl EXCEPT !.gsn = << <<>> >>]
    BY DEF Stored, Begin, EmptyUrl
  <2>. QED BY <1>1, <1>2, <2>2, <2>3, <2>4
<1>. QED BY <1>1, <1>2 DEF Malformed

--------------------------------------------------------------------------------
(* The url on its way.  What is sent on is what is left of the first url,  *)
(* written, and the next node decodes that.                                *)
Unfolded ==
  /\ url.gsn # <<>>
  /\ url.gsn \o Reverse(passed) = origin.gsn
  /\ <<url.glq, url.res, url.spq>> = <<origin.glq, origin.res, origin.spq>>

OnItsWay == at = "forwarded" \/ (at = "sent" /\ passed # <<>>)

UnfoldInv ==
  /\ at = "handled" \/ OnItsWay => Unfolded
  /\ OnItsWay => passed # <<>> /\ text = ToUrl(url)
  /\ at = "handled" /\ passed = <<>> => url = Decode(text)

LEMMA ReverseAppend ==
  ASSUME NEW seq \in Seq(Part), NEW e \in Part
  PROVE  /\ Reverse(seq) \in Seq(Part)
         /\ Reverse(Append(seq, e)) = <<e>> \o Reverse(seq)
<1>. PICK n : n = Len(seq)
  OBVIOUS
<1>1. n \in Nat /\ \A i \in 1..n : seq[i] \in Part
  BY LenProperties, ElementOfSeq
<1>2. Reverse(seq) = [i \in 1..n |-> seq[n - i + 1]]
  BY DEF Reverse
<1>3. Reverse(seq) \in Seq(Part) /\ Len(Reverse(seq)) = n
  BY <1>1, <1>2
<1>4. /\ Append(seq, e) \in Seq(Part) /\ Len(Append(seq, e)) = n + 1
      /\ \A i \in 1..n : Append(seq, e)[i] = seq[i]
      /\ Append(seq, e)[n + 1] = e
  BY <1>1, AppendProperties
<1>5. Reverse(Append(seq, e)) = [i \in 1..n+1 |-> Append(seq, e)[n + 1 - i + 1]]
  BY <1>4 DEF Reverse
<1>6. \A i \in 1..n+1 : Reverse(Append(seq, e))[i] = IF i = 1 THEN e ELSE seq[n + 1 - i + 1]
  <2>1. \A i \in 2..n+1 : n + 1 - i + 1 \in 1..n
    BY <1>1
  <2>2. n + 1 - 1 + 1 = n + 1
    BY <1>1
  <2>. QED BY <1>1, <1>4, <1>5, <2>1, <2>2
<1>7. /\ <<e>> \o Reverse(seq) \in Seq(Part) /\ Len(<<e>> \o Reverse(seq)) = n + 1
      /\ \A i \in 1..n+1 : (<<e>> \o Reverse(seq))[i] = IF i = 1 THEN e ELSE Reverse(seq)[i - 1]
  <2>1. <<e>> \in Seq(Part) /\ Len(<<e>>) = 1 /\ <<e>>[1] = e
    OBVIOUS
  <2>. QED BY <1>1, <1>3, <2>1, ConcatProperties
<1>8. \A i \in 2..n+1 : Reverse(seq)[i - 1] = seq[n - (i - 1) + 1]
  BY <1>1, <1>2
<1>9. \A i \in 1..n+1 : Reverse(Append(seq, e))[i] = (<<e>> \o Reverse(seq))[i]
  BY <1>1, <1>6, <1>7, <1>8
<1>10. Reverse(Append(seq, e)) \in Seq(Part) /\ Len(Reverse(Append(seq, e))) = n + 1
  BY <1>1, <1>4, <1>5
<1>. QED BY <1>3, <1>7, <1>9, <1>10, SeqEqual

LEMMA PopUnfolds ==
  ASSUME NEW gsn \in Seq(Part), gsn # <<>>, NEW before \in Seq(Part)
  PROVE  Front(gsn) \o Reverse(Append(before, Last(gsn))) = gsn \o Reverse(before)
<1>. PICK f, e : f = Front(gsn) /\ e = Last(gsn)
  OBVIOUS
<1>1. f \in Seq(Part) /\ e \in Part /\ Append(f, e) = gsn
  BY FrontLast
<1>2. Append(f, e) = f \o <<e>> /\ <<e>> \in Seq(Part)
  <2>1. Append(f, e) = f \o <<e>>
    BY <1>1, AppendIsConcat, Zenon
  <2>2. <<e>> \in Seq(Part)
    BY <1>1
  <2>. QED BY <2>1, <2>2
<1>3. Reverse(before) \in Seq(Part) /\ Reverse(Append(before, e)) = <<e>> \o Reverse(before)
  BY <1>1, ReverseAppend
<1>4. (f \o <<e>>) \o Reverse(before) = f \o (<<e>> \o Reverse(before))
  BY <1>1, <1>2, <1>3, ConcatAssociative
<1>. QED BY <1>1, <1>2, <1>3, <1>4

Inv == TypeOK /\ UnfoldInv

LEMMA InitInv == Init => Inv
<1>. SUFFICES ASSUME Init PROVE Inv
  OBVIOUS
<1>1. text \in Seq(Characters)
  <2>1. PICK n \in 0..MaxLength : text \in [1..n -> Characters]
    BY DEF Init
  <2>2. n \in Nat
    BY BoundAssumption
  <2>. QED BY <2>1, <2>2, SeqDef
<1>2. EmptyUrl \in Url /\ <<>> \in Seq(Part)
  BY DEF EmptyUrl, Url, Part
<1>3. TypeOK
  BY <1>1, <1>2 DEF Init, TypeOK
<1>4. UnfoldInv
  BY DEF Init, UnfoldInv, OnItsWay
<1>. QED BY <1>3, <1>4 DEF Inv

LEMMA ReceiveInv == Inv /\ Receive => Inv'
<1>. SUFFICES ASSUME Inv, Receive PROVE Inv'
  OBVIOUS
<1>1. /\ text \in Text /\ url \in Url /\ origin \in Url /\ passed \in Seq(Part)
      /\ text' = text /\ passed' = passed /\ at = "sent"
  BY DEF Inv, TypeOK, Receive, Text
<1>2. CASE at' = "refused" /\ UNCHANGED <<url, origin>>
  BY <1>1, <1>2 DEF Inv, TypeOK, UnfoldInv, OnItsWay, Text
<1>3. CASE /\ url' = Decode(text) /\ at' = "handled"
           /\ origin' = IF passed = <<>> THEN url' ELSE origin
  <2>1. url' \in Url /\ url'.gsn # <<>>
    BY <1>1, <1>3, DecodedRoute
  <2>2. TypeOK'
    BY <1>1, <1>3, <2>1 DEF TypeOK, Text
  <2>3. CASE passed = <<>>
    <3>1. Reverse(<<>>) = <<>> /\ url'.gsn \o <<>> = url'.gsn
      BY <2>1, ConcatEmptySeq DEF Reverse, Url
    <3>2. Unfolded'
      BY <1>1, <1>3, <2>1, <2>3, <3>1 DEF Unfolded
    <3>3. UnfoldInv'
      BY <1>1, <1>3, <2>3, <3>2 DEF UnfoldInv, OnItsWay
    <3>. QED BY <2>2, <3>3 DEF Inv
  <2>4. CASE passed # <<>>
    <3>1. Unfolded /\ text = ToUrl(url)
      BY <1>1, <2>4 DEF Inv, UnfoldInv, OnItsWay
    <3>2. url' = url
      BY <1>1, <1>3, <3>1, DecodeWritten DEF Unfolded
    <3>3. Unfolded'
      BY <1>1, <1>3, <2>4, <3>1, <3>2 DEF Unfolded
    <3>4. UnfoldInv'
      BY <1>1, <1>3, <2>4, <3>3 DEF UnfoldInv, OnItsWay
    <3>. QED BY <2>2, <3>4 DEF Inv
  <2>. QED BY <2>3, <2>4
<1>. QED BY <1>2, <1>3 DEF Receive

LEMMA ResolveInv == Inv /\ Resolve => Inv'
<1>. SUFFICES ASSUME Inv, Resolve PROVE Inv'
  OBVIOUS
<1>1. /\ text \in Text /\ url \in Url /\ origin \in Url /\ passed \in Seq(Part) /\ at = "handled"
      /\ Unfolded /\ origin' = origin /\ url' = [url EXCEPT !.gsn = Front(url.gsn)]
      /\ passed' = Append(passed, Last(url.gsn))
  BY DEF Inv, TypeOK, UnfoldInv, Resolve, Text
<1>2. /\ url.gsn \in Seq(Part) /\ url.gsn # <<>>
      /\ Front(url.gsn) \in Seq(Part) /\ Last(url.gsn) \in Part
  BY <1>1, FrontLast DEF Unfolded, Url
<1>3. url' \in Url /\ passed' \in Seq(Part) /\ passed' # <<>>
  BY ZenonT(40), <1>1, <1>2, AppendProperties DEF Url
<1>4. CASE at' \in {"refused", "answered"} /\ text' = text
  BY <1>1, <1>3, <1>4 DEF Inv, TypeOK, UnfoldInv, OnItsWay, Text
<1>5. CASE Len(Front(url.gsn)) > 1 /\ at' = "forwarded" /\ text' = ToUrl(url')
  <2>1. Front(url.gsn) # <<>>
    BY <1>5
  <2>2. Front(url.gsn) \o Reverse(passed') = url.gsn \o Reverse(passed)
    BY <1>1, <1>2, PopUnfolds
  <2>3. url'.gsn = Front(url.gsn) /\ <<url'.glq, url'.res, url'.spq>> = <<url.glq, url.res, url.spq>>
    BY <1>1 DEF Url
  <2>4. Unfolded'
    BY <1>1, <2>1, <2>2, <2>3 DEF Unfolded
  <2>5. UnfoldInv'
    BY <1>3, <1>5, <2>4 DEF UnfoldInv, OnItsWay
  <2>6. text' \in Text
    BY <1>3, <1>5, ToUrlType
  <2>7. TypeOK'
    BY <1>1, <1>3, <1>5, <2>6 DEF TypeOK, Text
  <2>. QED BY <2>5, <2>7 DEF Inv
<1>. QED BY <1>4, <1>5 DEF Resolve

LEMMA PassInv == Inv /\ Pass => Inv'
BY DEF Inv, TypeOK, UnfoldInv, OnItsWay, Unfolded, Pass

(* At every node the route it has and the elements taken off make the      *)
(* first one's.                                                            *)
THEOREM Invariance == Spec => []Inv
<1>1. Inv /\ [Next]_resolutionVars => Inv'
  <2>. SUFFICES ASSUME Inv, [Next]_resolutionVars PROVE Inv'
    OBVIOUS
  <2>1. CASE UNCHANGED resolutionVars
    BY <2>1 DEF Inv, TypeOK, UnfoldInv, OnItsWay, Unfolded, resolutionVars
  <2>. QED BY <2>1, ReceiveInv, ResolveInv, PassInv DEF Next
<1>. QED BY <1>1, InitInv, PTL DEF Spec

(* No part of a decoded url holds a separator.                             *)
THEOREM Typed == Spec => []TypeOK
<1>1. Inv => TypeOK
  BY DEF Inv
<1>. QED BY <1>1, Invariance, PTL

(* All nodes on the way of a url handle one and the same, whatever text a  *)
(* client sent.                                                            *)
THEOREM Unfolds == Spec => []RouteUnfolds
<1>1. Inv => RouteUnfolds
  BY DEF Inv, UnfoldInv, OnItsWay, Unfolded, RouteUnfolds
<1>. QED BY <1>1, Invariance, PTL

--------------------------------------------------------------------------------
(* Decoding a well-formed text and writing the url gives the text.  In the *)
(* middle of the loop, what the url so far would be written as, the        *)
(* separator that ended it and the part being read are the text so far.    *)
Sep == [glq |-> ":", res |-> "/", spq |-> "?"]
Rank == [gsn |-> 1, glq |-> 2, res |-> 3, spq |-> 4]

Lead(s) == IF s.state = "gsn" THEN Dots(s.url.gsn) ELSE ToUrl(s.url) \o <<Sep[s.state]>>
Written(s) == Lead(s) \o s.t

(* The component the loop is in, and those after it, are empty             *)
Ahead(s) ==
  /\ s.state \in {"gsn", "glq"} => s.url.glq = <<>>
  /\ s.state \in {"gsn", "glq", "res"} => s.url.res = <<>>
  /\ s.url.spq = <<>>

LEMMA LeadType ==
  ASSUME NEW s \in Scan
  PROVE  Lead(s) \in Text /\ Written(s) \in Text
<1>1. /\ s.url \in Url /\ s.t \in Part /\ s.state \in {"gsn", "glq", "res", "spq"}
      /\ s.url.gsn \in Seq(Part)
  BY DEF Scan, Url
<1>2. CASE s.state = "gsn"
  BY <1>1, <1>2, DotsType, DotText DEF Lead, Written
<1>3. CASE s.state # "gsn"
  <2>1. ToUrl(s.url) \in Text
    BY <1>1, ToUrlType
  <2>2. Sep[s.state] \in Characters
    BY <1>1, <1>3, Alphabet DEF Sep
  <2>3. <<Sep[s.state]>> \in Text
    BY <2>2 DEF Text
  <2>4. Lead(s) \in Text
    BY <1>3, <2>1, <2>3, ConcatProperties DEF Lead, Text
  <2>. QED BY <1>1, <2>4, DotText DEF Written
<1>. QED BY <1>2, <1>3

LEMMA WrittenCases ==
  ASSUME NEW s
  PROVE  /\ s.state = "gsn" => Written(s) = Dots(s.url.gsn) \o s.t
         /\ s.state = "glq" => Written(s) = ToUrl(s.url) \o <<":">> \o s.t
         /\ s.state = "res" => Written(s) = ToUrl(s.url) \o <<"/">> \o s.t
         /\ s.state = "spq" => Written(s) = ToUrl(s.url) \o <<"?">> \o s.t
<1>1. Sep["glq"] = ":" /\ Sep["res"] = "/" /\ Sep["spq"] = "?"
  BY DEF Sep
<1>. QED BY <1>1, Zenon DEF Written, Lead

LEMMA StoredCases ==
  ASSUME NEW s
  PROVE  /\ s.state = "gsn" => Stored(s) = [s.url EXCEPT !.gsn = Append(@, s.t)]
         /\ s.state = "glq" => Stored(s) = [s.url EXCEPT !.glq = s.t]
         /\ s.state = "res" => Stored(s) = [s.url EXCEPT !.res = s.t]
         /\ s.state = "spq" => Stored(s) = [s.url EXCEPT !.spq = s.t]
<1>1. s.state = "gsn" => Stored(s) = [s.url EXCEPT !.gsn = Append(@, s.t)]
  BY DEF Stored
<1>2. s.state = "glq" => Stored(s) = [s.url EXCEPT !.glq = s.t]
  BY DEF Stored
<1>3. s.state = "res" => Stored(s) = [s.url EXCEPT !.res = s.t]
  BY DEF Stored
<1>4. s.state = "spq" => Stored(s) = [s.url EXCEPT !.spq = s.t]
  BY DEF Stored
<1>. QED BY <1>1, <1>2, <1>3, <1>4

LEMMA SeparatorAssociative ==
  ASSUME NEW w \in Text, NEW part \in Text
  PROVE  /\ (w \o <<":">>) \o part = w \o (<<":">> \o part)
         /\ (w \o <<"/">>) \o part = w \o (<<"/">> \o part)
         /\ (w \o <<"?">>) \o part = w \o (<<"?">> \o part)
<1>1. \A ch \in Characters : (w \o <<ch>>) \o part = w \o (<<ch>> \o part)
  <2>. SUFFICES ASSUME NEW ch \in Characters PROVE (w \o <<ch>>) \o part = w \o (<<ch>> \o part)
    OBVIOUS
  <2>1. <<ch>> \in Seq(Characters)
    OBVIOUS
  <2>. QED BY <2>1, ConcatAssociative DEF Text
<1>. QED BY <1>1, Alphabet

LEMMA WrittenStored ==
  ASSUME NEW s \in Scan, Ahead(s), s.state # "gsn" => s.t # <<>>
  PROVE  ToUrl(Stored(s)) = Written(s)
<1>. PICK u, part : u = s.url /\ part = s.t
  OBVIOUS
<1>1. /\ u \in Url /\ part \in Part /\ part \in Text /\ s.state \in {"gsn", "glq", "res", "spq"}
      /\ u.gsn \in Seq(Part) /\ u.glq \in Part /\ u.res \in Part /\ u.spq \in Part
      /\ u = [gsn |-> u.gsn, glq |-> u.glq, res |-> u.res, spq |-> u.spq]
      /\ s = [url |-> u, state |-> s.state, t |-> part]
      /\ <<>> \in Text
  BY Alphabet DEF Scan, Url, Text
<1>2. \A gsn \in Seq(Part) : Dotted(gsn) \in Text
  BY DottedType
<1>3. \A w \in Text : w \o <<>> = w
  BY ConcatEmptySeq DEF Text
<1>4. \A x, y, z \in Text : x \o y \in Text /\ (x \o y) \o z = x \o (y \o z)
  BY ConcatProperties, ConcatAssociative DEF Text
<1>5. <<":">> \in Text /\ <<"/">> \in Text /\ <<"?">> \in Text
  BY Alphabet DEF Text
<1>10. \A w \in Text : /\ (w \o <<":">>) \o part = w \o (<<":">> \o part)
                       /\ (w \o <<"/">>) \o part = w \o (<<"/">> \o part)
                       /\ (w \o <<"?">>) \o part = w \o (<<"?">> \o part)
  BY <1>1, SeparatorAssociative
<1>6. CASE s.state = "gsn"
  <2>1. Stored(s) = [gsn |-> Append(u.gsn, part), glq |-> <<>>, res |-> <<>>, spq |-> <<>>]
    BY <1>1, <1>6 DEF Ahead, Stored
  <2>2. ToUrl(Stored(s)) = Dotted(Append(u.gsn, part))
    <3>1. Append(u.gsn, part) \in Seq(Part)
      BY <1>1, AppendProperties
    <3>2. Dotted(Append(u.gsn, part)) \in Text
      BY <1>2, <3>1
    <3>. QED BY <1>3, <2>1, <3>2 DEF ToUrl, Headed
  <2>3. Dotted(Append(u.gsn, part)) = Dots(u.gsn) \o part
    BY <1>1, FrontLastAppend DEF Dotted
  <2>. QED BY <1>6, <2>2, <2>3 DEF Written, Lead
<1>7. CASE s.state = "glq"
  <2>1. part # <<>> /\ u.glq = <<>> /\ u.res = <<>> /\ u.spq = <<>>
    BY <1>7 DEF Ahead
  <2>2. Stored(s) = [u EXCEPT !.glq = part]
    BY <1>1, <1>7, StoredCases
  <2>. PICK d : d = Dotted(u.gsn)
    OBVIOUS
  <2>3. d \in Text
    BY <1>1, <1>2
  <2>4. ToUrl(u) = d
    BY <1>3, <2>1, <2>3 DEF ToUrl, Headed
  <2>5. ToUrl(Stored(s)) = d \o (<<":">> \o part)
    <3>1. d \o (<<":">> \o part) \in Text
      BY <1>1, <1>4, <1>5, <2>3
    <3>2. Dotted(Stored(s).gsn) = d /\ Headed(":", Stored(s).glq) = <<":">> \o part
      BY <1>1, <2>1, <2>2 DEF Headed
    <3>3. Headed("/", Stored(s).res) = <<>> /\ Headed("?", Stored(s).spq) = <<>>
      BY <1>1, <2>1, <2>2 DEF Headed
    <3>. QED BY <1>3, <3>1, <3>2, <3>3 DEF ToUrl
  <2>6. Written(s) = (d \o <<":">>) \o part
    BY <1>7, <2>4, WrittenCases
  <2>7. (d \o <<":">>) \o part = d \o (<<":">> \o part)
    BY <1>10, <2>3
  <2>. QED BY <2>5, <2>6, <2>7
<1>8. CASE s.state = "res"
  <2>1. part # <<>> /\ u.res = <<>> /\ u.spq = <<>>
    BY <1>8 DEF Ahead
  <2>2. Stored(s) = [u EXCEPT !.res = part]
    BY <1>1, <1>8, StoredCases
  <2>. PICK d : d = Dotted(u.gsn) \o Headed(":", u.glq)
    OBVIOUS
  <2>3. d \in Text
    BY <1>1, <1>2, <1>4, HeadedType
  <2>4. ToUrl(u) = d
    BY <1>3, <2>1, <2>3 DEF ToUrl, Headed
  <2>5. ToUrl(Stored(s)) = d \o (<<"/">> \o part)
    <3>1. d \o (<<"/">> \o part) \in Text
      BY <1>1, <1>4, <1>5, <2>3
    <3>2. Stored(s).gsn = u.gsn /\ Stored(s).glq = u.glq /\ Headed("/", Stored(s).res) = <<"/">> \o part
      BY <1>1, <2>1, <2>2 DEF Headed
    <3>3. Headed("?", Stored(s).spq) = <<>>
      BY <1>1, <2>1, <2>2 DEF Headed
    <3>. QED BY <1>3, <3>1, <3>2, <3>3 DEF ToUrl
  <2>6. Written(s) = (d \o <<"/">>) \o part
    BY <1>8, <2>4, WrittenCases
  <2>7. (d \o <<"/">>) \o part = d \o (<<"/">> \o part)
    BY <1>10, <2>3
  <2>. QED BY <2>5, <2>6, <2>7
<1>9. CASE s.state = "spq"
  <2>1. part # <<>> /\ u.spq = <<>>
    BY <1>9 DEF Ahead
  <2>2. Stored(s) = [u EXCEPT !.spq = part]
    BY <1>1, <1>9, StoredCases
  <2>. PICK d : d = Dotted(u.gsn) \o Headed(":", u.glq) \o Headed("/", u.res)
    OBVIOUS
  <2>3. d \in Text
    <3>1. Headed(":", u.glq) \in Text /\ Headed("/", u.res) \in Text
      BY <1>1, HeadedType
    <3>. QED BY <1>1, <1>2, <1>4, <3>1
  <2>4. ToUrl(u) = d
    BY <1>3, <2>1, <2>3 DEF ToUrl, Headed
  <2>5. ToUrl(Stored(s)) = d \o (<<"?">> \o part)
    <3>1. Stored(s).gsn = u.gsn /\ Stored(s).glq = u.glq /\ Stored(s).res = u.res
      BY <1>1, <2>2
    <3>2. Headed("?", Stored(s).spq) = <<"?">> \o part
      BY <1>1, <2>1, <2>2 DEF Headed
    <3>. QED BY <3>1, <3>2 DEF ToUrl
  <2>6. Written(s) = (d \o <<"?">>) \o part
    BY <1>9, <2>4, WrittenCases
  <2>7. (d \o <<"?">>) \o part = d \o (<<"?">> \o part)
    BY <1>10, <2>3
  <2>. QED BY <2>5, <2>6, <2>7
<1>. QED BY <1>1, <1>6, <1>7, <1>8, <1>9

LEMMA WrittenAhead ==
  ASSUME NEW s \in Scan, Ahead(s), s.state # "gsn" => s.t # <<>>, NEW state \in {"glq", "res", "spq"},
         Rank[s.state] < Rank[state]
  PROVE  LET next == [url |-> Stored(s), state |-> state, t |-> <<>>]
         IN  Ahead(next) /\ Written(next) = Append(Written(s), Sep[state])
<1>. PICK next : next = [url |-> Stored(s), state |-> state, t |-> <<>>]
  OBVIOUS
<1>1. /\ s.url \in Url /\ s.t \in Part /\ s.state \in {"gsn", "glq", "res", "spq"}
      /\ next.url = Stored(s) /\ next.state = state /\ next.t = <<>>
  BY DEF Scan
<1>2. Ahead(next)
  <2>1. /\ s.state \in {"gsn", "glq", "res"}
        /\ state = "glq" => s.state = "gsn"
        /\ state = "res" => s.state \in {"gsn", "glq"}
    BY <1>1 DEF Rank
  <2>2. /\ s.state # "glq" => Stored(s).glq = s.url.glq
        /\ s.state # "res" => Stored(s).res = s.url.res
        /\ s.state # "spq" => Stored(s).spq = s.url.spq
    BY <1>1, StoredCases DEF Url
  <2>. QED BY <1>1, <2>1, <2>2 DEF Ahead
<1>3. Sep[state] \in Characters
  BY Alphabet DEF Sep
<1>4. Written(s) \in Text /\ <<Sep[state]>> \in Text
  BY <1>3, LeadType DEF Text
<1>5. Written(next) = (Written(s) \o <<Sep[state]>>) \o <<>>
  BY <1>1, WrittenStored DEF Written, Lead
<1>6. Written(s) \o <<Sep[state]>> \in Text
  BY <1>4, ConcatProperties DEF Text
<1>7. Written(next) = Written(s) \o <<Sep[state]>>
  BY <1>5, <1>6, ConcatEmptySeq DEF Text
<1>8. Append(Written(s), Sep[state]) = Written(s) \o <<Sep[state]>>
  BY <1>3, <1>4, AppendIsConcat DEF Text
<1>. QED BY <1>2, <1>7, <1>8

(* A turn on a letter, and on a dot in the route                           *)
LEMMA WrittenLetter ==
  ASSUME NEW s \in Scan, Ahead(s), NEW ch \in Letters
  PROVE  Ahead(Turn(s, ch)) /\ Written(Turn(s, ch)) = Append(Written(s), ch)
<1>. PICK next : next = Turn(s, ch)
  OBVIOUS
<1>1. next = [s EXCEPT !.t = Append(@, ch)]
  BY TurnCases
<1>2. next.url = s.url /\ next.state = s.state /\ next.t = Append(s.t, ch)
  BY <1>1 DEF Scan
<1>3. Ahead(next)
  BY <1>2 DEF Ahead
<1>4. Written(next) = Lead(s) \o Append(s.t, ch)
  BY <1>2 DEF Written, Lead
<1>5. Lead(s) \in Text /\ s.t \in Text /\ ch \in Characters
  BY LeadType, Alphabet DEF Scan
<1>6. Lead(s) \o Append(s.t, ch) = Append(Lead(s) \o s.t, ch)
  BY <1>5, ConcatAppend DEF Text
<1>. QED BY <1>3, <1>4, <1>6 DEF Written

LEMMA WrittenDot ==
  ASSUME NEW s \in Scan, Ahead(s), s.state = "gsn"
  PROVE  Ahead(Turn(s, ".")) /\ Written(Turn(s, ".")) = Append(Written(s), ".")
<1>. PICK next : next = Turn(s, ".")
  OBVIOUS
<1>1. next = [url |-> [s.url EXCEPT !.gsn = Append(@, s.t)], state |-> s.state, t |-> <<>>]
  BY TurnCases
<1>2. s.url \in Url /\ s.t \in Part /\ s.url.gsn \in Seq(Part)
  BY DEF Scan, Url
<1>3. /\ next.state = "gsn" /\ next.t = <<>> /\ next.url.gsn = Append(s.url.gsn, s.t)
      /\ next.url.glq = s.url.glq /\ next.url.res = s.url.res /\ next.url.spq = s.url.spq
  BY <1>1, <1>2 DEF Url
<1>4. Ahead(next)
  BY <1>3 DEF Ahead
<1>5. Dots(next.url.gsn) = Written(s) \o <<".">>
  BY <1>2, <1>3, DotsAppend, WrittenCases DEF WithDot
<1>6. Written(s) \in Text /\ "." \in Characters
  BY LeadType, Alphabet
<1>7. Append(Written(s), ".") = Written(s) \o <<".">> /\ Append(Written(s), ".") \in Text
  BY <1>6, AppendIsConcat, AppendProperties DEF Text
<1>8. Written(next) = Append(Written(s), ".") \o <<>>
  BY <1>3, <1>5, <1>7, WrittenCases
<1>9. Written(next) = Append(Written(s), ".")
  BY <1>7, <1>8, ConcatEmptySeq DEF Text
<1>. QED BY <1>4, <1>9

(* Where the loop is in a text of the documented form                      *)
Copied(word, i, s) ==
  /\ Ahead(s)
  /\ Written(s) = SubSeq(word, 1, i)
  /\ s.state # "gsn" => \E j \in 1..i : Order(word[j]) = Rank[s.state]
  /\ s.state # "gsn" /\ s.t = <<>> => Order(word[i]) > 1

LEMMA Orders ==
  /\ Order(".") = 1 /\ Order(":") = 2 /\ Order("/") = 3 /\ Order("?") = 4
  /\ \A ch \in Letters : Order(ch) = 0
  /\ \A ch : Order(ch) \in 0..4
<1>1. \A ch : Order(ch) \in 0..4
  BY DEF Order
<1>. QED BY <1>1, LettersAssumption DEF Order

LEMMA CopiedTurn ==
  ASSUME NEW word \in Text, WellFormed(word), NEW i \in 1..Len(word), NEW s \in Scan,
         Copied(word, i - 1, s)
  PROVE  Copied(word, i, Turn(s, word[i]))
<1>. PICK ch, next : ch = word[i] /\ next = Turn(s, word[i])
  OBVIOUS
<1>1. /\ Len(word) \in Nat /\ i \in Nat /\ i - 1 \in 0..Len(word)
      /\ DOMAIN word = 1..Len(word) /\ \A j \in 1..Len(word) : word[j] \in Characters
  BY LenProperties, ElementOfSeq DEF Text
<1>2. ch \in Characters /\ ch # Nul
  BY <1>1 DEF WellFormed
<1>3. SubSeq(word, 1, i) = Append(SubSeq(word, 1, i - 1), ch)
  BY <1>1 DEF Text
<1>4. s.state \in {"gsn", "glq", "res", "spq"} /\ s.url \in Url /\ s.t \in Part
  BY DEF Scan
<1>5. /\ Ahead(s) /\ Written(s) = SubSeq(word, 1, i - 1)
      /\ s.state # "gsn" => \E j \in 1..i-1 : Order(word[j]) = Rank[s.state]
      /\ s.state # "gsn" /\ s.t = <<>> => Order(word[i - 1]) > 1
  BY DEF Copied
\* a component is not left before it has a letter
<1>6. s.state # "gsn" /\ s.t = <<>> => ch \in Letters
  <2>. SUFFICES ASSUME s.state # "gsn", s.t = <<>> PROVE ch \in Letters
    OBVIOUS
  <2>1. i - 1 \in DOMAIN word /\ Order(word[i - 1]) > 1
    BY <1>1, <1>5
  <2>2. word[i - 1 + 1] \in Letters
    BY <2>1 DEF WellFormed
  <2>. QED BY <1>1, <2>2
\* nor for one that lies before it
<1>7. s.state # "gsn" /\ Order(ch) > 0 => Rank[s.state] < Order(ch)
  <2>. SUFFICES ASSUME s.state # "gsn", Order(ch) > 0 PROVE Rank[s.state] < Order(ch)
    OBVIOUS
  <2>1. PICK j \in 1..i-1 : Order(word[j]) = Rank[s.state]
    BY <1>5
  <2>2. Rank[s.state] \in Nat /\ Rank[s.state] > 1
    BY <1>4 DEF Rank
  <2>3. j \in DOMAIN word /\ i \in DOMAIN word /\ j < i
    BY <1>1
  <2>4. Order(word[j]) < Order(word[i]) \/ (word[i] = "." /\ word[j] = ".")
    <3>1. Order(word[j]) > 0 /\ Order(word[i]) > 0
      BY <2>1, <2>2, Orders
    <3>. QED BY <2>3, <3>1 DEF WellFormed
  <2>5. word[j] # "."
    BY <2>1, <2>2, Orders
  <2>. QED BY <2>1, <2>4, <2>5
<1>8. CASE ch \in Letters
  <2>1. Ahead(next) /\ Written(next) = Append(Written(s), ch)
    BY <1>5, <1>8, WrittenLetter
  <2>2. next.state = s.state /\ next.t = Append(s.t, ch)
    BY <1>8, TurnCases DEF Scan
  <2>3. next.t # <<>>
    BY <1>4, <1>8, <2>2, AppendProperties DEF Part
  <2>4. next.state # "gsn" => \E j \in 1..i : Order(word[j]) = Rank[next.state]
    BY <1>1, <1>5, <2>2
  <2>. QED BY <1>3, <1>5, <2>1, <2>3, <2>4 DEF Copied
<1>9. CASE ch = "."
  <2>1. s.state = "gsn"
    BY <1>4, <1>7, <1>9, Orders DEF Rank
  <2>2. Ahead(next) /\ Written(next) = Append(Written(s), ch)
    BY <1>5, <1>9, <2>1, WrittenDot
  <2>3. next.state = "gsn"
    BY <1>9, <2>1, TurnCases
  <2>. QED BY <1>3, <1>5, <2>2, <2>3 DEF Copied
<1>10. CASE ch \in {":", "/", "?"}
  <2>1. PICK state \in {"glq", "res", "spq"} : Sep[state] = ch /\ Rank[state] = Order(ch)
    BY <1>10, Orders DEF Sep, Rank
  <2>2. Rank[s.state] < Rank[state] /\ Order(ch) > 1
    <3>1. Order(ch) > 1
      BY <1>10, Orders
    <3>2. CASE s.state = "gsn"
      BY <2>1, <3>1, <3>2 DEF Rank
    <3>3. CASE s.state # "gsn"
      <4>1. Order(ch) > 0
        BY <3>1, Orders
      <4>2. Rank[s.state] < Order(ch)
        BY <1>7, <3>3, <4>1
      <4>. QED BY <2>1, <3>1, <4>2
    <3>. QED BY <3>1, <3>2, <3>3
  <2>3. s.state # "gsn" => s.t # <<>>
    BY <1>6, <1>10, Alphabet
  <2>4. next = [url |-> Stored(s), state |-> state, t |-> <<>>]
    <3>1. CASE ch = ":"
      <4>1. state = "glq" /\ s.state = "gsn"
        BY <1>4, <2>1, <2>2, <3>1 DEF Sep, Rank
      <4>2. next = [url |-> [s.url EXCEPT !.gsn = Append(@, s.t)], state |-> "glq", t |-> <<>>]
        BY <3>1, TurnCases
      <4>. QED BY <4>1, <4>2, StoredCases
    <3>2. CASE ch = "/"
      <4>1. state = "res" /\ s.state \in {"gsn", "glq"}
        BY <1>4, <2>1, <2>2, <3>2 DEF Sep, Rank
      <4>. QED BY <3>2, <4>1, TurnCases
    <3>3. CASE ch = "?"
      <4>1. state = "spq" /\ s.state # "spq"
        BY <1>4, <2>1, <2>2, <3>3 DEF Sep, Rank
      <4>. QED BY <3>3, <4>1, TurnCases
    <3>. QED BY <1>10, <3>1, <3>2, <3>3
  <2>5. Ahead(next) /\ Written(next) = Append(Written(s), ch)
    BY <1>5, <2>1, <2>2, <2>3, <2>4, WrittenAhead
  <2>6. \E j \in 1..i : Order(word[j]) = Rank[next.state]
    BY <1>1, <2>1, <2>4
  <2>. QED BY <1>3, <1>5, <2>2, <2>5, <2>6 DEF Copied
<1>. QED BY <1>2, <1>8, <1>9, <1>10 DEF Characters

(* Decoding a text of the documented form and writing the url gives it.    *)
THEOREM WellFormedCopy ==
  ASSUME NEW word \in Text, WellFormed(word)
  PROVE  ToUrl(Decode(word)) = word
<1>. PICK n, last : n = Len(word) /\ last = Scanned(Begin, word)
  OBVIOUS
<1> DEFINE S == {x \in Nat \X Scan : Copied(word, x[1], x[2])}
<1>1. Begin \in Scan /\ n \in Nat /\ SubSeq(word, 1, 0) = <<>> /\ SubSeq(word, 1, n) = word
  BY ReachedNothing, LenProperties DEF Text
<1>2. Copied(word, 0, Begin)
  <2>1. Ahead(Begin)
    BY DEF Ahead, Begin, EmptyUrl
  <2>2. Written(Begin) = <<>>
    <3>1. Written(Begin) = Dots(<<>>) \o <<>>
      <4>1. Begin.state = "gsn" /\ Begin.url.gsn = <<>> /\ Begin.t = <<>>
        BY DEF Begin, EmptyUrl
      <4>. QED BY <4>1, WrittenCases
    <3>. QED BY <3>1, DotsNothing
  <2>. QED BY <1>1, <2>1, <2>2 DEF Copied, Begin
<1>3. <<0, Begin>> \in S
  BY <1>1, <1>2
<1>4. ASSUME NEW i \in 1..n, NEW s \in Scan, <<i - 1, s>> \in S
      PROVE  <<i, Turn(s, word[i])>> \in S
  <2>1. Copied(word, i - 1, s)
    BY <1>4
  <2>2. Copied(word, i, Turn(s, word[i]))
    BY <2>1, CopiedTurn
  <2>3. word[i] \in Characters
    BY ElementOfSeq DEF Text
  <2>4. Turn(s, word[i]) \in Scan /\ i \in Nat
    BY <1>1, <2>3, TurnType
  <2>. QED BY <2>2, <2>4
<1> HIDE DEF S
<1>5. <<n, last>> \in S
  BY <1>1, <1>3, <1>4, ScanLoop
<1>6. last \in Scan /\ Copied(word, n, last)
  BY <1>5 DEF S
<1>7. last.state # "gsn" => last.t # <<>>
  <2>. SUFFICES ASSUME last.state # "gsn", last.t = <<>> PROVE FALSE
    OBVIOUS
  <2>1. Order(word[n]) > 1 /\ n \in 1..n
    BY <1>1, <1>6 DEF Copied
  <2>2. DOMAIN word = 1..n
    BY LenProperties DEF Text
  <2>. QED BY <2>1, <2>2 DEF WellFormed
<1>8. ToUrl(Stored(last)) = Written(last)
  BY <1>6, <1>7, WrittenStored DEF Copied
<1>. QED BY <1>1, <1>6, <1>8, DecodeIsStored DEF Copied

(* "Carbon-copy reconstruction" of a url a client wrote as documented.     *)
THEOREM Copies == Spec => []CarbonCopy
<1>1. Inv => CarbonCopy
  BY WellFormedCopy DEF Inv, TypeOK, UnfoldInv, CarbonCopy, Text
<1>. QED BY <1>1, Invariance, PTL

================================================================================
