---------------------------- MODULE SpoolProofs ----------------------------
(***************************************************************************)
(* The spool keeps what it acknowledged, hands it on in order and again    *)
(* only after a failure, for any number of records and faults, any size    *)
(* bound and any batch size.                                               *)
(*                                                                         *)
(* The first part says what the scan of a file returns, by induction over  *)
(* its lines; the second follows the file, the records the scan finds in   *)
(* it and the drain's place among them.                                    *)
(***************************************************************************)
EXTENDS Spool, TLAPS, SequenceTheorems, WellFoundedInduction

----------------------------------------------------------------------------
(***************************************************************************)
(* Induction.                                                              *)
(***************************************************************************)
\* A set of numbers with 0 and with the successor of each of its members.
LEMMA OverNumbers ==
  ASSUME NEW T \in SUBSET Nat, 0 \in T, \A n \in T : n + 1 \in T
  PROVE  T = Nat
<1>1. SUFFICES ASSUME Nat \ T # {} PROVE FALSE
  OBVIOUS
<1>2. PICK n \in Nat \ T : \A m \in Nat \ T : ~(<<m, n>> \in OpToRel(<, Nat))
  BY <1>1, NatLessThanWellFounded, WFMin
<1>3. n \in Nat /\ n # 0
  BY <1>2
<1>4. n - 1 \in Nat /\ n = (n - 1) + 1
  BY <1>3
<1>5. n - 1 \notin T
  BY <1>4
<1>6. <<n - 1, n>> \in OpToRel(<, Nat)
  BY <1>3, <1>4 DEF OpToRel
<1> QED BY <1>2, <1>4, <1>5, <1>6

\* A set of sequences with the empty one and with each of its members prolonged.
LEMMA OverSequences ==
  ASSUME NEW S, NEW T \in SUBSET Seq(S), <<>> \in T,
         \A s \in T : \A e \in S : Append(s, e) \in T
  PROVE  T = Seq(S)
<1> DEFINE Covered == {n \in Nat : \A s \in Seq(S) : Len(s) = n => s \in T}
<1>1. 0 \in Covered
  BY EmptySeq
<1>2. ASSUME NEW n \in Covered PROVE n + 1 \in Covered
  <2> SUFFICES ASSUME NEW s \in Seq(S), Len(s) = n + 1 PROVE s \in T
    OBVIOUS
  <2>1. s # <<>>
    OBVIOUS
  <2>2. PICK t \in Seq(S), e \in S : s = Append(t, e)
    BY <2>1, SequenceEmptyOrAppend
  <2>3. Len(t) = n
    BY <2>2
  <2> QED BY <2>2, <2>3
<1>3. Covered \in SUBSET Nat
  OBVIOUS
<1>4. Covered = Nat
  <2> HIDE DEF Covered
  <2> QED BY <1>1, <1>2, <1>3, OverNumbers
<1>5. ASSUME NEW s \in Seq(S) PROVE s \in T
  <2>1. Len(s) \in Covered
    BY <1>4
  <2> QED BY <2>1
<1> QED BY <1>5

----------------------------------------------------------------------------
(***************************************************************************)
(* The scan.                                                               *)
(***************************************************************************)
Pieces == [record : Records, whole : BOOLEAN]
\* What stands between two newlines: something.
TheLines == Seq(Pieces) \ {<<>>}

\* f is what the scan has after each line.
Scan(lines, f) ==
  f = [n \in 0..Len(lines) |->
         IF n = 0 THEN <<>>
         ELSE IF Readable(lines[n]) THEN Append(f[n - 1], lines[n][1].record)
         ELSE f[n - 1]]

LEMMA ParsedIsScan == 
  ASSUME NEW lines, NEW f, Scan(lines, f)
  PROVE  \E g : Scan(lines, g) /\ Parsed(lines) = g[Len(lines)]
BY DEF Parsed, Scan

LEMMA ScanStep ==
  ASSUME NEW lines, NEW f, Scan(lines, f), NEW n \in 1..Len(lines), Len(lines) \in Nat
  PROVE  f[n] = IF Readable(lines[n]) THEN Append(f[n - 1], lines[n][1].record)
                ELSE f[n - 1]
<1>1. n \in 0..Len(lines) /\ n # 0
  OBVIOUS
<1> QED BY <1>1 DEF Scan

\* A scan of a file starts with one of its first lines.
LEMMA ScanOfPrefix ==
  ASSUME NEW S, NEW s \in Seq(S), NEW e \in S,
         NEW f, Scan(s, f), NEW g, Scan(Append(s, e), g)
  PROVE  \A n \in 0..Len(s) : f[n] = g[n]
<1> DEFINE Same == {n \in Nat : n <= Len(s) => f[n] = g[n]}
<1>1. 0 \in Same
  BY DEF Scan
<1>2. ASSUME NEW n \in Same PROVE n + 1 \in Same
  <2> SUFFICES ASSUME n + 1 <= Len(s) PROVE f[n + 1] = g[n + 1]
    OBVIOUS
  <2>1. n \in Nat /\ n + 1 \in 0..Len(s) /\ n + 1 \in 0..Len(Append(s, e)) /\ n + 1 # 0
    OBVIOUS
  <2>2. Append(s, e)[n + 1] = s[n + 1] /\ (n + 1) - 1 = n
    OBVIOUS
  <2>3. f[n] = g[n]
    BY <2>1
  <2>4. n + 1 \in 1..Len(s) /\ n + 1 \in 1..Len(Append(s, e))
        /\ Len(s) \in Nat /\ Len(Append(s, e)) \in Nat
    BY <2>1
  <2>5. f[n + 1] = IF Readable(s[n + 1]) THEN Append(f[n], s[n + 1][1].record) ELSE f[n]
    BY <2>2, <2>4, ScanStep
  <2>6. g[n + 1] = IF Readable(s[n + 1]) THEN Append(g[n], s[n + 1][1].record) ELSE g[n]
    <3> DEFINE longer == Append(s, e)
    <3>1. Scan(longer, g) /\ n + 1 \in 1..Len(longer) /\ Len(longer) \in Nat
      BY <2>4
    <3>2. longer[n + 1] = s[n + 1]
      BY <2>2
    <3> HIDE DEF longer
    <3>3. g[n + 1] = IF Readable(longer[n + 1]) THEN Append(g[(n + 1) - 1], longer[n + 1][1].record)
                     ELSE g[(n + 1) - 1]
      BY <3>1, ScanStep
    <3> QED BY <2>2, <3>2, <3>3
  <2> QED BY <2>3, <2>5, <2>6
<1>3. Same = Nat
  <2>1. Same \in SUBSET Nat
    OBVIOUS
  <2> HIDE DEF Same
  <2> QED BY <1>1, <1>2, <2>1, OverNumbers
<1> QED BY <1>3

\* One more line prolongs the scan.
LEMMA ScanExtends ==
  ASSUME NEW S, NEW s \in Seq(S), NEW e \in S, NEW f, Scan(s, f)
  PROVE  \E g : Scan(Append(s, e), g)
<1> DEFINE more == IF Readable(e) THEN Append(f[Len(s)], e[1].record) ELSE f[Len(s)]
           g == [n \in 0..(Len(s) + 1) |-> IF n = Len(s) + 1 THEN more ELSE f[n]]
<1>1. Len(Append(s, e)) = Len(s) + 1 /\ Append(s, e)[Len(s) + 1] = e /\ Len(s) \in Nat
  OBVIOUS
<1>2. ASSUME NEW n \in 0..(Len(s) + 1)
      PROVE  g[n] = IF n = 0 THEN <<>>
                    ELSE IF Readable(Append(s, e)[n])
                    THEN Append(g[n - 1], Append(s, e)[n][1].record)
                    ELSE g[n - 1]
  <2>1. CASE n = Len(s) + 1
    <3>1. g[n - 1] = f[Len(s)] /\ n # 0 /\ g[n] = more
      BY <1>1, <2>1
    <3> QED BY <1>1, <2>1, <3>1
  <2>2. CASE n = 0
    BY <1>1, <2>2 DEF Scan
  <2>3. CASE n # 0 /\ n # Len(s) + 1
    <3>1. n \in 0..Len(s) /\ n - 1 \in 0..Len(s) /\ n - 1 # Len(s) + 1
      BY <1>1, <2>3
    <3>2. Append(s, e)[n] = s[n] /\ g[n] = f[n] /\ g[n - 1] = f[n - 1]
      BY <1>1, <2>3, <3>1
    <3>3. f[n] = IF Readable(s[n]) THEN Append(f[n - 1], s[n][1].record) ELSE f[n - 1]
      BY <2>3, <3>1 DEF Scan
    <3> HIDE DEF g
    <3> QED BY <2>3, <3>2, <3>3
  <2> QED BY <2>1, <2>2, <2>3
<1>3. Scan(Append(s, e), g)
  <2>1. DOMAIN g = 0..(Len(s) + 1) /\ g = [n \in 0..(Len(s) + 1) |-> g[n]]
    OBVIOUS
  <2> HIDE DEF g
  <2> QED BY <1>1, <1>2, <2>1 DEF Scan
<1> QED BY <1>3

LEMMA ScanExists ==
  ASSUME NEW S, NEW s \in Seq(S)
  PROVE  \E f : Scan(s, f)
<1> DEFINE Scanned == {t \in Seq(S) : \E f : Scan(t, f)}
<1>1. <<>> \in Scanned
  <2> DEFINE f == [n \in 0..0 |-> <<>>]
  <2>1. Scan(<<>>, f)
    BY DEF Scan
  <2> QED BY <2>1, EmptySeq
<1>2. ASSUME NEW t \in Scanned, NEW e \in S PROVE Append(t, e) \in Scanned
  <2>1. PICK f : Scan(t, f)
    OBVIOUS
  <2>2. t \in Seq(S) /\ Append(t, e) \in Seq(S)
    OBVIOUS
  <2> QED BY <2>1, <2>2, ScanExtends
<1>3. Scanned = Seq(S)
  <2>1. Scanned \in SUBSET Seq(S)
    OBVIOUS
  <2> HIDE DEF Scanned
  <2> QED BY <1>1, <1>2, <2>1, OverSequences
<1> QED BY <1>3

LEMMA ParsedOfNothing == Parsed(<<>>) = <<>>
<1>1. <<>> \in Seq({}) /\ Len(<<>>) = 0
  BY EmptySeq
<1>2. PICK f : Scan(<<>>, f) /\ Parsed(<<>>) = f[Len(<<>>)]
  BY <1>1, ScanExists, ParsedIsScan
<1> QED BY <1>1, <1>2 DEF Scan

LEMMA ParsedOfMore ==
  ASSUME NEW S, NEW s \in Seq(S), NEW e \in S
  PROVE  Parsed(Append(s, e)) = IF Readable(e) THEN Append(Parsed(s), e[1].record) ELSE Parsed(s)
<1>1. PICK f : Scan(s, f) /\ Parsed(s) = f[Len(s)]
  BY ScanExists, ParsedIsScan
<1>2. Append(s, e) \in Seq(S) /\ Len(Append(s, e)) = Len(s) + 1 /\ Append(s, e)[Len(s) + 1] = e
      /\ Len(s) \in Nat
  OBVIOUS
<1>3. PICK g : Scan(Append(s, e), g) /\ Parsed(Append(s, e)) = g[Len(Append(s, e))]
  BY <1>2, ScanExists, ParsedIsScan
<1>4. f[Len(s)] = g[Len(s)]
  BY <1>1, <1>2, <1>3, ScanOfPrefix
<1>5. Len(s) + 1 \in 0..(Len(s) + 1) /\ Len(s) + 1 # 0 /\ (Len(s) + 1) - 1 = Len(s)
  BY <1>2
<1>6. g[Len(s) + 1] = IF Readable(e) THEN Append(g[Len(s)], e[1].record) ELSE g[Len(s)]
  BY <1>2, <1>3, <1>5 DEF Scan
<1> QED BY <1>1, <1>2, <1>3, <1>4, <1>6

----------------------------------------------------------------------------
(***************************************************************************)
(* The size, by the same steps.                                            *)
(***************************************************************************)
Count(lines, f) ==
  f = [n \in 0..Len(lines) |-> IF n = 0 THEN 0 ELSE f[n - 1] + Len(lines[n]) + 1]

LEMMA UnitsIsCount ==
  ASSUME NEW lines, NEW f, Count(lines, f)
  PROVE  \E g : Count(lines, g) /\ Units(lines) = g[Len(lines)]
BY DEF Units, Count

LEMMA CountStep ==
  ASSUME NEW lines, NEW f, Count(lines, f), NEW n \in 1..Len(lines), Len(lines) \in Nat
  PROVE  f[n] = f[n - 1] + Len(lines[n]) + 1
<1>1. n \in 0..Len(lines) /\ n # 0
  OBVIOUS
<1> QED BY <1>1 DEF Count

LEMMA CountOfPrefix ==
  ASSUME NEW S, NEW s \in Seq(S), NEW e \in S,
         NEW f, Count(s, f), NEW g, Count(Append(s, e), g)
  PROVE  \A n \in 0..Len(s) : f[n] = g[n]
<1> DEFINE Same == {n \in Nat : n <= Len(s) => f[n] = g[n]}
<1>1. 0 \in Same
  BY DEF Count
<1>2. ASSUME NEW n \in Same PROVE n + 1 \in Same
  <2> SUFFICES ASSUME n + 1 <= Len(s) PROVE f[n + 1] = g[n + 1]
    OBVIOUS
  <2>1. n \in Nat /\ n + 1 \in 1..Len(s) /\ n + 1 \in 1..Len(Append(s, e)) /\ (n + 1) - 1 = n
        /\ Len(s) \in Nat /\ Len(Append(s, e)) \in Nat
    OBVIOUS
  <2>2. f[n] = g[n]
    BY <2>1
  <2>3. f[n + 1] = f[n] + Len(s[n + 1]) + 1
    BY <2>1, CountStep
  <2>4. g[n + 1] = g[n] + Len(s[n + 1]) + 1
    <3> DEFINE longer == Append(s, e)
    <3>1. Count(longer, g) /\ n + 1 \in 1..Len(longer) /\ Len(longer) \in Nat
      BY <2>1
    <3>2. longer[n + 1] = s[n + 1]
      BY <2>1
    <3> HIDE DEF longer
    <3>3. g[n + 1] = g[(n + 1) - 1] + Len(longer[n + 1]) + 1
      BY <3>1, CountStep
    <3> QED BY <2>1, <3>2, <3>3
  <2> QED BY <2>2, <2>3, <2>4
<1>3. Same = Nat
  <2>1. Same \in SUBSET Nat
    OBVIOUS
  <2> HIDE DEF Same
  <2> QED BY <1>1, <1>2, <2>1, OverNumbers
<1> QED BY <1>3

LEMMA CountExtends ==
  ASSUME NEW S, NEW s \in Seq(S), NEW e \in S, NEW f, Count(s, f)
  PROVE  \E g : Count(Append(s, e), g)
<1> DEFINE more == f[Len(s)] + Len(e) + 1
           g == [n \in 0..(Len(s) + 1) |-> IF n = Len(s) + 1 THEN more ELSE f[n]]
<1>1. Len(Append(s, e)) = Len(s) + 1 /\ Append(s, e)[Len(s) + 1] = e /\ Len(s) \in Nat
  OBVIOUS
<1>2. ASSUME NEW n \in 0..(Len(s) + 1)
      PROVE  g[n] = IF n = 0 THEN 0 ELSE g[n - 1] + Len(Append(s, e)[n]) + 1
  <2>1. CASE n = Len(s) + 1
    <3>1. g[n - 1] = f[Len(s)] /\ n # 0 /\ g[n] = more
      BY <1>1, <2>1
    <3> QED BY <1>1, <2>1, <3>1
  <2>2. CASE n = 0
    BY <1>1, <2>2 DEF Count
  <2>3. CASE n # 0 /\ n # Len(s) + 1
    <3>1. n \in 0..Len(s) /\ n - 1 \in 0..Len(s) /\ n - 1 # Len(s) + 1
      BY <1>1, <2>3
    <3>2. Append(s, e)[n] = s[n] /\ g[n] = f[n] /\ g[n - 1] = f[n - 1]
      BY <1>1, <2>3, <3>1
    <3>3. f[n] = f[n - 1] + Len(s[n]) + 1
      BY <2>3, <3>1 DEF Count
    <3> HIDE DEF g
    <3> QED BY <2>3, <3>2, <3>3
  <2> QED BY <2>1, <2>2, <2>3
<1>3. Count(Append(s, e), g)
  <2>1. DOMAIN g = 0..(Len(s) + 1) /\ g = [n \in 0..(Len(s) + 1) |-> g[n]]
    OBVIOUS
  <2> HIDE DEF g
  <2> QED BY <1>1, <1>2, <2>1 DEF Count
<1> QED BY <1>3

LEMMA CountExists ==
  ASSUME NEW S, NEW s \in Seq(S)
  PROVE  \E f : Count(s, f)
<1> DEFINE Counted == {t \in Seq(S) : \E f : Count(t, f)}
<1>1. <<>> \in Counted
  <2> DEFINE f == [n \in 0..0 |-> 0]
  <2>1. Count(<<>>, f)
    BY DEF Count
  <2> QED BY <2>1, EmptySeq
<1>2. ASSUME NEW t \in Counted, NEW e \in S PROVE Append(t, e) \in Counted
  <2>1. PICK f : Count(t, f)
    OBVIOUS
  <2>2. t \in Seq(S) /\ Append(t, e) \in Seq(S)
    OBVIOUS
  <2> QED BY <2>1, <2>2, CountExtends
<1>3. Counted = Seq(S)
  <2>1. Counted \in SUBSET Seq(S)
    OBVIOUS
  <2> HIDE DEF Counted
  <2> QED BY <1>1, <1>2, <2>1, OverSequences
<1> QED BY <1>3

LEMMA UnitsOfNothing == Units(<<>>) = 0
<1>1. <<>> \in Seq({}) /\ Len(<<>>) = 0
  BY EmptySeq
<1>2. PICK f : Count(<<>>, f) /\ Units(<<>>) = f[Len(<<>>)]
  BY <1>1, CountExists, UnitsIsCount
<1> QED BY <1>1, <1>2 DEF Count

LEMMA UnitsOfMore ==
  ASSUME NEW S, NEW s \in Seq(S), NEW e \in S
  PROVE  Units(Append(s, e)) = Units(s) + Len(e) + 1
<1>1. PICK f : Count(s, f) /\ Units(s) = f[Len(s)]
  BY CountExists, UnitsIsCount
<1>2. Append(s, e) \in Seq(S) /\ Len(Append(s, e)) = Len(s) + 1 /\ Append(s, e)[Len(s) + 1] = e
      /\ Len(s) \in Nat
  OBVIOUS
<1>3. PICK g : Count(Append(s, e), g) /\ Units(Append(s, e)) = g[Len(Append(s, e))]
  BY <1>2, CountExists, UnitsIsCount
<1>4. f[Len(s)] = g[Len(s)]
  BY <1>1, <1>2, <1>3, CountOfPrefix
<1>5. Len(s) + 1 \in 0..(Len(s) + 1) /\ Len(s) + 1 # 0 /\ (Len(s) + 1) - 1 = Len(s)
  BY <1>2
<1>6. g[Len(s) + 1] = g[Len(s)] + Len(e) + 1
  BY <1>2, <1>3, <1>5 DEF Count
<1> QED BY <1>1, <1>2, <1>3, <1>4, <1>6

----------------------------------------------------------------------------
(***************************************************************************)
(* What the spool's own files look like.                                   *)
(***************************************************************************)
\* The scan finds records, and each of them takes a piece and a newline.
LEMMA ParsedType ==
  ASSUME NEW s \in Seq(TheLines)
  PROVE  /\ Parsed(s) \in Seq(Records)
         /\ Units(s) \in Nat
         /\ 2 * Len(Parsed(s)) <= Units(s)
<1> DEFINE Typed == {t \in Seq(TheLines) :
                       /\ Parsed(t) \in Seq(Records)
                       /\ Units(t) \in Nat
                       /\ 2 * Len(Parsed(t)) <= Units(t)}
<1>1. <<>> \in Typed
  <2>1. <<>> \in Seq(TheLines) /\ <<>> \in Seq(Records) /\ Len(<<>>) = 0 /\ 0 \in Nat
    BY EmptySeq
  <2>2. Parsed(<<>>) = <<>> /\ Units(<<>>) = 0
    BY ParsedOfNothing, UnitsOfNothing
  <2>3. Units(<<>>) \in Nat /\ Parsed(<<>>) \in Seq(Records) /\ Len(Parsed(<<>>)) = 0
    BY <2>1, <2>2, Zenon
  <2>4. 2 * 0 <= 0
    OBVIOUS
  <2>5. 2 * Len(Parsed(<<>>)) <= Units(<<>>)
    BY <2>2, <2>3, <2>4, Zenon
  <2> QED BY <2>1, <2>3, <2>5
<1>2. ASSUME NEW t \in Typed, NEW e \in TheLines PROVE Append(t, e) \in Typed
  <2>1. t \in Seq(TheLines) /\ Append(t, e) \in Seq(TheLines)
    OBVIOUS
  <2>2. e \in Seq(Pieces) /\ Len(e) \in Nat /\ Len(e) >= 1 /\ e[1] \in Pieces
    BY DEF TheLines
  <2>3. e[1].record \in Records
    BY <2>2 DEF Pieces
  <2>4. Units(Append(t, e)) = Units(t) + Len(e) + 1
    BY <2>1, UnitsOfMore
  <2>5. Parsed(t) \in Seq(Records) /\ Units(t) \in Nat /\ 2 * Len(Parsed(t)) <= Units(t)
    OBVIOUS
  <2>6. Parsed(Append(t, e)) = IF Readable(e) THEN Append(Parsed(t), e[1].record) ELSE Parsed(t)
    BY <2>1, ParsedOfMore
  <2>7. Parsed(Append(t, e)) \in Seq(Records) /\ Len(Parsed(Append(t, e))) <= Len(Parsed(t)) + 1
    BY <2>3, <2>5, <2>6
  <2>8. Len(Parsed(t)) \in Nat /\ Len(Parsed(Append(t, e))) \in Nat
    BY <2>5, <2>7
  <2>9. 2 * Len(Parsed(Append(t, e))) <= Units(Append(t, e)) /\ Units(Append(t, e)) \in Nat
    BY <2>2, <2>4, <2>5, <2>7, <2>8
  <2> QED BY <2>1, <2>7, <2>9
<1>3. Typed = Seq(TheLines)
  <2>1. Typed \in SUBSET Seq(TheLines)
    OBVIOUS
  <2> HIDE DEF Typed
  <2> QED BY <1>1, <1>2, <2>1, OverSequences
<1> QED BY <1>3

LEMMA LineOfOne ==
  ASSUME NEW r \in Records, NEW whole \in BOOLEAN
  PROVE  /\ <<Piece(r, whole)>> \in TheLines
         /\ Len(<<Piece(r, whole)>>) = 1
         /\ Readable(<<Piece(r, whole)>>) <=> whole
         /\ <<Piece(r, whole)>>[1].record = r
BY DEF Piece, Pieces, TheLines, Readable

LEMMA LinesType ==
  ASSUME NEW records \in Seq(Records)
  PROVE  /\ Lines(records) \in Seq(TheLines)
         /\ Len(Lines(records)) = Len(records)
         /\ \A i \in 1..Len(records) : Lines(records)[i] = <<Piece(records[i], TRUE)>>
<1>1. Len(records) \in Nat /\ DOMAIN records = 1..Len(records)
  BY LenProperties
<1>2. Lines(records) = [i \in 1..Len(records) |-> <<Piece(records[i], TRUE)>>]
  BY <1>1 DEF Lines
<1>3. \A i \in 1..Len(records) : <<Piece(records[i], TRUE)>> \in TheLines
  BY ElementOfSeq, LineOfOne
<1>4. Lines(records) \in [1..Len(records) -> TheLines]
  BY <1>2, <1>3
<1>5. Lines(records) \in Seq(TheLines) /\ DOMAIN Lines(records) = 1..Len(records)
  BY <1>1, <1>4, SeqDef
<1>6. Len(Lines(records)) = Len(records)
  BY <1>1, <1>5, LenProperties
<1> QED BY <1>2, <1>5, <1>6

LEMMA LinesOfMore ==
  ASSUME NEW records \in Seq(Records), NEW r \in Records
  PROVE  Lines(Append(records, r)) = Append(Lines(records), <<Piece(r, TRUE)>>)
<1> DEFINE longer == Append(records, r)
           s == Lines(records)
           line == <<Piece(r, TRUE)>>
<1>1. longer \in Seq(Records) /\ Len(longer) = Len(records) + 1 /\ Len(records) \in Nat
  OBVIOUS
<1>2. /\ \A i \in 1..Len(records) : longer[i] = records[i]
      /\ longer[Len(records) + 1] = r
  OBVIOUS
<1>3. s \in Seq(TheLines) /\ Len(s) = Len(records) /\ line \in TheLines
  BY LinesType, LineOfOne
<1>4. Lines(longer) \in Seq(TheLines) /\ Len(Lines(longer)) = Len(records) + 1
  <2> HIDE DEF longer
  <2> QED BY <1>1, LinesType
<1>5. /\ Append(s, line) \in Seq(TheLines)
      /\ Len(Append(s, line)) = Len(records) + 1
      /\ \A i \in 1..Len(records) : Append(s, line)[i] = s[i]
      /\ Append(s, line)[Len(records) + 1] = line
  <2> HIDE DEF s, line
  <2> QED BY <1>3, AppendProperties
<1>6. ASSUME NEW i \in 1..(Len(records) + 1) PROVE Lines(longer)[i] = Append(s, line)[i]
  <2>1. Lines(longer)[i] = <<Piece(longer[i], TRUE)>>
    <3> HIDE DEF longer
    <3> QED BY <1>1, LinesType
  <2>2. CASE i = Len(records) + 1
    <3> HIDE DEF longer, s
    <3> QED BY <1>2, <1>5, <2>1, <2>2
  <2>3. CASE i \in 1..Len(records)
    <3>1. s[i] = <<Piece(records[i], TRUE)>>
      BY <2>3, LinesType
    <3> HIDE DEF longer, s, line
    <3> QED BY <1>2, <1>5, <2>1, <2>3, <3>1
  <2>4. i = Len(records) + 1 \/ i \in 1..Len(records)
    BY <1>1
  <2> QED BY <2>2, <2>3, <2>4
<1> HIDE DEF longer, s, line
<1>7. Lines(longer) = Append(s, line)
  BY <1>4, <1>5, <1>6, SeqEqual
<1> QED BY <1>7 DEF longer, s, line

\* The scan of a rewritten file finds the records that were written.
LEMMA ParsedOfLines ==
  ASSUME NEW records \in Seq(Records)
  PROVE  /\ Parsed(Lines(records)) = records
         /\ Units(Lines(records)) = 2 * Len(records)
<1> DEFINE Good == {t \in Seq(Records) :
                       Parsed(Lines(t)) = t /\ Units(Lines(t)) = 2 * Len(t)}
<1>1. <<>> \in Good
  <2>1. <<>> \in Seq(Records) /\ Len(<<>>) = 0
    BY EmptySeq
  <2>2. Lines(<<>>) = <<>>
    BY <2>1, LinesType, EmptySeq
  <2> QED BY <2>1, <2>2, ParsedOfNothing, UnitsOfNothing
<1>2. ASSUME NEW t \in Good, NEW r \in Records PROVE Append(t, r) \in Good
  <2> DEFINE line == <<Piece(r, TRUE)>>
             s == Lines(t)
  <2>1. /\ t \in Seq(Records) /\ Append(t, r) \in Seq(Records)
        /\ Parsed(s) = t /\ Units(s) = 2 * Len(t)
    OBVIOUS
  <2>2. Lines(Append(t, r)) = Append(s, line)
    BY <2>1, LinesOfMore
  <2>3. line \in TheLines /\ Len(line) = 1 /\ Readable(line) /\ line[1].record = r
    BY LineOfOne
  <2>4. s \in Seq(TheLines)
    BY <2>1, LinesType
  <2>5. Len(Append(t, r)) = Len(t) + 1 /\ Len(t) \in Nat
    BY <2>1
  <2> HIDE DEF line, s
  <2>6. Parsed(Append(s, line)) = Append(t, r)
    BY <2>1, <2>3, <2>4, ParsedOfMore
  <2>7. Units(Append(s, line)) = 2 * Len(t) + 1 + 1
    BY <2>1, <2>3, <2>4, UnitsOfMore
  <2>8. Units(Append(s, line)) = 2 * Len(Append(t, r))
    BY <2>5, <2>7
  <2> QED BY <2>1, <2>2, <2>6, <2>8
<1>3. Good = Seq(Records)
  <2>1. Good \in SUBSET Seq(Records)
    OBVIOUS
  <2> HIDE DEF Good
  <2> QED BY <1>1, <1>2, <2>1, OverSequences
<1> QED BY <1>3

\* A write behind a finished line adds a line.
LEMMA WrittenNew ==
  ASSUME NEW s \in Seq(TheLines), NEW r \in Records, NEW whole \in BOOLEAN
  PROVE  /\ Append(s, <<Piece(r, whole)>>) \in Seq(TheLines)
         /\ Units(Append(s, <<Piece(r, whole)>>)) = Units(s) + 2
         /\ Parsed(Append(s, <<Piece(r, whole)>>)) =
              IF whole THEN Append(Parsed(s), r) ELSE Parsed(s)
<1> DEFINE line == <<Piece(r, whole)>>
<1>1. line \in TheLines /\ Len(line) = 1 /\ (Readable(line) <=> whole) /\ line[1].record = r
  BY LineOfOne
<1> HIDE DEF line
<1>2. Units(Append(s, line)) = Units(s) + 1 + 1
  BY <1>1, UnitsOfMore
<1>3. Parsed(Append(s, line)) =
        IF Readable(line) THEN Append(Parsed(s), line[1].record) ELSE Parsed(s)
  BY <1>1, ParsedOfMore
<1>4. Append(s, line) \in Seq(TheLines)
  BY <1>1
<1>5. Units(s) \in Nat
  BY ParsedType
<1> QED BY <1>1, <1>2, <1>3, <1>4, <1>5 DEF line

\* A write behind a line that was cut spoils that line.
LEMMA WrittenBehind ==
  ASSUME NEW s \in Seq(TheLines), s # <<>>, NEW p \in Pieces
  PROVE  /\ Append(Front(s), Append(Last(s), p)) \in Seq(TheLines)
         /\ Append(Front(s), Append(Last(s), p)) # <<>>
         /\ ~Readable(Last(Append(Front(s), Append(Last(s), p))))
         /\ Units(Append(Front(s), Append(Last(s), p))) = Units(s) + 1
         /\ Parsed(s) = IF Readable(Last(s))
                        THEN Append(Parsed(Append(Front(s), Append(Last(s), p))), Last(s)[1].record)
                        ELSE Parsed(Append(Front(s), Append(Last(s), p)))
<1> DEFINE front == Front(s)
           last == Last(s)
           line == Append(last, p)
<1>1. front \in Seq(TheLines) /\ last \in TheLines /\ s = Append(front, last)
  <2>1. PICK t \in Seq(TheLines), e \in TheLines : s = Append(t, e)
    BY SequenceEmptyOrAppend
  <2>2. Last(s) = e
    BY <2>1 DEF Last
  <2>3. Front(s) = t
    BY <2>1 DEF Front
  <2> QED BY <2>1, <2>2, <2>3
<1>2. last \in Seq(Pieces) /\ Len(last) \in Nat /\ Len(last) >= 1
  <2> HIDE DEF last
  <2> QED BY <1>1 DEF TheLines
<1>3. line \in TheLines /\ Len(line) = Len(last) + 1
  <2> HIDE DEF last
  <2> QED BY <1>2 DEF TheLines
<1>4. ~Readable(line)
  <2> HIDE DEF line
  <2> QED BY <1>2, <1>3 DEF Readable
<1>5. Append(front, line) \in Seq(TheLines) /\ Append(front, line) # <<>>
      /\ Last(Append(front, line)) = line
  <2> HIDE DEF front, line
  <2> QED BY <1>1, <1>3 DEF Last
<1>6. Units(Append(front, line)) = Units(front) + Len(line) + 1
      /\ Parsed(Append(front, line)) = Parsed(front)
  <2> HIDE DEF front, line
  <2> QED BY <1>1, <1>3, <1>4, UnitsOfMore, ParsedOfMore
<1>7. Units(s) = Units(front) + Len(last) + 1
      /\ Parsed(s) = IF Readable(last) THEN Append(Parsed(front), last[1].record) ELSE Parsed(front)
  <2> HIDE DEF front, last
  <2> QED BY <1>1, UnitsOfMore, ParsedOfMore
<1>8. Units(front) \in Nat
  BY <1>1, ParsedType
<1>9. Units(Append(front, line)) = Units(s) + 1
  <2> HIDE DEF front, line, last
  <2> QED BY <1>2, <1>3, <1>6, <1>7, <1>8
<1> HIDE DEF front, line, last
<1>10. /\ Append(front, line) \in Seq(TheLines)
       /\ Append(front, line) # <<>>
       /\ ~Readable(Last(Append(front, line)))
       /\ Units(Append(front, line)) = Units(s) + 1
       /\ Parsed(s) = IF Readable(last) THEN Append(Parsed(Append(front, line)), last[1].record)
                      ELSE Parsed(Append(front, line))
  BY <1>4, <1>5, <1>6, <1>7, <1>9
<1> QED BY <1>10 DEF front, line, last

----------------------------------------------------------------------------
(***************************************************************************)
(* The invariant.                                                          *)
(***************************************************************************)
Found == Parsed(file)

\* The file fits with the newline of a line that was cut; the record of such a
\* line is nobody's to keep.
FileInv ==
  /\ file \in Seq(TheLines)
  /\ cut \in BOOLEAN
  /\ cut => file # <<>>
  /\ cut /\ Readable(Last(file)) => Last(file)[1].record \notin acked
  /\ Units(file) <= MaxBytes
  /\ size \in 0..MaxBytes
  /\ handle \in {"open", "closed", "down"}
  /\ handle = "open" => size = FileSize

\* The records are in the file in the order of their appends.
OrderInv ==
  /\ \A i, j \in 1..Len(Found) : i < j => Found[i] < Found[j]
  /\ \A i \in 1..Len(Found) : Found[i] < next

LogInv ==
  /\ next \in Nat /\ next >= 1
  /\ acked \subseteq Records /\ glued \subseteq acked
  /\ \A r \in acked : r < next
  /\ sent \in [Records -> Nat]
  /\ \A r \in Records : r >= next => sent[r] = 0
  /\ faults \in 0..MaxFaults

\* The drain has read what is in the file, which rests until it ends; before
\* its place all were handed on, behind it no more often than calls failed.
DrainInv ==
  /\ drain \in {"idle", "handing", "rewriting"}
  /\ read \in Seq(Records)
  /\ committed \in 0..Len(read)
  /\ drain = "idle" => read = <<>>
  /\ drain # "idle" => read = Found
  /\ \A i \in 1..committed : sent[read[i]] > 0
  /\ \A i \in 1..Len(Found) : i > committed => sent[Found[i]] <= faults

IInv ==
  /\ FileInv /\ OrderInv /\ LogInv /\ DrainInv
  /\ AckedIsKept /\ HandedInOrder /\ RepeatsAreFaults

LEMMA FoundType ==
  ASSUME FileInv
  PROVE  /\ Found \in Seq(Records) /\ Len(Found) \in Nat
         /\ Units(file) \in Nat /\ 2 * Len(Found) <= Units(file)
         /\ \A i \in 1..Len(Found) : Found[i] \in Records
BY ParsedType, ElementOfSeq, LenProperties DEF FileInv, Found

LEMMA RecordsAreNumbers == \A r \in Records : r \in Nat
BY SpoolAssumption DEF Records

LEMMA ReadableRecord == \A line \in TheLines : Readable(line) => line[1].record \in Records
<1> SUFFICES ASSUME NEW line \in Seq(Pieces), Len(line) = 1 PROVE line[1].record \in Records
  BY DEF TheLines, Readable
<1>1. line[1] \in Pieces
  BY ElementOfSeq
<1> QED BY <1>1 DEF Pieces

LEMMA InitInv == Init => IInv
<1> SUFFICES ASSUME Init PROVE IInv
  OBVIOUS
<1>1. file = <<>> /\ cut = FALSE /\ size = 0 /\ handle = "open" /\ drain = "idle" /\ read = <<>>
      /\ committed = 0 /\ next = 1 /\ acked = {} /\ glued = {}
      /\ sent = [r \in Records |-> 0] /\ faults = 0
  BY DEF Init
<1>2. Found = <<>> /\ Units(file) = 0 /\ Len(<<>>) = 0
      /\ file \in Seq(TheLines) /\ read \in Seq(Records)
  BY <1>1, ParsedOfNothing, UnitsOfNothing, EmptySeq DEF Found
<1>3. MaxBytes \in Nat /\ MaxFaults \in Nat
  BY SpoolAssumption
<1>4. FileInv
  <2>1. FileSize = 0
    BY <1>1, <1>2 DEF FileSize
  <2>2. Units(file) <= MaxBytes /\ size \in 0..MaxBytes
    BY <1>1, <1>2, <1>3
  <2> QED BY <1>1, <1>2, <2>1, <2>2 DEF FileInv
<1>5. OrderInv
  BY <1>2 DEF OrderInv
<1>6. LogInv
  BY <1>1, <1>3 DEF LogInv
<1>7. DrainInv
  BY <1>1, <1>2 DEF DrainInv
<1>8. AckedIsKept /\ HandedInOrder /\ RepeatsAreFaults
  <2>1. \A r \in Records : sent[r] = 0
    BY <1>1
  <2> QED BY <1>1, <2>1 DEF AckedIsKept, HandedInOrder, RepeatsAreFaults
<1> QED BY <1>4, <1>5, <1>6, <1>7, <1>8 DEF IInv

----------------------------------------------------------------------------
(***************************************************************************)
(* A write.                                                                *)
(***************************************************************************)
\* The file after a write: the scan finds one more record, or the same, or it
\* misses the one in the line that was cut, which nobody was promised.
LEMMA WrittenFile ==
  ASSUME FileInv, next \in Records, NEW whole \in BOOLEAN, file' = Written(Piece(next, whole))
  PROVE  /\ file' \in Seq(TheLines) /\ file' # <<>>
         /\ Units(file') = IF cut THEN Units(file) + 1 ELSE Units(file) + 2
         /\ Readable(Last(file')) => Last(file')[1].record = next
         /\ ~cut => Found' = IF whole THEN Append(Found, next) ELSE Found
         /\ cut => Found' = Found \/ \E r \in Records \ acked : Found = Append(Found', r)
<1>1. file \in Seq(TheLines) /\ cut \in BOOLEAN
  BY DEF FileInv
<1>2. CASE cut
  <2> DEFINE p == Piece(next, whole)
             after == Append(Front(file), Append(Last(file), p))
  <2>1. p \in Pieces
    BY DEF Piece, Pieces
  <2>2. file # <<>> /\ file' = after
    BY <1>2 DEF FileInv, Written
  <2> HIDE DEF p
  <2>3. /\ after \in Seq(TheLines) /\ after # <<>>
        /\ ~Readable(Last(after))
        /\ Units(after) = Units(file) + 1
        /\ Parsed(file) = IF Readable(Last(file)) THEN Append(Parsed(after), Last(file)[1].record)
                          ELSE Parsed(after)
    BY <1>1, <2>1, <2>2, WrittenBehind
  <2> HIDE DEF after
  <2>4. CASE Readable(Last(file))
    <3>1. Last(file) \in TheLines
      <4>1. Len(file) \in 1..Len(file)
        BY <1>1, <2>2, EmptySeq
      <4> QED BY <1>1, <4>1, ElementOfSeq DEF Last
    <3>2. Last(file)[1].record \in Records
      BY <2>4, <3>1, ReadableRecord
    <3>3. Last(file)[1].record \notin acked
      BY <1>2, <2>4 DEF FileInv
    <3> QED BY <1>2, <2>2, <2>3, <2>4, <3>2, <3>3 DEF Found
  <2>5. CASE ~Readable(Last(file))
    BY <1>2, <2>2, <2>3, <2>5 DEF Found
  <2> QED BY <2>4, <2>5
<1>3. CASE ~cut
  <2> DEFINE line == <<Piece(next, whole)>>
  <2>1. file' = Append(file, line)
    BY <1>3 DEF Written
  <2>2. /\ Append(file, line) \in Seq(TheLines)
        /\ Units(Append(file, line)) = Units(file) + 2
        /\ Parsed(Append(file, line)) = IF whole THEN Append(Parsed(file), next) ELSE Parsed(file)
    BY <1>1, WrittenNew
  <2>3. line \in TheLines /\ line[1].record = next
    BY LineOfOne
  <2> HIDE DEF line
  <2>4. Append(file, line) # <<>> /\ Last(Append(file, line)) = line
    BY <1>1, <2>3 DEF Last
  <2> QED BY <1>3, <2>1, <2>2, <2>3, <2>4 DEF Found
<1> QED BY <1>1, <1>2, <1>3

\* What an append may say and count.
Noted(whole) ==
  /\ next' = next + 1
  /\ acked \subseteq acked' /\ acked' \subseteq acked \cup {next}
  /\ glued \subseteq glued' /\ glued' \subseteq acked'
  /\ next \in acked' => whole /\ cut' = FALSE /\ (cut => next \in glued')
  /\ sent' = sent
  /\ faults' \in {faults, faults + 1} /\ faults' \in 0..MaxFaults

LEMMA NotedLog ==
  ASSUME LogInv, next \in Records, NEW whole, Noted(whole)
  PROVE  LogInv'
<1>1. next' \in Nat /\ next' >= 1 /\ next' > next
  BY DEF LogInv, Noted
<1>2. acked' \subseteq Records /\ glued' \subseteq acked'
  BY DEF LogInv, Noted
<1>3. \A r \in acked' : r < next'
  <2> SUFFICES ASSUME NEW r \in acked' PROVE r < next'
    OBVIOUS
  <2>1. r \in acked \/ r = next
    BY DEF Noted
  <2>2. r \in Nat /\ next \in Nat
    BY <1>2, RecordsAreNumbers DEF LogInv
  <2> QED BY <1>1, <2>1, <2>2 DEF LogInv
<1>4. \A r \in Records : r >= next' => sent'[r] = 0
  <2> SUFFICES ASSUME NEW r \in Records, r >= next' PROVE sent'[r] = 0
    OBVIOUS
  <2>1. r >= next
    BY <1>1, RecordsAreNumbers DEF LogInv
  <2> QED BY <2>1 DEF LogInv, Noted
<1> QED BY <1>1, <1>2, <1>3, <1>4 DEF LogInv, Noted

\* The records found after a write are in order, were handed on no more often
\* than calls failed, and are all the acknowledged ones that have to be there.
LEMMA WrittenRecords ==
  ASSUME IInv, next \in Records, drain = "idle", NEW whole \in BOOLEAN,
         file' = Written(Piece(next, whole)), Noted(whole), UNCHANGED drainVars
  PROVE  OrderInv' /\ DrainInv' /\ AckedIsKept'
<1>1. FileInv /\ OrderInv /\ LogInv /\ DrainInv /\ AckedIsKept
  BY DEF IInv
<1>2. Found \in Seq(Records) /\ Len(Found) \in Nat /\ \A i \in 1..Len(Found) : Found[i] \in Nat
  BY <1>1, FoundType, RecordsAreNumbers
<1>3. next \in Nat /\ next' = next + 1 /\ sent' = sent /\ faults \in Nat /\ faults' >= faults
      /\ faults' \in Nat /\ sent[next] = 0
  BY <1>1 DEF LogInv, Noted
<1>4. Found' \in Seq(Records) /\ Len(Found') \in Nat
  <2>1. file' \in Seq(TheLines)
    BY <1>1, WrittenFile
  <2>2. Parsed(file') \in Seq(Records)
    BY <2>1, ParsedType
  <2> QED BY <2>2 DEF Found
<1>5. committed = 0 /\ read = <<>> /\ committed' = 0 /\ read' = <<>> /\ drain' = "idle"
  BY <1>1 DEF DrainInv, drainVars
<1>6. \/ Found' = Found /\ (~cut => ~whole)
      \/ ~cut /\ whole /\ Found' = Append(Found, next)
      \/ cut /\ \E r \in Records \ acked : Found = Append(Found', r)
  BY <1>1, WrittenFile DEF FileInv
<1>7. ASSUME NEW i \in 1..Len(Found')
      PROVE  \/ i \in 1..Len(Found) /\ Found'[i] = Found[i]
             \/ i = Len(Found) + 1 /\ Found'[i] = next
  <2>1. CASE Found' = Found
    BY <2>1
  <2>2. CASE Found' = Append(Found, next)
    BY <1>2, <2>2
  <2>3. CASE \E r \in Records \ acked : Found = Append(Found', r)
    BY <1>4, <2>3
  <2> QED BY <1>6, <2>1, <2>2, <2>3
<1>8. \A i \in 1..Len(Found) : Found[i] < next
  BY <1>1 DEF OrderInv
<1>9. OrderInv'
  <2>1. ASSUME NEW i \in 1..Len(Found'), NEW j \in 1..Len(Found'), i < j
        PROVE  Found'[i] < Found'[j]
    <3>1. CASE j \in 1..Len(Found) /\ Found'[j] = Found[j]
      <4>1. i \in 1..Len(Found) /\ Found'[i] = Found[i]
        BY <1>2, <1>7, <2>1, <3>1
      <4> QED BY <1>1, <2>1, <3>1, <4>1 DEF OrderInv
    <3>2. CASE j = Len(Found) + 1 /\ Found'[j] = next
      <4>1. i \in 1..Len(Found) /\ Found'[i] = Found[i]
        BY <1>2, <1>7, <2>1, <3>2
      <4> QED BY <1>8, <3>2, <4>1
    <3> QED BY <1>7, <3>1, <3>2
  <2>2. ASSUME NEW i \in 1..Len(Found') PROVE Found'[i] < next'
    <3>1. CASE i \in 1..Len(Found) /\ Found'[i] = Found[i]
      <4>1. Found[i] \in Nat /\ Found[i] < next
        BY <1>2, <1>8, <3>1
      <4> QED BY <1>3, <3>1, <4>1
    <3>2. CASE Found'[i] = next
      BY <1>3, <3>2
    <3> QED BY <1>7, <3>1, <3>2
  <2> QED BY <2>1, <2>2 DEF OrderInv
<1>10. DrainInv'
  <2>1. ASSUME NEW i \in 1..Len(Found') PROVE sent'[Found'[i]] <= faults'
    <3>1. CASE i \in 1..Len(Found) /\ Found'[i] = Found[i]
      <4>1. sent[Found[i]] <= faults
        BY <1>1, <1>5, <3>1 DEF DrainInv
      <4>2. sent[Found[i]] \in Nat
        BY <1>1, <3>1, FoundType DEF LogInv
      <4> QED BY <1>3, <3>1, <4>1, <4>2
    <3>2. CASE Found'[i] = next
      BY <1>3, <3>2
    <3> QED BY <1>7, <3>1, <3>2
  <2>2. read' \in Seq(Records) /\ Len(read') = 0
    BY <1>5, EmptySeq
  <2> QED BY <1>5, <2>1, <2>2 DEF DrainInv
<1>11. AckedIsKept'
  <2> SUFFICES ASSUME NEW r \in acked' \ glued' PROVE Contains(Found', r) \/ sent'[r] > 0
    BY DEF AckedIsKept, Found
  <2>1. CASE r \in acked
    <3>1. r \notin glued
      BY DEF Noted
    <3>2. Contains(Found, r) \/ sent[r] > 0
      BY <1>1, <2>1, <3>1 DEF AckedIsKept, Found
    <3>3. ASSUME NEW i \in 1..Len(Found), Found[i] = r PROVE \E j \in 1..Len(Found') : Found'[j] = r
      <4>1. CASE Found' = Found
        BY <3>3, <4>1
      <4>2. CASE Found' = Append(Found, next)
        <5>1. i \in 1..Len(Found') /\ Found'[i] = Found[i]
          BY <1>2, <4>2
        <5> QED BY <3>3, <5>1
      <4>3. CASE \E q \in Records \ acked : Found = Append(Found', q)
        <5>1. PICK q \in Records \ acked : Found = Append(Found', q)
          BY <4>3
        <5>2. i # Len(Found') + 1
          BY <1>4, <2>1, <3>3, <5>1
        <5>3. i \in 1..Len(Found') /\ Found'[i] = Found[i]
          BY <1>4, <5>1, <5>2
        <5> QED BY <3>3, <5>3
      <4> QED BY <1>6, <4>1, <4>2, <4>3
    <3> QED BY <1>3, <3>2, <3>3 DEF Contains
  <2>2. CASE r \notin acked
    <3>1. r = next /\ whole /\ ~cut
      BY <2>2 DEF Noted
    <3>2. Found' = Append(Found, next)
      BY <1>6, <3>1
    <3>3. Len(Found) + 1 \in 1..Len(Found') /\ Found'[Len(Found) + 1] = next
      BY <1>2, <3>2
    <3> QED BY <3>1, <3>3 DEF Contains
  <2> QED BY <2>1, <2>2
<1> QED BY <1>9, <1>10, <1>11

\* The size goes with the file.
LEMMA WrittenSize ==
  ASSUME FileInv, Fits, handle = "open", next \in Records, next \notin acked, NEW whole \in BOOLEAN,
         file' = Written(Piece(next, whole)), Noted(whole),
         \/ cut' = TRUE /\ size' = size + 1
         \/ cut' = FALSE /\ size' = size + 2,
         handle' = handle
  PROVE  FileInv'
<1>1. /\ file' \in Seq(TheLines) /\ file' # <<>>
      /\ Units(file') = IF cut THEN Units(file) + 1 ELSE Units(file) + 2
      /\ Readable(Last(file')) => Last(file')[1].record = next
  BY WrittenFile
<1>2. Units(file) \in Nat /\ size \in Nat /\ size + 2 <= MaxBytes /\ MaxBytes \in Nat
      /\ size = FileSize /\ cut \in BOOLEAN
  BY FoundType, SpoolAssumption DEF FileInv, Fits
<1>3. size = IF cut THEN Units(file) - 1 ELSE Units(file)
  BY <1>2 DEF FileSize
<1>4. Units(file') = size + 2
  <2>1. CASE cut
    <3>1. Units(file') = Units(file) + 1 /\ size = Units(file) - 1
      BY <1>1, <1>3, <2>1
    <3> QED BY <1>2, <3>1
  <2>2. CASE ~cut
    BY <1>1, <1>3, <2>2
  <2> QED BY <2>1, <2>2
<1>5. cut' \in BOOLEAN /\ size' \in 0..MaxBytes
  <2>1. cut' = TRUE \/ cut' = FALSE
    OBVIOUS
  <2>2. size' \in Nat /\ size' <= size + 2
    BY <1>2
  <2>3. cut' \in BOOLEAN
    BY <2>1, Zenon
  <2> QED BY <1>2, <2>2, <2>3
<1>6. size' = FileSize'
  <2>1. FileSize' = Units(file') - (IF cut' THEN 1 ELSE 0)
    BY DEF FileSize
  <2>2. CASE cut' = TRUE /\ size' = size + 1
    <3>1. FileSize' = (size + 2) - 1
      BY <1>4, <2>1, <2>2
    <3> QED BY <1>2, <2>2, <3>1
  <2>3. CASE cut' = FALSE /\ size' = size + 2
    <3>1. FileSize' = (size + 2) - 0
      BY <1>4, <2>1, <2>3
    <3> QED BY <1>2, <2>3, <3>1
  <2> QED BY <2>2, <2>3
<1>7. cut' /\ Readable(Last(file')) => Last(file')[1].record \notin acked'
  <2>1. cut' => next \notin acked'
    BY DEF Noted
  <2> QED BY <1>1, <2>1
<1>8. Units(file') <= MaxBytes
  BY <1>2, <1>4
<1>9. handle' \in {"open", "closed", "down"}
  OBVIOUS
<1> QED BY <1>1, <1>5, <1>6, <1>7, <1>8, <1>9 DEF FileInv

LEMMA NotedOrder ==
  ASSUME LogInv, HandedInOrder, RepeatsAreFaults, next \in Records, NEW whole, Noted(whole)
  PROVE  HandedInOrder' /\ RepeatsAreFaults'
<1>1. sent' = sent /\ faults' >= faults /\ faults \in Nat /\ faults' \in Nat /\ next \in Nat
  BY DEF LogInv, Noted
<1>2. HandedInOrder'
  <2> SUFFICES ASSUME NEW q \in Records, NEW r \in Records,
                      q < r, sent[r] > 0, q \in acked' \ glued'
               PROVE  sent[q] > 0
    BY <1>1 DEF HandedInOrder
  <2>1. ~(r >= next)
    BY DEF LogInv
  <2>2. q # next
    BY <1>1, <2>1, RecordsAreNumbers
  <2>3. q \in acked \ glued
    BY <2>2 DEF Noted
  <2> QED BY <2>3 DEF HandedInOrder
<1>3. RepeatsAreFaults'
  <2> SUFFICES ASSUME NEW r \in Records PROVE sent[r] <= 1 + faults'
    BY <1>1 DEF RepeatsAreFaults
  <2>1. sent[r] \in Nat /\ sent[r] <= 1 + faults
    BY DEF LogInv, RepeatsAreFaults
  <2> QED BY <1>1, <2>1
<1> QED BY <1>2, <1>3

\* The append that wrote: whole or in part, acknowledged or not.
LEMMA WriteStep ==
  ASSUME IInv, MayAppend, Fits, handle = "open", NEW whole \in BOOLEAN,
         file' = Written(Piece(next, whole)), Noted(whole),
         \/ cut' = TRUE /\ size' = size + 1
         \/ cut' = FALSE /\ size' = size + 2,
         UNCHANGED <<handle, drainVars>>
  PROVE  IInv'
<1>1. next \in Records /\ drain = "idle"
  BY DEF MayAppend
<1>2. FileInv /\ LogInv /\ HandedInOrder /\ RepeatsAreFaults
  BY DEF IInv
<1>3. next \notin acked
  BY <1>1, <1>2, RecordsAreNumbers DEF LogInv
<1>4. FileInv'
  BY <1>1, <1>2, <1>3, WrittenSize
<1>5. LogInv'
  BY <1>1, <1>2, NotedLog
<1>6. OrderInv' /\ DrainInv' /\ AckedIsKept'
  BY <1>1, WrittenRecords
<1>7. HandedInOrder' /\ RepeatsAreFaults'
  BY <1>1, <1>2, NotedOrder
<1> QED BY <1>4, <1>5, <1>6, <1>7 DEF IInv

----------------------------------------------------------------------------
(***************************************************************************)
(* The file stays.                                                         *)
(***************************************************************************)
\* A step that leaves the file, what was acknowledged and what was handed on, and
\* the drain's place or takes it back to the start after a failure.
LEMMA RestingFile ==
  ASSUME IInv, UNCHANGED <<file, cut, acked, glued, sent>>,
         next' \in {next, next + 1}, faults' \in {faults, faults + 1}, faults' \in 0..MaxFaults
  PROVE  /\ Found' = Found /\ OrderInv' /\ LogInv'
         /\ AckedIsKept' /\ HandedInOrder' /\ RepeatsAreFaults'
<1>1. FileInv /\ OrderInv /\ LogInv /\ AckedIsKept /\ HandedInOrder /\ RepeatsAreFaults
  BY DEF IInv
<1>2. Found' = Found
  BY DEF Found
<1>3. /\ next \in Nat /\ next' \in Nat /\ next' >= next /\ next' >= 1
      /\ faults \in Nat /\ faults' \in Nat /\ faults' >= faults
  BY <1>1 DEF LogInv
<1>4. OrderInv'
  <2>1. ASSUME NEW i \in 1..Len(Found) PROVE Found[i] < next'
    <3>1. Found[i] < next /\ Found[i] \in Nat
      BY <1>1, FoundType, RecordsAreNumbers DEF OrderInv
    <3> QED BY <1>3, <3>1
  <2> QED BY <1>1, <1>2, <2>1 DEF OrderInv
<1>5. LogInv'
  <2>1. ASSUME NEW r \in acked PROVE r < next'
    <3>1. r \in Nat /\ r < next
      BY <1>1, RecordsAreNumbers DEF LogInv
    <3> QED BY <1>3, <3>1
  <2>2. ASSUME NEW r \in Records, r >= next' PROVE sent[r] = 0
    <3>1. r >= next
      BY <1>3, <2>2, RecordsAreNumbers
    <3> QED BY <1>1, <3>1 DEF LogInv
  <2> QED BY <1>1, <1>3, <2>1, <2>2 DEF LogInv
<1>6. AckedIsKept'
  BY <1>1 DEF AckedIsKept
<1>7. HandedInOrder'
  BY <1>1 DEF HandedInOrder
<1>8. RepeatsAreFaults'
  <2> SUFFICES ASSUME NEW r \in Records PROVE sent[r] <= 1 + faults'
    BY DEF RepeatsAreFaults
  <2>1. sent[r] \in Nat /\ sent[r] <= 1 + faults
    BY <1>1 DEF LogInv, RepeatsAreFaults
  <2> QED BY <1>3, <2>1
<1> QED BY <1>2, <1>4, <1>5, <1>6, <1>7, <1>8

LEMMA RestingDrain ==
  ASSUME IInv, UNCHANGED <<file, drainVars, sent>>,
         faults' \in {faults, faults + 1}
  PROVE  DrainInv'
<1>1. DrainInv /\ Found' = Found /\ faults \in Nat /\ faults' >= faults /\ faults' \in Nat
  BY DEF IInv, LogInv, Found
<1>2. UNCHANGED <<drain, read, committed>>
  BY DEF drainVars
<1>3. ASSUME NEW i \in 1..Len(Found), i > committed PROVE sent[Found[i]] <= faults'
  <2>1. sent[Found[i]] <= faults
    BY <1>1, <1>3 DEF DrainInv
  <2>2. sent[Found[i]] \in Nat
    BY FoundType DEF IInv, LogInv
  <2> QED BY <1>1, <2>1, <2>2
<1> QED BY <1>1, <1>2, <1>3 DEF DrainInv

\* A drain that ends with the file as it was: a call has failed, and the records
\* that were handed on may be so once more.
LEMMA AbortedDrain ==
  ASSUME IInv, UNCHANGED <<file, sent>>, DrainEnds, faults' = faults + 1
  PROVE  DrainInv'
<1>1. DrainInv /\ Found' = Found /\ faults \in Nat /\ RepeatsAreFaults
  BY DEF IInv, LogInv, Found
<1>2. drain' = "idle" /\ read' = <<>> /\ committed' = 0
  BY DEF DrainEnds
<1>3. read' \in Seq(Records) /\ Len(read') = 0
  BY <1>2, EmptySeq
<1>4. ASSUME NEW i \in 1..Len(Found) PROVE sent[Found[i]] <= faults'
  <2>1. Found[i] \in Records
    BY FoundType DEF IInv
  <2>2. sent[Found[i]] <= 1 + faults
    BY <1>1, <2>1 DEF RepeatsAreFaults
  <2> QED BY <1>1, <2>2
<1> QED BY <1>1, <1>2, <1>3, <1>4 DEF DrainInv

LEMMA RestingSize ==
  ASSUME FileInv, UNCHANGED <<file, cut, size, acked>>, handle' \in {handle, "down"}
  PROVE  FileInv'
BY DEF FileInv, FileSize

LEMMA AppendRefusedStep == IInv /\ AppendRefused => IInv'
<1> SUFFICES ASSUME IInv, AppendRefused PROVE IInv'
  OBVIOUS
<1>1. /\ UNCHANGED <<file, cut, size, handle, drainVars, acked, glued, sent, faults>>
      /\ next' = next + 1
  BY DEF AppendRefused, fileVars
<1>2. faults \in 0..MaxFaults /\ FileInv
  BY DEF IInv, LogInv
<1>3. DrainInv'
  BY <1>1, RestingDrain
<1>4. FileInv'
  BY <1>1, <1>2, RestingSize
<1> QED BY <1>1, <1>2, <1>3, <1>4, RestingFile DEF IInv

LEMMA FaultCounts == 
  ASSUME IInv, Fault
  PROVE  faults' = faults + 1 /\ faults' \in 0..MaxFaults
BY SpoolAssumption DEF Fault, IInv, LogInv

LEMMA AppendSucceedsStep == IInv /\ AppendSucceeds => IInv'
<1> SUFFICES ASSUME IInv, AppendSucceeds PROVE IInv'
  OBVIOUS
<1>1. LogInv /\ FileInv
  BY DEF IInv
<1>2. Noted(TRUE)
  <2>1. next' = next + 1 /\ sent' = sent /\ faults' = faults /\ acked' = acked \cup {next}
        /\ glued' = (IF cut THEN glued \cup {next} ELSE glued) /\ cut' = FALSE
    BY DEF AppendSucceeds
  <2>2. faults \in 0..MaxFaults /\ glued \subseteq acked
    BY <1>1 DEF LogInv
  <2>3. glued \subseteq glued' /\ glued' \subseteq acked' /\ (cut => next \in glued')
    BY <2>1, <2>2
  <2> QED BY <2>1, <2>2, <2>3 DEF Noted
<1>3. MayAppend /\ Fits /\ handle = "open" /\ file' = Written(Piece(next, TRUE))
      /\ cut' = FALSE /\ size' = size + 2 /\ UNCHANGED <<handle, drainVars>>
  BY DEF AppendSucceeds
<1> QED BY <1>2, <1>3, WriteStep

LEMMA AppendFailsStep == IInv /\ AppendFails => IInv'
<1> SUFFICES ASSUME IInv, AppendFails PROVE IInv'
  OBVIOUS
<1>1. LogInv /\ FileInv
  BY DEF IInv
<1>2. MayAppend /\ Fits /\ handle = "open" /\ UNCHANGED <<handle, drainVars, acked, glued, sent>>
      /\ next' = next + 1
  BY DEF AppendFails
<1>3. faults' = faults + 1 /\ faults' \in 0..MaxFaults
  BY FaultCounts DEF AppendFails
<1>4. next \notin acked'
  BY <1>1, <1>2, RecordsAreNumbers DEF LogInv, MayAppend
<1>5. \A whole \in BOOLEAN : Noted(whole)
  BY <1>1, <1>2, <1>3, <1>4 DEF Noted, LogInv
<1>6. CASE UNCHANGED <<file, cut, size>>
  <2>1. FileInv'
    BY <1>1, <1>2, <1>6, RestingSize
  <2>2. DrainInv'
    BY <1>2, <1>3, <1>6, RestingDrain
  <2> QED BY <1>2, <1>3, <1>6, <2>1, <2>2, RestingFile DEF IInv
<1>7. CASE /\ \E whole \in BOOLEAN : file' = Written(Piece(next, whole))
           /\ cut' = TRUE /\ size' = size + 1
  BY <1>2, <1>5, <1>7, WriteStep
<1>8. CASE file' = Written(Piece(next, TRUE)) /\ cut' = FALSE /\ size' = size + 2
  BY <1>2, <1>5, <1>8, WriteStep
<1> QED BY <1>6, <1>7, <1>8 DEF AppendFails

----------------------------------------------------------------------------
(***************************************************************************)
(* The drain.                                                              *)
(***************************************************************************)
LEMMA DrainStartStep == IInv /\ DrainStart => IInv'
<1> SUFFICES ASSUME IInv, DrainStart PROVE IInv'
  OBVIOUS
<1>1. /\ UNCHANGED <<file, cut, size, handle, next, acked, glued, sent, faults>>
      /\ drain' = "handing" /\ read' = Found /\ committed' = 0 /\ committed = 0
  BY DEF DrainStart, fileVars, logVars, Found, IInv, DrainInv
<1>2. faults \in 0..MaxFaults /\ FileInv /\ DrainInv /\ Found' = Found
  BY <1>1 DEF IInv, LogInv, Found
<1>3. DrainInv'
  <2>1. Found \in Seq(Records) /\ Len(Found) \in Nat
    BY <1>2, FoundType
  <2>2. \A i \in 1..Len(Found) : sent'[Found'[i]] <= faults'
    BY <1>1, <1>2, <2>1 DEF DrainInv
  <2> QED BY <1>1, <1>2, <2>1, <2>2 DEF DrainInv
<1>4. FileInv'
  BY <1>1, <1>2, RestingSize
<1> QED BY <1>1, <1>2, <1>3, <1>4, RestingFile DEF IInv

LEMMA HandedOnStep == IInv /\ HandedOn => IInv'
<1> SUFFICES ASSUME IInv, HandedOn PROVE IInv'
  OBVIOUS
<1>1. /\ UNCHANGED <<file, cut, size, handle, read, committed, next, acked, glued, sent, faults>>
      /\ drain = "handing" /\ drain' = "rewriting"
  BY DEF HandedOn, fileVars, logVars
<1>2. faults \in 0..MaxFaults /\ FileInv /\ DrainInv /\ Found' = Found
  BY <1>1 DEF IInv, LogInv, Found
<1>3. DrainInv'
  BY <1>1, <1>2 DEF DrainInv
<1>4. FileInv'
  BY <1>1, <1>2, RestingSize
<1> QED BY <1>1, <1>2, <1>3, <1>4, RestingFile DEF IInv

\* A step that fails and leaves the file as it was.
LEMMA AbortStep ==
  ASSUME IInv, UNCHANGED <<file, cut, size, next, acked, glued, sent>>,
         handle' \in {handle, "down"}, faults' = faults + 1, faults' \in 0..MaxFaults, DrainEnds
  PROVE  IInv'
<1>1. FileInv'
  BY RestingSize DEF IInv
<1>2. DrainInv'
  BY AbortedDrain
<1> QED BY <1>1, <1>2, RestingFile DEF IInv

LEMMA RewriteFailsStep == IInv /\ RewriteFails => IInv'
<1> SUFFICES ASSUME IInv, RewriteFails PROVE IInv'
  OBVIOUS
<1>1. UNCHANGED <<file, cut, size, handle, next, acked, glued, sent>> /\ DrainEnds
  BY DEF RewriteFails, fileVars, logVars
<1>2. faults' = faults + 1 /\ faults' \in 0..MaxFaults
  BY FaultCounts DEF RewriteFails
<1> QED BY <1>1, <1>2, AbortStep

LEMMA CrashStep == IInv /\ Crash => IInv'
<1> SUFFICES ASSUME IInv, Crash PROVE IInv'
  OBVIOUS
<1>1. UNCHANGED <<file, cut, size, next, acked, glued, sent>> /\ DrainEnds /\ handle' = "down"
  BY DEF Crash, logVars
<1>2. faults' = faults + 1 /\ faults' \in 0..MaxFaults
  BY FaultCounts DEF Crash
<1> QED BY <1>1, <1>2, AbortStep

LEMMA DrainFailsStep == IInv /\ DrainFails => IInv'
<1> SUFFICES ASSUME IInv, DrainFails PROVE IInv'
  OBVIOUS
<1>1. UNCHANGED <<file, cut, size, handle, drainVars, next, acked, glued, sent>>
  BY DEF DrainFails, fileVars, logVars
<1>2. faults' = faults + 1 /\ faults' \in 0..MaxFaults
  BY FaultCounts DEF DrainFails
<1>3. FileInv'
  BY <1>1, RestingSize DEF IInv
<1>4. DrainInv'
  BY <1>1, <1>2, RestingDrain
<1> QED BY <1>1, <1>2, <1>3, <1>4, RestingFile DEF IInv

\* What Stat says of a file that is not negative and within the bound.
LEMMA OpenStep == IInv /\ Open => IInv'
<1> SUFFICES ASSUME IInv, Open PROVE IInv'
  OBVIOUS
<1>1. UNCHANGED <<file, cut, drainVars, next, acked, glued, sent, faults>>
      /\ handle' = "open" /\ size' = FileSize
  BY DEF Open, logVars
<1>2. FileInv /\ faults \in 0..MaxFaults
  BY DEF IInv, LogInv
<1>3. FileSize \in 0..MaxBytes
  <2>1. Units(file) \in Nat /\ Units(file) <= MaxBytes /\ MaxBytes \in Nat
    BY <1>2, FoundType, SpoolAssumption DEF FileInv
  <2>2. CASE cut
    <3>1. file # <<>> /\ file \in Seq(TheLines)
      BY <1>2, <2>2 DEF FileInv
    <3>2. PICK s \in Seq(TheLines), line \in TheLines : file = Append(s, line)
      BY <3>1, SequenceEmptyOrAppend
    <3>3. Units(file) = Units(s) + Len(line) + 1 /\ Units(s) \in Nat
      BY <3>2, UnitsOfMore, ParsedType
    <3>4. Len(line) \in Nat
      BY <3>2 DEF TheLines
    <3>5. FileSize = Units(file) - 1
      BY <2>2 DEF FileSize
    <3> QED BY <2>1, <3>3, <3>4, <3>5
  <2>3. CASE ~cut
    BY <2>1, <2>3 DEF FileSize
  <2> QED BY <2>2, <2>3
<1>4. FileInv'
  BY <1>1, <1>2, <1>3 DEF FileInv, FileSize
<1>5. DrainInv'
  BY <1>1, RestingDrain
<1> QED BY <1>1, <1>2, <1>4, <1>5, RestingFile DEF IInv

\* A drain that replaced the file: the scan finds what was not handed on.
LEMMA RewrittenFile ==
  ASSUME IInv, drain = "rewriting", file' = Lines(Rest), cut' = FALSE, DrainEnds,
         UNCHANGED logVars, faults' \in {faults, faults + 1}, faults' \in 0..MaxFaults,
         handle' \in {"open", "closed"}, size' \in 0..MaxBytes,
         handle' = "open" => size' = 2 * Len(Rest)
  PROVE  IInv'
<1>1. FileInv /\ OrderInv /\ LogInv /\ DrainInv /\ AckedIsKept /\ HandedInOrder /\ RepeatsAreFaults
  BY DEF IInv
<1>2. read = Found /\ committed \in 0..Len(Found)
  BY <1>1 DEF DrainInv
<1>3. Found \in Seq(Records) /\ Len(Found) \in Nat
  BY <1>1, FoundType
<1>4. /\ Rest \in Seq(Records) /\ Len(Rest) = Len(Found) - committed
      /\ \A i \in 1..Len(Rest) : Rest[i] = Found[committed + i]
  BY <1>2, <1>3 DEF Rest
<1>5. Found' = Rest /\ file' \in Seq(TheLines) /\ Units(file') = 2 * Len(Rest)
  BY <1>4, ParsedOfLines, LinesType DEF Found
<1>6. \A i \in 1..Len(Rest) : committed + i \in 1..Len(Found) /\ committed + i > committed
  BY <1>2, <1>3, <1>4
<1>7. /\ UNCHANGED <<next, acked, glued, sent>>
      /\ faults \in Nat /\ faults' \in Nat /\ faults' >= faults
  BY <1>1 DEF LogInv, logVars
<1>8. FileInv'
  <2>1. Units(file') <= MaxBytes
    <3>1. /\ 2 * Len(Found) <= Units(file) /\ Units(file) <= MaxBytes
          /\ Units(file) \in Nat /\ MaxBytes \in Nat
      BY <1>1, FoundType, SpoolAssumption DEF FileInv
    <3>2. Len(Rest) \in Nat /\ Len(Rest) <= Len(Found)
      BY <1>2, <1>3, <1>4
    <3> QED BY <1>3, <1>5, <3>1, <3>2
  <2>2. FileSize' = Units(file') - 0
    BY DEF FileSize
  <2>3. Len(Rest) \in Nat
    BY <1>4
  <2>4. handle' = "open" => size' = FileSize'
    BY <1>5, <2>2, <2>3
  <2> QED BY <1>5, <2>1, <2>4 DEF FileInv
<1>9. OrderInv'
  <2>1. ASSUME NEW i \in 1..Len(Rest), NEW j \in 1..Len(Rest), i < j PROVE Rest[i] < Rest[j]
    <3>1. committed + i < committed + j
      BY <1>2, <1>3, <2>1
    <3>2. Found[committed + i] < Found[committed + j]
      BY <1>1, <1>6, <3>1 DEF OrderInv
    <3> QED BY <1>4, <3>2
  <2>2. ASSUME NEW i \in 1..Len(Rest) PROVE Rest[i] < next
    BY <1>1, <1>4, <1>6 DEF OrderInv
  <2> QED BY <1>5, <1>7, <2>1, <2>2 DEF OrderInv
<1>10. LogInv'
  BY <1>1, <1>7 DEF LogInv
<1>11. DrainInv'
  <2>1. drain' = "idle" /\ read' = <<>> /\ committed' = 0
    BY DEF DrainEnds
  <2>2. read' \in Seq(Records) /\ Len(read') = 0
    BY <2>1, EmptySeq
  <2>3. ASSUME NEW i \in 1..Len(Rest) PROVE sent'[Rest[i]] <= faults'
    <3>1. sent[Found[committed + i]] <= faults
      BY <1>1, <1>6 DEF DrainInv
    <3>2. sent[Found[committed + i]] \in Nat
      BY <1>1, <1>6, FoundType DEF LogInv
    <3> QED BY <1>4, <1>7, <3>1, <3>2
  <2> QED BY <1>5, <2>1, <2>2, <2>3 DEF DrainInv
<1>12. AckedIsKept'
  <2> SUFFICES ASSUME NEW r \in acked \ glued PROVE Contains(Rest, r) \/ sent[r] > 0
    BY <1>5, <1>7 DEF AckedIsKept, Found
  <2>1. Contains(Found, r) \/ sent[r] > 0
    BY <1>1 DEF AckedIsKept, Found
  <2>2. ASSUME NEW i \in 1..Len(Found), Found[i] = r PROVE Contains(Rest, r) \/ sent[r] > 0
    <3>1. CASE i <= committed
      BY <1>1, <1>2, <2>2, <3>1 DEF DrainInv
    <3>2. CASE i > committed
      <4>1. i - committed \in 1..Len(Rest) /\ committed + (i - committed) = i
        BY <1>2, <1>3, <1>4, <3>2
      <4>2. Rest[i - committed] = r
        BY <1>4, <2>2, <4>1
      <4> QED BY <4>1, <4>2 DEF Contains
    <3> QED BY <1>2, <1>3, <3>1, <3>2
  <2> QED BY <2>1, <2>2 DEF Contains
<1>13. HandedInOrder'
  BY <1>1, <1>7 DEF HandedInOrder
<1>14. RepeatsAreFaults'
  <2> SUFFICES ASSUME NEW r \in Records PROVE sent[r] <= 1 + faults'
    BY <1>7 DEF RepeatsAreFaults
  <2>1. sent[r] \in Nat /\ sent[r] <= 1 + faults
    BY <1>1 DEF LogInv, RepeatsAreFaults
  <2> QED BY <1>7, <2>1
<1> QED BY <1>8, <1>9, <1>10, <1>11, <1>12, <1>13, <1>14 DEF IInv

LEMMA RestFits ==
  ASSUME IInv, drain = "rewriting"
  PROVE  2 * Len(Rest) \in 0..MaxBytes
<1>1. read = Found /\ committed \in 0..Len(Found) /\ FileInv
  BY DEF IInv, DrainInv
<1>2. /\ Found \in Seq(Records) /\ Len(Found) \in Nat
      /\ 2 * Len(Found) <= Units(file) /\ Units(file) \in Nat
  BY <1>1, FoundType
<1>3. Len(Rest) = Len(Found) - committed
  BY <1>1, <1>2 DEF Rest
<1>4. Units(file) <= MaxBytes /\ MaxBytes \in Nat
  BY <1>1, SpoolAssumption DEF FileInv
<1> QED BY <1>1, <1>2, <1>3, <1>4

LEMMA RewriteStep == IInv /\ Rewrite => IInv'
<1> SUFFICES ASSUME IInv, Rewrite PROVE IInv'
  OBVIOUS
<1>1. drain = "rewriting" /\ file' = Lines(Rest) /\ cut' = FALSE /\ size' = 2 * Len(Rest)
      /\ handle' = "open" /\ DrainEnds /\ UNCHANGED <<logVars, faults>>
  BY DEF Rewrite
<1>2. faults \in 0..MaxFaults
  BY DEF IInv, LogInv
<1> QED BY <1>1, <1>2, RestFits, RewrittenFile

LEMMA ReopenFailsStep == IInv /\ ReopenFails => IInv'
<1> SUFFICES ASSUME IInv, ReopenFails PROVE IInv'
  OBVIOUS
<1>1. drain = "rewriting" /\ file' = Lines(Rest) /\ cut' = FALSE
      /\ handle' = "closed" /\ DrainEnds /\ UNCHANGED <<size, logVars>>
  BY DEF ReopenFails
<1>2. faults' = faults + 1 /\ faults' \in 0..MaxFaults
  BY FaultCounts DEF ReopenFails
<1>3. size \in 0..MaxBytes
  BY DEF IInv, FileInv
<1> QED BY <1>1, <1>2, <1>3, RewrittenFile

----------------------------------------------------------------------------
(***************************************************************************)
(* A batch is handed on.                                                   *)
(***************************************************************************)
BatchEnd == Min({committed + BatchSize, Len(read)})

LEMMA SmallerOfTwo ==
  ASSUME NEW a \in Nat, NEW b \in Nat
  PROVE  Min({a, b}) = IF a <= b THEN a ELSE b
<1>1. CASE a <= b
  BY <1>1 DEF Min
<1>2. CASE ~(a <= b)
  BY <1>2 DEF Min
<1> QED BY <1>1, <1>2

\* The batch: the records behind the drain's place, at least one.
LEMMA BatchType ==
  ASSUME IInv, drain = "handing", committed < Len(read)
  PROVE  /\ committed \in Nat /\ BatchEnd \in Nat
         /\ committed < BatchEnd /\ BatchEnd <= Len(Found) /\ Len(Found) \in Nat
         /\ Len(NextBatch) = BatchEnd - committed
         /\ \A r : Contains(NextBatch, r) <=> \E i \in (committed + 1)..BatchEnd : Found[i] = r
<1>1. FileInv /\ read = Found /\ committed \in 0..Len(Found)
  BY DEF IInv, DrainInv
<1>2. Found \in Seq(Records) /\ Len(Found) \in Nat
  BY <1>1, FoundType
<1>3. committed \in Nat /\ committed + BatchSize \in Nat /\ BatchSize \in Nat /\ BatchSize > 0
  BY <1>1, <1>2, SpoolAssumption
<1>4. BatchEnd = IF committed + BatchSize <= Len(Found) THEN committed + BatchSize ELSE Len(Found)
  BY <1>1, <1>2, <1>3, SmallerOfTwo DEF BatchEnd
<1>5. BatchEnd \in Nat /\ committed < BatchEnd /\ BatchEnd <= Len(Found)
  BY <1>1, <1>2, <1>3, <1>4
<1>6. NextBatch = SubSeq(Found, committed + 1, BatchEnd)
  BY <1>1 DEF NextBatch, BatchEnd
<1>7. /\ Len(NextBatch) = BatchEnd - committed
      /\ \A i \in 1..(BatchEnd - committed) : NextBatch[i] = Found[committed + i]
  BY <1>2, <1>3, <1>5, <1>6
<1>8. ASSUME NEW r
      PROVE  Contains(NextBatch, r) <=> \E i \in (committed + 1)..BatchEnd : Found[i] = r
  <2>1. ASSUME NEW i \in 1..Len(NextBatch), NextBatch[i] = r
        PROVE  \E j \in (committed + 1)..BatchEnd : Found[j] = r
    <3>1. committed + i \in (committed + 1)..BatchEnd
      BY <1>3, <1>5, <1>7
    <3>2. Found[committed + i] = r
      BY <1>7, <2>1
    <3> QED BY <3>1, <3>2
  <2>2. ASSUME NEW j \in (committed + 1)..BatchEnd, Found[j] = r
        PROVE  \E i \in 1..Len(NextBatch) : NextBatch[i] = r
    <3>1. j - committed \in 1..(BatchEnd - committed) /\ committed + (j - committed) = j
      BY <1>3, <1>5
    <3>2. NextBatch[j - committed] = r
      BY <1>7, <2>2, <3>1
    <3> QED BY <1>7, <3>1, <3>2
  <2> QED BY <2>1, <2>2 DEF Contains
<1> QED BY <1>2, <1>3, <1>5, <1>7, <1>8

\* Who accepts a batch gets those records once more, and nobody before them is
\* left out: an acknowledged record was handed on, or is in the file before them.
LEMMA AcceptStep ==
  ASSUME IInv, drain = "handing", committed < Len(read), Accept(NextBatch)
  PROVE  /\ sent' \in [Records -> Nat]
         /\ \A r \in Records : sent'[r] >= sent[r] /\ sent'[r] <= sent[r] + 1
         /\ \A r \in Records : r >= next => sent'[r] = 0
         /\ \A i \in 1..BatchEnd : sent'[Found[i]] > 0
         /\ \A i \in 1..Len(Found) : i > BatchEnd => sent'[Found[i]] = sent[Found[i]]
         /\ \A r \in Records : sent'[r] <= 1 + faults
         /\ \A q, r \in Records :
              q < r /\ sent'[r] > 0 /\ q \in acked \ glued => sent'[q] > 0
<1>1. FileInv /\ OrderInv /\ LogInv /\ DrainInv /\ AckedIsKept /\ HandedInOrder /\ RepeatsAreFaults
  BY DEF IInv
<1>2. read = Found /\ \A i \in 1..committed : sent[Found[i]] > 0
  BY <1>1 DEF DrainInv
<1>3. /\ committed \in Nat /\ BatchEnd \in Nat
      /\ committed < BatchEnd /\ BatchEnd <= Len(Found) /\ Len(Found) \in Nat
  BY BatchType
<1>4. \A r : Contains(NextBatch, r) <=> \E i \in (committed + 1)..BatchEnd : Found[i] = r
  BY BatchType
<1>5. \A i \in 1..Len(Found) : Found[i] \in Records
  BY <1>1, FoundType
<1>6. \A r \in Records : sent[r] \in Nat /\ sent[r] <= 1 + faults /\ r \in Nat
  BY <1>1, RecordsAreNumbers DEF LogInv, RepeatsAreFaults
<1>7. faults \in Nat /\ next \in Nat
  BY <1>1 DEF LogInv
<1>8. sent' = [r \in Records |-> IF Contains(NextBatch, r) THEN sent[r] + 1 ELSE sent[r]]
  BY DEF Accept
<1>9. \A r \in Records : sent'[r] = IF Contains(NextBatch, r) THEN sent[r] + 1 ELSE sent[r]
  BY <1>8
<1>10. \A r \in Records : sent'[r] \in Nat /\ sent'[r] >= sent[r] /\ sent'[r] <= sent[r] + 1
  BY <1>6, <1>9
<1>11. sent' \in [Records -> Nat]
  BY <1>8, <1>10
<1>12. ASSUME NEW i \in 1..Len(Found), i > BatchEnd PROVE sent'[Found[i]] = sent[Found[i]]
  <2>1. ASSUME NEW j \in (committed + 1)..BatchEnd PROVE Found[j] # Found[i]
    <3>1. j \in 1..Len(Found) /\ j < i
      BY <1>3, <1>12
    <3>2. Found[j] < Found[i] /\ Found[j] \in Nat /\ Found[i] \in Nat
      BY <1>1, <1>5, <1>6, <3>1 DEF OrderInv
    <3> QED BY <3>2
  <2>2. ~Contains(NextBatch, Found[i])
    BY <1>4, <2>1
  <2> QED BY <1>5, <1>9, <2>2
<1>13. ASSUME NEW i \in 1..BatchEnd PROVE sent'[Found[i]] > 0
  <2>1. i \in 1..Len(Found) /\ Found[i] \in Records
    BY <1>3, <1>5
  <2>2. CASE i <= committed
    BY <1>2, <1>3, <1>6, <1>10, <2>1, <2>2
  <2>3. CASE i > committed
    <3>1. i \in (committed + 1)..BatchEnd
      BY <1>3, <2>3
    <3>2. Contains(NextBatch, Found[i])
      BY <1>4, <3>1
    <3> QED BY <1>6, <1>9, <2>1, <3>2
  <2> QED BY <1>3, <2>2, <2>3
<1>14. ASSUME NEW r \in Records, Contains(NextBatch, r) PROVE sent[r] <= faults /\ r < next
  <2>1. PICK i \in (committed + 1)..BatchEnd : Found[i] = r
    BY <1>4, <1>14
  <2>2. i \in 1..Len(Found) /\ i > committed
    BY <1>3
  <2> QED BY <1>1, <2>1, <2>2 DEF DrainInv, OrderInv
<1>15. \A r \in Records : sent'[r] <= 1 + faults
  <2> TAKE r \in Records
  <2>1. CASE Contains(NextBatch, r)
    BY <1>6, <1>7, <1>9, <1>14, <2>1
  <2>2. CASE ~Contains(NextBatch, r)
    BY <1>6, <1>9, <2>2
  <2> QED BY <2>1, <2>2
<1>16. ASSUME NEW r \in Records, r >= next PROVE sent'[r] = 0
  <2>1. ~Contains(NextBatch, r)
    BY <1>6, <1>7, <1>14, <1>16
  <2>2. sent[r] = 0
    BY <1>1, <1>16 DEF LogInv
  <2> QED BY <1>9, <2>1, <2>2
<1>17. ASSUME NEW q \in Records, NEW r \in Records, q < r, sent'[r] > 0, q \in acked \ glued
       PROVE  sent'[q] > 0
  <2>1. CASE sent[q] > 0
    BY <1>6, <1>10, <2>1
  <2>2. CASE ~(sent[q] > 0)
    <3>1. ~(sent[r] > 0)
      BY <1>1, <1>17, <2>2 DEF HandedInOrder
    <3>2. Contains(NextBatch, r)
      BY <1>9, <1>17, <3>1
    <3>3. PICK i \in (committed + 1)..BatchEnd : Found[i] = r
      BY <1>4, <3>2
    <3>4. Contains(Found, q)
      BY <1>1, <1>17, <2>2 DEF AckedIsKept, Found
    <3>5. PICK j \in 1..Len(Found) : Found[j] = q
      BY <3>4 DEF Contains
    <3>6. i \in 1..Len(Found)
      BY <1>3
    <3>7. ~(i < j)
      <4> SUFFICES ASSUME i < j PROVE FALSE
        OBVIOUS
      <4>1. r < q
        BY <1>1, <3>3, <3>5, <3>6 DEF OrderInv
      <4> QED BY <1>6, <1>17, <4>1
    <3>8. j \in 1..BatchEnd
      BY <1>3, <3>7
    <3> QED BY <1>13, <3>5, <3>8
  <2> QED BY <2>1, <2>2
<1> QED BY <1>10, <1>11, <1>12, <1>13, <1>15, <1>16, <1>17

\* What a handed batch leaves: committed stays where it is, or goes on.
LEMMA HandedStep ==
  ASSUME IInv, drain = "handing", committed < Len(read), Accept(NextBatch),
         UNCHANGED <<fileVars, read, next, acked, glued>>,
         \/ drain' = "handing" /\ committed' = BatchEnd /\ faults' = faults
         \/ drain' = "rewriting" /\ committed' = committed /\ faults' = faults + 1,
         faults' \in 0..MaxFaults
  PROVE  IInv'
<1>1. FileInv /\ OrderInv /\ LogInv /\ DrainInv /\ AckedIsKept
  BY DEF IInv
<1>2. UNCHANGED <<file, cut, size, handle>> /\ Found' = Found /\ read = Found /\ read' = Found
  BY <1>1 DEF fileVars, Found, DrainInv
<1>3. /\ committed \in Nat /\ BatchEnd \in Nat
      /\ committed < BatchEnd /\ BatchEnd <= Len(Found) /\ Len(Found) \in Nat
  BY BatchType
<1>4. /\ sent' \in [Records -> Nat]
      /\ \A r \in Records : sent'[r] >= sent[r] /\ sent'[r] <= sent[r] + 1
      /\ \A r \in Records : r >= next => sent'[r] = 0
  BY AcceptStep
<1>5. /\ \A i \in 1..BatchEnd : sent'[Found[i]] > 0
      /\ \A i \in 1..Len(Found) : i > BatchEnd => sent'[Found[i]] = sent[Found[i]]
      /\ \A r \in Records : sent'[r] <= 1 + faults
  BY AcceptStep
<1>6. \A q, r \in Records : q < r /\ sent'[r] > 0 /\ q \in acked \ glued => sent'[q] > 0
  BY AcceptStep
<1>7. faults \in Nat /\ faults' \in Nat /\ faults' >= faults
  BY <1>1 DEF LogInv
<1>8. FileInv'
  BY <1>1, <1>2, RestingSize
<1>9. OrderInv'
  BY <1>1, <1>2 DEF OrderInv
<1>10. LogInv'
  BY <1>1, <1>4 DEF LogInv
<1>11. DrainInv'
  <2>1. \A i \in 1..Len(Found) : i > committed => sent[Found[i]] <= faults
    BY <1>1 DEF DrainInv
  <2>2. \A i \in 1..Len(Found) :
          Found[i] \in Records /\ sent[Found[i]] \in Nat /\ sent'[Found[i]] \in Nat
    BY <1>1, <1>4, FoundType DEF LogInv
  <2>3. read' \in Seq(Records) /\ committed' \in 0..Len(read')
    BY <1>1, <1>2, <1>3, FoundType
  <2>4. ASSUME NEW i \in 1..committed' PROVE sent'[read'[i]] > 0
    <3>1. i \in 1..BatchEnd
      BY <1>3
    <3> QED BY <1>2, <1>5, <3>1
  <2>5. ASSUME NEW i \in 1..Len(Found), i > committed' PROVE sent'[Found[i]] <= faults'
    <3>1. CASE committed' = BatchEnd /\ faults' = faults
      <4>1. i > BatchEnd /\ i > committed
        BY <1>3, <2>5, <3>1
      <4> QED BY <1>5, <2>1, <3>1, <4>1
    <3>2. CASE committed' = committed /\ faults' = faults + 1
      <4>1. sent[Found[i]] <= faults
        BY <2>1, <2>5, <3>2
      <4>2. sent'[Found[i]] <= sent[Found[i]] + 1
        BY <1>4, <2>2
      <4> QED BY <1>7, <2>2, <3>2, <4>1, <4>2
    <3> QED BY <3>1, <3>2
  <2> QED BY <1>2, <2>3, <2>4, <2>5 DEF DrainInv
<1>12. AckedIsKept'
  <2> SUFFICES ASSUME NEW r \in acked \ glued PROVE Contains(Found, r) \/ sent'[r] > 0
    BY <1>2 DEF AckedIsKept, Found
  <2>1. Contains(Found, r) \/ sent[r] > 0
    BY <1>1 DEF AckedIsKept, Found
  <2>2. r \in Records /\ sent[r] \in Nat /\ sent'[r] \in Nat /\ sent'[r] >= sent[r]
    BY <1>1, <1>4 DEF LogInv
  <2> QED BY <2>1, <2>2
<1>13. HandedInOrder'
  BY <1>6 DEF HandedInOrder
<1>14. RepeatsAreFaults'
  <2> SUFFICES ASSUME NEW r \in Records PROVE sent'[r] <= 1 + faults'
    BY DEF RepeatsAreFaults
  <2>1. sent'[r] <= 1 + faults /\ sent'[r] \in Nat
    BY <1>4, <1>5
  <2> QED BY <1>7, <2>1
<1> QED BY <1>8, <1>9, <1>10, <1>11, <1>12, <1>13, <1>14 DEF IInv

LEMMA HandStep == IInv /\ Hand => IInv'
<1> SUFFICES ASSUME IInv, Hand PROVE IInv'
  OBVIOUS
<1>1. drain = "handing" /\ committed < Len(read) /\ Accept(NextBatch) /\ drain' = "handing"
      /\ committed' = committed + Len(NextBatch) /\ faults' = faults
      /\ UNCHANGED <<fileVars, read, next, acked, glued>>
  BY DEF Hand
<1>2. committed' = BatchEnd
  BY <1>1, BatchType
<1>3. faults \in 0..MaxFaults
  BY DEF IInv, LogInv
<1> QED BY <1>1, <1>2, <1>3, HandedStep

LEMMA HandFailsStep == IInv /\ HandFails => IInv'
<1> SUFFICES ASSUME IInv, HandFails PROVE IInv'
  OBVIOUS
<1>1. drain = "handing" /\ committed < Len(read) /\ drain' = "rewriting" /\ committed' = committed
      /\ UNCHANGED <<fileVars, read, next, acked, glued>>
  BY DEF HandFails
<1>2. faults' = faults + 1 /\ faults' \in 0..MaxFaults
  BY FaultCounts DEF HandFails
<1>3. CASE Accept(NextBatch)
  BY <1>1, <1>2, <1>3, HandedStep
<1>4. CASE UNCHANGED sent
  <2>1. /\ UNCHANGED <<file, cut, size, handle>> /\ FileInv /\ DrainInv
        /\ faults \in Nat /\ Found' = Found
    BY <1>1 DEF fileVars, IInv, LogInv, Found
  <2>2. FileInv'
    BY <1>1, <2>1, RestingSize
  <2>3. DrainInv'
    <3>1. ASSUME NEW i \in 1..Len(Found), i > committed PROVE sent[Found[i]] <= faults'
      <4>1. sent[Found[i]] <= faults
        BY <2>1, <3>1 DEF DrainInv
      <4>2. sent[Found[i]] \in Nat
        BY FoundType DEF IInv, LogInv
      <4> QED BY <1>2, <2>1, <4>1, <4>2
    <3> QED BY <1>1, <1>4, <2>1, <3>1 DEF DrainInv
  <2> QED BY <1>1, <1>2, <1>4, <2>1, <2>2, <2>3, RestingFile DEF IInv
<1> QED BY <1>3, <1>4 DEF HandFails

----------------------------------------------------------------------------
LEMMA StutterStep == IInv /\ UNCHANGED vars => IInv'
<1> SUFFICES ASSUME IInv, UNCHANGED vars PROVE IInv'
  OBVIOUS
<1>1. UNCHANGED <<file, cut, size, handle, drainVars, next, acked, glued, sent, faults>>
  BY DEF vars, fileVars, logVars
<1>2. faults \in 0..MaxFaults /\ FileInv
  BY DEF IInv, LogInv
<1>3. FileInv'
  BY <1>1, <1>2, RestingSize
<1>4. DrainInv'
  BY <1>1, RestingDrain
<1> QED BY <1>1, <1>2, <1>3, <1>4, RestingFile DEF IInv

LEMMA NextInv == IInv /\ [Next]_vars => IInv'
BY AppendRefusedStep, AppendSucceedsStep, AppendFailsStep, DrainStartStep, HandStep,
   HandedOnStep, RewriteStep, HandFailsStep, RewriteFailsStep, ReopenFailsStep, DrainFailsStep,
   CrashStep, OpenStep, StutterStep DEF Next, DrainStep

LEMMA InvariantCorrect == Spec => []IInv
BY InitInv, NextInv, PTL DEF Spec

LEMMA IInvTypes == IInv => TypeOK
<1> SUFFICES ASSUME IInv PROVE TypeOK
  OBVIOUS
<1>1. FileInv /\ LogInv /\ DrainInv
  BY DEF IInv
<1>2. \A i \in DOMAIN file : \A j \in DOMAIN file[i] : file[i][j] \in Pieces
  <2> TAKE i \in DOMAIN file
  <2>1. file[i] \in TheLines
    BY <1>1, LenProperties, ElementOfSeq DEF FileInv
  <2>2. file[i] \in Seq(Pieces)
    BY <2>1 DEF TheLines
  <2> QED BY <2>2, LenProperties, ElementOfSeq
<1>3. \A i \in DOMAIN read : read[i] \in Records
  BY <1>1, LenProperties, ElementOfSeq DEF DrainInv
<1> QED BY <1>1, <1>2, <1>3 DEF TypeOK, Pieces, FileInv, LogInv, DrainInv

\* The spool's file holds lines of records, its size stays within the bound, and
\* the drain's place is within what it has read: Append, Drain and DrainBatch
\* with any size bound and batch size.
THEOREM TypeCorrect == Spec => []TypeOK
BY InvariantCorrect, IInvTypes, PTL

\* A record whose Append returned nil can be read back until it was handed on,
\* unless it stands behind a line that was cut: through torn writes, failed
\* rewrites and reopenings, and crashes at any point of a drain.
THEOREM AckedCorrect == Spec => []AckedIsKept
<1>1. IInv => AckedIsKept
  BY DEF IInv
<1> QED BY <1>1, InvariantCorrect, PTL

\* No record is handed on before an earlier one that can still be read.
THEOREM OrderCorrect == Spec => []HandedInOrder
<1>1. IInv => HandedInOrder
  BY DEF IInv
<1> QED BY <1>1, InvariantCorrect, PTL

\* DrainBatch hands a record on once, and once more for a failed call or a crash
\* at the most.
THEOREM RepeatsCorrect == Spec => []RepeatsAreFaults
<1>1. IInv => RepeatsAreFaults
  BY DEF IInv
<1> QED BY <1>1, InvariantCorrect, PTL
=============================================================================
