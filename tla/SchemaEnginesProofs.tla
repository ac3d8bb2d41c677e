------------------------- MODULE SchemaEnginesProofs -------------------------
(***************************************************************************)
(* Proofs about the GraphQL and Protobuf engines and their parsers, for    *)
(* every set of documents, schemas and texts and any number of releases.   *)
(*                                                                         *)
(* A fold goes by induction on the length of the sequence, a run of the    *)
(* parser by what its next turn leaves.  The engines: SafeGraphQl and      *)
(* SafeProto say without the engine what may change between two versions;  *)
(* no breaking change is reported exactly if they hold, they are           *)
(* transitive, and they are what a release means to its users.             *)
(***************************************************************************)
EXTENDS SchemaEngines, NaturalsInduction, WellFoundedInduction, SequenceTheorems,
        FiniteSetTheorems, TLAPS

\* Induction over the naturals, with a set for the property.
LEMMA Induction ==
    ASSUME NEW S, 0 \in S, \A n \in Nat : n \in S => n + 1 \in S
    PROVE  \A n \in Nat : n \in S
<1> DEFINE R == OpToRel(<, Nat)
           U == Nat \ S
<1>1. IsWellFoundedOn(R, Nat)  BY NatLessThanWellFounded
<1>2. \A x, y \in Nat : y < x => <<y, x>> \in R  BY DEF OpToRel
<1>3. \A y : y \in U <=> y \in Nat /\ y \notin S  OBVIOUS
<1> HIDE DEF R, U
<1>4. CASE U # {}
  <2>1. PICK x \in U : \A y \in U : ~ (<<y, x>> \in R)
    <3>1. U \subseteq Nat  BY <1>3
    <3>. QED  BY <1>1, <1>4, <3>1, WFMin, Zenon
  <2>2. x \in Nat /\ x \notin S  BY <2>1, <1>3
  <2>3. x # 0 /\ x - 1 \in Nat  BY <2>2
  <2>4. <<x - 1, x>> \in R  BY <2>2, <2>3, <1>2
  <2>5. x - 1 \in S  BY <2>1, <2>2, <2>3, <2>4, <1>3
  <2>. QED  BY <2>2, <2>3, <2>5
<1>. QED  BY <1>3, <1>4

\* Sets of indices have a greatest one.
LEMMA MaxIsThere ==
    ASSUME NEW n \in Nat, NEW s \in SUBSET (1 .. n), s # {}
    PROVE  Max(s) \in s /\ \A y \in s : Max(s) >= y
<1> DEFINE P(k) == \A t \in SUBSET (1 .. k) : t # {} => \E x \in t : \A y \in t : x >= y
           S == {k \in Nat : P(k)}
<1>0. \A k : k \in S <=> k \in Nat /\ P(k)  OBVIOUS
<1>1. P(0)
  <2>1. 1 .. 0 = {}  OBVIOUS
  <2>. QED  BY <2>1
<1>2. ASSUME NEW k \in Nat, P(k) PROVE P(k + 1)
  <2>1. ASSUME NEW t \in SUBSET (1 .. k + 1), t # {} PROVE \E x \in t : \A y \in t : x >= y
    <3>1. CASE k + 1 \in t  BY <3>1
    <3>2. CASE k + 1 \notin t
      <4>1. t \in SUBSET (1 .. k)  BY <3>2
      <4>. QED  BY <1>2, <2>1, <4>1
    <3>. QED  BY <3>1, <3>2
  <2>. QED  BY <2>1
<1> HIDE DEF P, S
<1>3. \A k \in Nat : k \in S  BY <1>0, <1>1, <1>2, Induction
<1>4. P(n)  BY <1>0, <1>3
<1>5. \E x \in s : \A y \in s : x >= y  BY <1>4 DEF P
<1>. QED  BY <1>5 DEF Max

\* From 0 up to a bound.
LEMMA BoundedInduction ==
    ASSUME NEW N \in Nat, NEW S, 0 \in S, \A n \in 1 .. N : n - 1 \in S => n \in S
    PROVE  \A n \in 0 .. N : n \in S
<1> DEFINE T == {n \in Nat : n <= N => n \in S}
<1>0. \A n : n \in T <=> n \in Nat /\ (n <= N => n \in S)  OBVIOUS
<1> HIDE DEF T
<1>1. 0 \in T  BY <1>0
<1>2. ASSUME NEW n \in Nat, n \in T PROVE n + 1 \in T
  <2>1. CASE n + 1 <= N
    <3>1. n \in S  BY <1>0, <1>2, <2>1
    <3>2. n + 1 \in 1 .. N /\ (n + 1) - 1 = n  BY <2>1
    <3>3. n + 1 \in S  BY <3>1, <3>2
    <3>. QED  BY <1>0, <3>3
  <2>2. CASE ~(n + 1 <= N)  BY <1>0, <2>2
  <2>. QED  BY <2>1, <2>2
<1>3. \A n \in Nat : n \in T  BY <1>1, <1>2, Induction
<1>. QED  BY <1>0, <1>3

\* What f makes of a set of indices: start, and then g of each in turn.
IsFold(f, n, start, g) ==
    \A s \in SUBSET (1 .. n) : f[s] = IF s = {} THEN start ELSE g[Max(s)][f[s \ {Max(s)}]]

\* The equation that defines a fold has a solution.
LEMMA FoldExists ==
    ASSUME NEW X, NEW start \in X, NEW N \in Nat, NEW g \in [1 .. N -> [X -> X]]
    PROVE  \E f \in [SUBSET (1 .. N) -> X] : IsFold(f, N, start, g)
<1> DEFINE P(n) == n <= N => \E f \in [SUBSET (1 .. n) -> X] : IsFold(f, n, start, g)
           S == {n \in Nat : P(n)}
<1>0. \A n : n \in S <=> n \in Nat /\ P(n)  OBVIOUS
<1>1. P(0)
  <2> DEFINE f == [s \in SUBSET (1 .. 0) |-> start]
  <2>1. SUBSET (1 .. 0) = {{}}  OBVIOUS
  <2>2. f \in [SUBSET (1 .. 0) -> X] /\ \A s \in SUBSET (1 .. 0) : s = {} /\ f[s] = start
    BY <2>1
  <2>. QED  BY <2>2 DEF IsFold
<1>2. ASSUME NEW n \in Nat, P(n) PROVE P(n + 1)
  <2> SUFFICES ASSUME n + 1 <= N
               PROVE  \E f \in [SUBSET (1 .. n + 1) -> X] : IsFold(f, n + 1, start, g)
    OBVIOUS
  <2>0. n <= N /\ n + 1 \in Nat  OBVIOUS
  <2>1. PICK h \in [SUBSET (1 .. n) -> X] : IsFold(h, n, start, g)  BY <1>2, <2>0
  <2> DEFINE f == [s \in SUBSET (1 .. n + 1) |->
                     IF n + 1 \in s THEN g[n + 1][h[s \ {n + 1}]] ELSE h[s]]
  <2>2. ASSUME NEW s \in SUBSET (1 .. n + 1), n + 1 \in s
        PROVE  s \ {n + 1} \in SUBSET (1 .. n) /\ Max(s) = n + 1
    <3>1. Max(s) \in s /\ \A y \in s : Max(s) >= y  BY <2>0, <2>2, MaxIsThere
    <3>2. Max(s) = n + 1
      <4>1. Max(s) \in 1 .. n + 1 /\ Max(s) >= n + 1  BY <2>2, <3>1
      <4>. QED  BY <4>1
    <3>3. s \ {n + 1} \subseteq 1 .. n  OBVIOUS
    <3>. QED  BY <3>2, <3>3
  <2>3. ASSUME NEW s \in SUBSET (1 .. n + 1), n + 1 \notin s
        PROVE  s \in SUBSET (1 .. n)
    BY <2>3
  <2>4. f \in [SUBSET (1 .. n + 1) -> X]
    <3>1. ASSUME NEW s \in SUBSET (1 .. n + 1) PROVE f[s] \in X
      <4>1. CASE n + 1 \in s
        <5>1. h[s \ {n + 1}] \in X /\ n + 1 \in 1 .. N  BY <2>2, <4>1
        <5>2. g[n + 1][h[s \ {n + 1}]] \in X  BY <5>1
        <5>. QED  BY <4>1, <5>2
      <4>2. CASE n + 1 \notin s  BY <2>3, <4>2
      <4>. QED  BY <4>1, <4>2
    <3>. QED  BY <3>1
  <2>5. ASSUME NEW s \in SUBSET (1 .. n + 1)
        PROVE  f[s] = IF s = {} THEN start ELSE g[Max(s)][f[s \ {Max(s)}]]
    <3>1. CASE n + 1 \in s
      <4>1. f[s] = g[n + 1][h[s \ {n + 1}]]  BY <3>1
      <4>2. s \ {n + 1} \in SUBSET (1 .. n + 1) /\ n + 1 \notin s \ {n + 1}  OBVIOUS
      <4>3. f[s \ {n + 1}] = h[s \ {n + 1}]  BY <4>2
      <4> HIDE DEF f
      <4>. QED  BY <2>2, <3>1, <4>1, <4>3
    <3>2. CASE n + 1 \notin s
      <4>1. s \in SUBSET (1 .. n) /\ f[s] = h[s]  BY <2>3, <3>2
      <4>2. h[s] = IF s = {} THEN start ELSE g[Max(s)][h[s \ {Max(s)}]]  BY <2>1, <4>1 DEF IsFold
      <4>3. s \ {Max(s)} \in SUBSET (1 .. n + 1) /\ n + 1 \notin s \ {Max(s)}  BY <3>2
      <4>4. f[s \ {Max(s)}] = h[s \ {Max(s)}]  BY <4>3
      <4>. QED  BY <4>1, <4>2, <4>4
    <3>. QED  BY <3>1, <3>2
  <2> HIDE DEF f
  <2>. QED  BY <2>4, <2>5 DEF IsFold
<1> HIDE DEF P, S
<1>a. 0 \in S  BY <1>0, <1>1
<1>b. \A n \in Nat : n \in S => n + 1 \in S  BY <1>0, <1>2
<1>3. \A n \in Nat : n \in S  BY <1>a, <1>b, Induction
<1>4. P(N)  BY <1>0, <1>3
<1>5. N <= N  OBVIOUS
<1>. QED  BY <1>4, <1>5, Zenon DEF P

\* A fold takes the last index off, one at a time.
LEMMA LastOfPrefix ==
    ASSUME NEW n \in Nat, n >= 1
    PROVE  Max(1 .. n) = n /\ (1 .. n) \ {n} = 1 .. n - 1 /\ 1 .. n # {}
<1>1. (1 .. n) \in SUBSET (1 .. n) /\ (1 .. n) # {} /\ n \in 1 .. n  OBVIOUS
<1>2. Max(1 .. n) \in 1 .. n /\ \A y \in 1 .. n : Max(1 .. n) >= y  BY <1>1, MaxIsThere
<1>. QED  BY <1>1, <1>2

-----------------------------------------------------------------------------
Modes == {"text", "slash", "line", "block", "star"}
Strips(C) == [mode : Modes, out : Seq(C)]
StripStart == [mode |-> "text", out |-> <<>>]

\* One character, mode by mode.
LEMMA StripCases ==
    ASSUME NEW s, NEW c
    PROVE  /\ s.mode = "text" =>
                StripChar(s, c) = IF c = "/" THEN [s EXCEPT !.mode = "slash"] ELSE [s EXCEPT !.out = Append(@, c)]
           /\ s.mode = "slash" =>
                StripChar(s, c) = [mode |-> AfterSlash(c),
                                   out |-> IF AfterSlash(c) = "text" THEN s.out \o <<"/", c>> ELSE s.out]
           /\ s.mode = "line" =>
                StripChar(s, c) = IF c = "nl" THEN [mode |-> "text", out |-> Append(s.out, c)] ELSE s
           /\ s.mode = "block" =>
                StripChar(s, c) = [mode |-> IF c = "*" THEN "star" ELSE "block", out |-> s.out \o KeptInBlock(c)]
           /\ s.mode = "star" =>
                StripChar(s, c) = [mode |-> AfterStar(c), out |-> s.out \o KeptInBlock(c)]
<1>1. "text" # "slash" /\ "text" # "line" /\ "text" # "block" /\ "text" # "star"  OBVIOUS
<1>2. "slash" # "line" /\ "slash" # "block" /\ "slash" # "star"  OBVIOUS
<1>3. "line" # "block" /\ "line" # "star" /\ "block" # "star"  OBVIOUS
<1>. QED  BY <1>1, <1>2, <1>3, Zenon DEF StripChar

\* The scanner stays in its modes and puts out what it read.
LEMMA StripType ==
    ASSUME NEW C, "/" \in C, "nl" \in C, NEW s \in Strips(C), NEW c \in C
    PROVE  StripChar(s, c) \in Strips(C)
<1>0. s.mode \in Modes /\ s.out \in Seq(C) /\ s = [mode |-> s.mode, out |-> s.out]  BY DEF Strips
<1>1. KeptInBlock(c) \in Seq(C)  BY DEF KeptInBlock
<1>2. AfterStar(c) \in Modes /\ AfterSlash(c) \in Modes  BY DEF AfterStar, AfterSlash, Modes
<1>3. <<"/", c>> \in Seq(C)  OBVIOUS
<1>4. CASE s.mode = "text"
  <2>1. StripChar(s, c) = IF c = "/" THEN [s EXCEPT !.mode = "slash"] ELSE [s EXCEPT !.out = Append(@, c)]
    BY <1>4, StripCases, Zenon
  <2>2. [mode |-> "slash", out |-> s.out] \in Strips(C)  BY <1>0 DEF Strips, Modes
  <2>3. [mode |-> s.mode, out |-> Append(s.out, c)] \in Strips(C)  BY <1>0 DEF Strips
  <2>4. [s EXCEPT !.mode = "slash"] = [mode |-> "slash", out |-> s.out]  BY <1>0
  <2>5. [s EXCEPT !.out = Append(@, c)] = [mode |-> s.mode, out |-> Append(s.out, c)]  BY <1>0
  <2>. QED  BY <2>1, <2>2, <2>3, <2>4, <2>5
<1>5. CASE s.mode = "slash"
  <2>1. StripChar(s, c) = [mode |-> AfterSlash(c),
                           out |-> IF AfterSlash(c) = "text" THEN s.out \o <<"/", c>> ELSE s.out]
    BY <1>5, StripCases, Zenon
  <2>. QED  BY <1>0, <1>2, <1>3, <2>1 DEF Strips
<1>6. CASE s.mode = "line"
  <2>1. StripChar(s, c) = IF c = "nl" THEN [mode |-> "text", out |-> Append(s.out, c)] ELSE s
    BY <1>6, StripCases, Zenon
  <2>. QED  BY <1>0, <2>1 DEF Strips, Modes
<1>7. CASE s.mode = "block"
  <2>1. StripChar(s, c) = [mode |-> IF c = "*" THEN "star" ELSE "block", out |-> s.out \o KeptInBlock(c)]
    BY <1>7, StripCases, Zenon
  <2>. QED  BY <1>0, <1>1, <2>1 DEF Strips, Modes
<1>8. CASE s.mode = "star"
  <2>1. StripChar(s, c) = [mode |-> AfterStar(c), out |-> s.out \o KeptInBlock(c)]
    BY <1>8, StripCases, Zenon
  <2>. QED  BY <1>0, <1>1, <1>2, <2>1 DEF Strips
<1>. QED  BY <1>0, <1>4, <1>5, <1>6, <1>7, <1>8 DEF Modes

\* The states the scanner goes through, from the first to the last.
LEMMA StripFold ==
    ASSUME NEW C, "/" \in C, "nl" \in C, NEW chars \in Seq(C)
    PROVE  \E at \in [0 .. Len(chars) -> Strips(C)] :
              /\ at[0] = StripStart
              /\ \A n \in 1 .. Len(chars) : at[n] = StripChar(at[n - 1], chars[n])
              /\ at[Len(chars)] = FoldLeft(StripChar, StripStart, chars)
<1> DEFINE X == Strips(C)
           N == Len(chars)
           D == DOMAIN chars
           g == [n \in 1 .. N |-> [s \in X |-> StripChar(s, chars[n])]]
           IsIt(iter) == iter = [s \in SUBSET D |->
                            IF s = {} THEN StripStart ELSE StripChar(iter[s \ {Max(s)}], chars[Max(s)])]
           I == CHOOSE iter : IsIt(iter)
           at == [n \in 0 .. N |-> I[1 .. n]]
<1>0. D = 1 .. N /\ N \in Nat  BY LenProperties
<1>1. FoldLeft(StripChar, StripStart, chars) = I[D]
  <2> HIDE DEF StripStart
  <2>. QED BY Zenon DEF FoldLeft, MapThenFoldSet
<1>2. \E iter : IsIt(iter)
  <2>1. StripStart \in X  BY DEF StripStart, Strips, Modes
  <2>2. \A n \in 1 .. N : [s \in X |-> StripChar(s, chars[n])] \in [X -> X]
    <3>1. \A n \in 1 .. N : chars[n] \in C  BY ElementOfSeq
    <3>. QED  BY <3>1, StripType
  <2>3. g \in [1 .. N -> [X -> X]]  BY <2>2
  <2>4. \A n \in 1 .. N : \A x \in X : g[n][x] = StripChar(x, chars[n])  OBVIOUS
  <2> HIDE DEF g, X, N, D
  <2>5. PICK f \in [SUBSET (1 .. N) -> X] : IsFold(f, N, StripStart, g)  BY <1>0, <2>1, <2>3, FoldExists
  <2>6. ASSUME NEW s \in SUBSET D
        PROVE  f[s] = IF s = {} THEN StripStart ELSE StripChar(f[s \ {Max(s)}], chars[Max(s)])
    <3>1. f[s] = IF s = {} THEN StripStart ELSE g[Max(s)][f[s \ {Max(s)}]]  BY <1>0, <2>5, <2>6 DEF IsFold
    <3>2. CASE s # {}
      <4>1. Max(s) \in s  BY <1>0, <3>2, MaxIsThere
      <4>2. f[s \ {Max(s)}] \in X /\ Max(s) \in 1 .. N  BY <1>0, <2>5, <4>1
      <4>. QED  BY <2>4, <3>1, <3>2, <4>2
    <3>. QED  BY <3>1, <3>2
  <2>7. IsIt(f)  BY <1>0, <2>5, <2>6, Zenon
  <2>. QED  BY <2>7
<1> HIDE DEF I, g, X, N, D
<1>3. IsIt(I)  BY <1>2 DEF I
<1>4. I[1 .. 0] = StripStart
  <2>1. 1 .. 0 \in SUBSET D /\ 1 .. 0 = {}  OBVIOUS
  <2>. QED  BY <1>3, <2>1
<1>n. \A n \in 1 .. N : n \in Nat /\ n >= 1  BY <1>0
<1>5. ASSUME NEW n \in 1 .. N PROVE I[1 .. n] = StripChar(I[1 .. n - 1], chars[n])
  <2>1. Max(1 .. n) = n /\ (1 .. n) \ {n} = 1 .. n - 1 /\ 1 .. n # {}  BY <1>n, LastOfPrefix
  <2>2. 1 .. n \in SUBSET D  BY <1>0
  <2>3. I[1 .. n] = StripChar(I[(1 .. n) \ {Max(1 .. n)}], chars[Max(1 .. n)])  BY <1>3, <2>1, <2>2
  <2>. QED  BY <2>1, <2>3
<1>6. at[0] = StripStart /\ at[N] = I[D]  BY <1>0, <1>4
<1>7. \A n \in 1 .. N : at[n] = StripChar(at[n - 1], chars[n])  BY <1>0, <1>5
<1> HIDE DEF at
<1>8. \A n \in 0 .. N : at[n] \in X
  <2> DEFINE S == {n \in 0 .. N : at[n] \in X}
  <2>0. \A n : n \in S <=> n \in 0 .. N /\ at[n] \in X  OBVIOUS
  <2>a. StripStart \in X  BY DEF StripStart, X, Strips, Modes
  <2>b. 0 \in 0 .. N  BY <1>0
  <2>1. 0 \in S  BY <1>6, <2>a, <2>b
  <2>2. ASSUME NEW n \in 1 .. N, n - 1 \in S PROVE n \in S
    <3>1. chars[n] \in C /\ at[n - 1] \in X  BY <2>2, ElementOfSeq DEF N
    <3>2. at[n] \in X  BY <1>7, <3>1, StripType DEF X
    <3>. QED  BY <1>0, <3>2
  <2> HIDE DEF S
  <2>3. \A n \in 0 .. N : n \in S  BY <1>0, <2>1, <2>2, BoundedInduction
  <2>. QED  BY <2>0, <2>3
<1>9. at \in [0 .. N -> X]  BY <1>8 DEF at
<1>. QED  BY <1>1, <1>6, <1>7, <1>9 DEF X, N

-----------------------------------------------------------------------------
\* What one character adds to the text that is kept.
LEMMA StripOut ==
    ASSUME NEW C, "/" \in C, "nl" \in C, NEW s \in Strips(C), NEW c \in C
    PROVE  LET out == StripChar(s, c).out IN
           \/ out = s.out /\ c # "nl"
           \/ out = Append(s.out, c) /\ c # "/"
           \/ out = Append(Append(s.out, "/"), c) /\ c \notin {"/", "*"}
<1> DEFINE out == StripChar(s, c).out
<1>0. s.mode \in Modes /\ s.out \in Seq(C)  BY DEF Strips
<1>1. s.out \o KeptInBlock(c) = IF c = "nl" THEN Append(s.out, c) ELSE s.out
  <2>1. CASE c = "nl"  BY <1>0, <2>1 DEF KeptInBlock
  <2>2. CASE c # "nl"  BY <1>0, <2>2 DEF KeptInBlock
  <2>. QED  BY <2>1, <2>2
<1>2. s.out \o <<"/", c>> = Append(Append(s.out, "/"), c)  BY <1>0
<1>3. AfterSlash(c) = "text" <=> c \notin {"/", "*"}  BY DEF AfterSlash
<1>4. CASE s.mode = "text"
  <2>1. StripChar(s, c) = IF c = "/" THEN [s EXCEPT !.mode = "slash"] ELSE [s EXCEPT !.out = Append(@, c)]
    BY <1>4, StripCases, Zenon
  <2>. QED  BY <1>0, <2>1 DEF Strips
<1>5. CASE s.mode = "slash"
  <2>1. StripChar(s, c) = [mode |-> AfterSlash(c),
                           out |-> IF AfterSlash(c) = "text" THEN s.out \o <<"/", c>> ELSE s.out]
    BY <1>5, StripCases, Zenon
  <2>2. out = IF AfterSlash(c) = "text" THEN s.out \o <<"/", c>> ELSE s.out  BY <2>1
  <2>. QED  BY <1>2, <1>3, <2>2
<1>6. CASE s.mode = "line"
  <2>1. StripChar(s, c) = IF c = "nl" THEN [mode |-> "text", out |-> Append(s.out, c)] ELSE s
    BY <1>6, StripCases, Zenon
  <2>. QED  BY <1>0, <2>1
<1>7. CASE s.mode = "block"
  <2>1. StripChar(s, c) = [mode |-> IF c = "*" THEN "star" ELSE "block", out |-> s.out \o KeptInBlock(c)]
    BY <1>7, StripCases, Zenon
  <2>2. out = s.out \o KeptInBlock(c)  BY <2>1
  <2>. QED  BY <1>1, <2>2
<1>8. CASE s.mode = "star"
  <2>1. StripChar(s, c) = [mode |-> AfterStar(c), out |-> s.out \o KeptInBlock(c)]
    BY <1>8, StripCases, Zenon
  <2>2. out = s.out \o KeptInBlock(c)  BY <2>1
  <2>. QED  BY <1>1, <2>2
<1>. QED  BY <1>0, <1>4, <1>5, <1>6, <1>7, <1>8 DEF Modes

\* No comment starts in s, nor would one with the next character.
Clean(s) == \A i \in 1 .. Len(s) : s[i] = "/" => i < Len(s) /\ s[i + 1] \notin {"/", "*"}

\* A text stays clean when it grows by what is no slash, or by a slash that
\* something ordinary follows.
LEMMA CleanAppend ==
    ASSUME NEW C, NEW s \in Seq(C), Clean(s), NEW c \in C
    PROVE  /\ c # "/" => Clean(Append(s, c))
           /\ "/" \in C /\ c \notin {"/", "*"} => Clean(Append(Append(s, "/"), c))
<1>1. ASSUME c # "/" PROVE Clean(Append(s, c))
  <2>1. Len(Append(s, c)) = Len(s) + 1 /\ \A i \in 1 .. Len(s) : Append(s, c)[i] = s[i]  OBVIOUS
  <2>2. Append(s, c)[Len(s) + 1] = c  OBVIOUS
  <2>. QED  BY <1>1, <2>1, <2>2 DEF Clean
<1>2. ASSUME "/" \in C, c \notin {"/", "*"} PROVE Clean(Append(Append(s, "/"), c))
  <2> DEFINE t == Append(Append(s, "/"), c)
             n == Len(s)
  <2>1. n \in Nat /\ Len(t) = n + 2 /\ \A i \in 1 .. n : t[i] = s[i]  OBVIOUS
  <2>2. t[n + 1] = "/" /\ t[n + 2] = c  OBVIOUS
  <2>3. \A i \in 1 .. n : s[i] = "/" => i < n /\ s[i + 1] \notin {"/", "*"}  BY DEF Clean
  <2> HIDE DEF t, n
  <2>4. ASSUME NEW i \in 1 .. Len(t), t[i] = "/" PROVE i < Len(t) /\ t[i + 1] \notin {"/", "*"}
    <3>1. CASE i \in 1 .. n
      <4>1. i < n /\ s[i + 1] \notin {"/", "*"}  BY <2>1, <2>3, <2>4, <3>1
      <4>2. i + 1 \in 1 .. n  BY <2>1, <3>1, <4>1
      <4>. QED  BY <2>1, <4>1, <4>2
    <3>2. CASE i = n + 1
      <4>1. i + 1 = n + 2 /\ i < Len(t)  BY <2>1, <3>2
      <4>. QED  BY <1>2, <2>2, <4>1
    <3>3. CASE i = n + 2  BY <1>2, <2>2, <2>4, <3>3
    <3>. QED  BY <2>1, <3>1, <3>2, <3>3
  <2>. QED  BY <2>4 DEF Clean, t
<1>. QED  BY <1>1, <1>2

\* A line break counts one, any other character nothing.
LEMMA LineBreaksOfAppend ==
    ASSUME NEW C, NEW s \in Seq(C), NEW c \in C
    PROVE  /\ IsFiniteSet(LineBreaks(s)) /\ Cardinality(LineBreaks(s)) \in Nat
           /\ Cardinality(LineBreaks(Append(s, c))) =
                Cardinality(LineBreaks(s)) + (IF c = "nl" THEN 1 ELSE 0)
<1>0. Len(s) \in Nat /\ DOMAIN s = 1 .. Len(s)  BY LenProperties
<1>1. IsFiniteSet(LineBreaks(s))
  <2>1. IsFiniteSet(1 .. Len(s))  BY <1>0, FS_Interval
  <2>2. LineBreaks(s) \in SUBSET (1 .. Len(s))  BY <1>0 DEF LineBreaks
  <2>. QED  BY <2>1, <2>2, FS_Subset
<1>2. Cardinality(LineBreaks(s)) \in Nat  BY <1>1, FS_CardinalityType
<1>3. Append(s, c) \in Seq(C) /\ DOMAIN Append(s, c) = 1 .. Len(s) + 1 /\ Append(s, c)[Len(s) + 1] = c
      /\ \A i \in 1 .. Len(s) : Append(s, c)[i] = s[i]  BY AppendProperties
<1>4. CASE c = "nl"
  <2>1. LineBreaks(Append(s, c)) = LineBreaks(s) \cup {Len(s) + 1}
    <3>1. ASSUME NEW i
          PROVE  i \in LineBreaks(Append(s, c)) <=> i \in LineBreaks(s) \cup {Len(s) + 1}
      <4>1. CASE i \in 1 .. Len(s)
        <5>1. i # Len(s) + 1 /\ i \in 1 .. Len(s) + 1  BY <1>0, <4>1
        <5>. QED  BY <1>0, <1>3, <4>1, <5>1 DEF LineBreaks
      <4>2. CASE i = Len(s) + 1
        <5>1. i \in 1 .. Len(s) + 1  BY <1>0, <4>2
        <5>. QED  BY <1>3, <1>4, <4>2, <5>1 DEF LineBreaks
      <4>3. CASE i \notin 1 .. Len(s) /\ i # Len(s) + 1
        <5>1. i \notin 1 .. Len(s) + 1  BY <1>0, <4>3
        <5>. QED  BY <1>0, <1>3, <4>3, <5>1 DEF LineBreaks
      <4>. QED  BY <4>1, <4>2, <4>3
    <3>. QED  BY <3>1
  <2>2. Len(s) + 1 \notin LineBreaks(s)  BY <1>0 DEF LineBreaks
  <2>3. Cardinality(LineBreaks(Append(s, c))) = Cardinality(LineBreaks(s)) + 1  BY <1>1, <2>1, <2>2, FS_AddElement
  <2>. QED  BY <1>1, <1>2, <1>4, <2>3
<1>5. CASE c # "nl"
  <2>1. ASSUME NEW i
        PROVE  i \in LineBreaks(Append(s, c)) <=> i \in LineBreaks(s)
    <3>1. CASE i \in 1 .. Len(s)
      <4>1. i \in 1 .. Len(s) + 1  BY <1>0, <3>1
      <4>. QED  BY <1>0, <1>3, <3>1, <4>1 DEF LineBreaks
    <3>2. CASE i \notin 1 .. Len(s)
      <4>1. i \in 1 .. Len(s) + 1 => i = Len(s) + 1  BY <1>0, <3>2
      <4>. QED  BY <1>0, <1>3, <1>5, <3>2, <4>1 DEF LineBreaks
    <3>. QED  BY <3>1, <3>2
  <2>2. LineBreaks(Append(s, c)) = LineBreaks(s)  BY <2>1 DEF LineBreaks
  <2>. QED  BY <1>1, <1>2, <1>5, <2>2
<1>. QED  BY <1>4, <1>5

\* Stripping leaves no comment and every line break, for any text.
LEMMA StripKeeps ==
    ASSUME NEW C, "/" \in C, "nl" \in C, NEW chars \in Seq(C)
    PROVE  LET s == StripComments(chars) IN
           /\ s \in Seq(C)
           /\ \A i \in 1 .. Len(s) - 1 : ~(s[i] = "/" /\ s[i + 1] \in {"/", "*"})
           /\ Cardinality(LineBreaks(s)) = Cardinality(LineBreaks(chars))
<1> DEFINE N == Len(chars)
           prefix(n) == SubSeq(chars, 1, n)
<1>0. N \in Nat  BY LenProperties
<1>1. PICK at \in [0 .. N -> Strips(C)] :
         /\ at[0] = StripStart
         /\ \A n \in 1 .. N : at[n] = StripChar(at[n - 1], chars[n])
         /\ at[N] = FoldLeft(StripChar, StripStart, chars)
  BY StripFold
<1>2. ASSUME NEW n \in 1 .. N
      PROVE  /\ chars[n] \in C /\ prefix(n - 1) \in Seq(C)
             /\ prefix(n) = Append(prefix(n - 1), chars[n])
  <2>1. \A i \in 1 .. N : chars[i] \in C  BY ElementOfSeq
  <2>. QED  BY <1>0, <2>1
<1> DEFINE Good(n) == /\ Clean(at[n].out)
                      /\ Cardinality(LineBreaks(at[n].out)) = Cardinality(LineBreaks(prefix(n)))
           S == {n \in 0 .. N : Good(n)}
<1>3. \A n : n \in S <=> n \in 0 .. N /\ Good(n)  OBVIOUS
<1>4. 0 \in S
  <2>1. at[0].out = <<>>  BY <1>1 DEF StripStart
  <2>2. prefix(0) = <<>>  OBVIOUS
  <2>3. Clean(<<>>)  BY DEF Clean
  <2>. QED  BY <1>0, <2>1, <2>2, <2>3
<1>5. ASSUME NEW n \in 1 .. N, n - 1 \in S PROVE n \in S
  <2> DEFINE o == at[n - 1].out
             c == chars[n]
  <2>1. at[n - 1] \in Strips(C) /\ c \in C /\ at[n] = StripChar(at[n - 1], c)  BY <1>0, <1>1, <1>2
  <2>2. o \in Seq(C)  BY <2>1 DEF Strips
  <2>3. Good(n - 1)  BY <1>3, <1>5
  <2>4. Clean(o)  BY <2>3
  <2>5. Cardinality(LineBreaks(o)) = Cardinality(LineBreaks(prefix(n - 1)))  BY <2>3
  <2>6. Cardinality(LineBreaks(prefix(n))) = Cardinality(LineBreaks(prefix(n - 1))) + (IF c = "nl" THEN 1 ELSE 0)
    <3>1. prefix(n) = Append(prefix(n - 1), c) /\ prefix(n - 1) \in Seq(C)  BY <1>2
    <3> HIDE DEF prefix, c
    <3>. QED  BY <2>1, <3>1, LineBreaksOfAppend
  <2>7. \/ at[n].out = o /\ c # "nl"
        \/ at[n].out = Append(o, c) /\ c # "/"
        \/ at[n].out = Append(Append(o, "/"), c) /\ c \notin {"/", "*"}
    <3> DEFINE before == at[n - 1]
    <3>1. before \in Strips(C) /\ at[n] = StripChar(before, c) /\ o = before.out  BY <2>1
    <3> HIDE DEF before, o, c
    <3>. QED  BY <2>1, <3>1, StripOut
  <2> HIDE DEF o, c, prefix
  <2>8. Cardinality(LineBreaks(Append(o, c))) = Cardinality(LineBreaks(o)) + (IF c = "nl" THEN 1 ELSE 0)
    BY <2>1, <2>2, LineBreaksOfAppend
  <2>9. Cardinality(LineBreaks(Append(Append(o, "/"), c))) = Cardinality(LineBreaks(o)) + (IF c = "nl" THEN 1 ELSE 0)
    <3>1. Cardinality(LineBreaks(Append(o, "/"))) = Cardinality(LineBreaks(o)) + 0  BY <2>2, LineBreaksOfAppend
    <3>2. Append(o, "/") \in Seq(C)  BY <2>2
    <3>3. Cardinality(LineBreaks(o)) \in Nat  BY <2>1, <2>2, LineBreaksOfAppend
    <3>4. Cardinality(LineBreaks(Append(Append(o, "/"), c)))
            = Cardinality(LineBreaks(Append(o, "/"))) + (IF c = "nl" THEN 1 ELSE 0)
      BY <2>1, <3>2, LineBreaksOfAppend
    <3>. QED  BY <3>1, <3>3, <3>4
  <2>10. Cardinality(LineBreaks(o)) \in Nat  BY <2>1, <2>2, LineBreaksOfAppend
  <2>11. Cardinality(LineBreaks(at[n].out)) = Cardinality(LineBreaks(prefix(n)))
    <3>1. CASE at[n].out = o /\ c # "nl"  BY <2>5, <2>6, <2>10, <3>1
    <3>2. CASE at[n].out = Append(o, c)  BY <2>5, <2>6, <2>8, <3>2
    <3>3. CASE at[n].out = Append(Append(o, "/"), c)  BY <2>5, <2>6, <2>9, <3>3
    <3>. QED  BY <2>7, <3>1, <3>2, <3>3
  <2>12. Clean(at[n].out)
    <3>1. CASE at[n].out = o  BY <2>4, <3>1
    <3>2. CASE at[n].out = Append(o, c) /\ c # "/"  BY <2>1, <2>2, <2>4, <3>2, CleanAppend
    <3>3. CASE at[n].out = Append(Append(o, "/"), c) /\ c \notin {"/", "*"}
      BY <2>1, <2>2, <2>4, <3>3, CleanAppend
    <3>. QED  BY <2>7, <3>1, <3>2, <3>3
  <2>13. Good(n)  BY <2>11, <2>12
  <2>14. n \in 0 .. N  BY <1>0
  <2>. QED  BY <1>3, <2>13, <2>14
<1> HIDE DEF S, Good, prefix
<1>6. \A n \in 0 .. N : n \in S  BY <1>0, <1>4, <1>5, BoundedInduction
<1>7. Good(N)  BY <1>0, <1>3, <1>6
<1> DEFINE o == at[N].out
<1>8. prefix(N) = chars  BY SubSeqFull DEF prefix
<1>9. Clean(o) /\ Cardinality(LineBreaks(o)) = Cardinality(LineBreaks(chars))  BY <1>7, <1>8 DEF Good
<1>10. o \in Seq(C)  BY <1>0, <1>1 DEF Strips
<1>11. StripComments(chars) = IF at[N].mode = "slash" THEN Append(o, "/") ELSE o
  BY <1>1 DEF StripComments, StripStart
<1> HIDE DEF o, N
<1>12. CASE StripComments(chars) = o
  BY <1>9, <1>10, <1>12 DEF Clean
<1>13. CASE StripComments(chars) = Append(o, "/")
  <2>1. Cardinality(LineBreaks(Append(o, "/"))) = Cardinality(LineBreaks(o)) + 0  BY <1>10, LineBreaksOfAppend
  <2>2. Cardinality(LineBreaks(o)) \in Nat  BY <1>10, LineBreaksOfAppend
  <2>3. Append(o, "/") \in Seq(C) /\ Len(Append(o, "/")) = Len(o) + 1  BY <1>10
  <2>4. \A i \in 1 .. Len(o) : Append(o, "/")[i] = o[i]  BY <1>10
  <2>5. \A i \in 1 .. Len(o) : o[i] = "/" => i + 1 \in 1 .. Len(o) /\ o[i + 1] \notin {"/", "*"}
    BY <1>9, <1>10 DEF Clean
  <2>6. (Len(o) + 1) - 1 = Len(o)  BY <1>10
  <2>. QED  BY <1>9, <1>13, <2>1, <2>2, <2>3, <2>4, <2>5, <2>6
<1>. QED  BY <1>11, <1>12, <1>13

-----------------------------------------------------------------------------
\* A set of naturals that is not empty has a least one.
LEMMA LeastIsThere ==
    ASSUME NEW s \in SUBSET Nat, s # {}
    PROVE  LET least == CHOOSE i \in s : \A j \in s : i <= j
           IN  least \in s /\ \A j \in s : least <= j
<1> DEFINE R == OpToRel(<, Nat)
<1>1. IsWellFoundedOn(R, Nat)  BY NatLessThanWellFounded
<1>2. \A x, y \in Nat : y < x => <<y, x>> \in R  BY DEF OpToRel
<1> HIDE DEF R
<1>3. PICK x \in s : \A y \in s : ~ (<<y, x>> \in R)  BY <1>1, WFMin, Zenon
<1>4. \A j \in s : ~(j < x)  BY <1>2, <1>3
<1>5. \A j \in s : x <= j  BY <1>4
<1>. QED  BY <1>5

\* What is left after the first n tokens.
LEMMA FromProperties ==
    ASSUME NEW S, NEW s \in Seq(S), NEW n \in Nat
    PROVE  /\ From(s, n) \in Seq(S)
           /\ Len(From(s, n)) = IF n <= Len(s) THEN Len(s) - n ELSE 0
           /\ \A i \in 1 .. Len(From(s, n)) : From(s, n)[i] = s[n + i]
           /\ n = 0 => From(s, n) = s
<1>1. \A i \in n + 1 .. Len(s) : s[i] \in S  OBVIOUS
<1>2. /\ SubSeq(s, n + 1, Len(s)) \in Seq(S)
      /\ Len(SubSeq(s, n + 1, Len(s))) = IF n + 1 <= Len(s) THEN Len(s) - (n + 1) + 1 ELSE 0
      /\ \A i \in 1 .. Len(s) - (n + 1) + 1 : SubSeq(s, n + 1, Len(s))[i] = s[n + 1 + i - 1]
  BY <1>1, SubSeqProperties
<1>3. n = 0 => From(s, n) = s  BY SubSeqFull DEF From
<1>. QED  BY <1>2, <1>3 DEF From

\* The first stop is before the end, or there is none.
LEMMA UntilProperties ==
    ASSUME NEW S, NEW s \in Seq(S), NEW stops
    PROVE  /\ Until(s, stops) \in 0 .. Len(s)
           /\ Until(s, stops) < Len(s) => s[Until(s, stops) + 1].t \in stops
<1> DEFINE ends == {i \in DOMAIN s : s[i].t \in stops}
           least == CHOOSE i \in ends : \A j \in ends : i <= j
<1>1. CASE ends = {}
  <2>1. Until(s, stops) = Len(s)  BY <1>1 DEF Until
  <2>. QED  BY <2>1
<1>2. CASE ends # {}
  <2>1. ends \in SUBSET Nat  OBVIOUS
  <2>2. least \in ends  BY <1>2, <2>1, LeastIsThere
  <2>3. Until(s, stops) = least - 1  BY <1>2 DEF Until
  <2>4. least \in 1 .. Len(s) /\ s[least].t \in stops  BY <2>2
  <2> HIDE DEF least
  <2>. QED  BY <2>3, <2>4
<1>. QED  BY <1>1, <1>2

\* STRING, with the strings the model writes, which the provers do not know to be in it.
Strings == STRING \cup {"", "sign", "tail", "map", "repeated"}
AllTokens == [t : Strings, v : Strings]

\* Reading on: up to a stop, over blanks, over a word.
LEMMA UpTo ==
    ASSUME NEW s \in Seq(AllTokens), NEW stops
    PROVE  LET d == From(s, Until(s, stops)) IN
           /\ d \in Seq(AllTokens) /\ Len(d) <= Len(s)
           /\ d # <<>> => Head(d).t \in stops
           /\ s # <<>> /\ Head(s).t \notin stops => Len(d) < Len(s)
<1> DEFINE n == Until(s, stops)
           d == From(s, n)
<1>1. n \in 0 .. Len(s) /\ (n < Len(s) => s[n + 1].t \in stops)  BY UntilProperties
<1>2. n \in Nat  BY <1>1
<1>3. /\ d \in Seq(AllTokens) /\ Len(d) = IF n <= Len(s) THEN Len(s) - n ELSE 0
      /\ \A i \in 1 .. Len(d) : d[i] = s[n + i]
  BY <1>2, FromProperties
<1> HIDE DEF d, n
<1>4. ASSUME d # <<>> PROVE Head(d) = s[n + 1] /\ n < Len(s)
  BY <1>1, <1>3, <1>4
<1>5. ASSUME s # <<>>, Head(s).t \notin stops PROVE Len(d) < Len(s)
  <2>1. Head(s) = s[1] /\ Len(s) > 0  BY <1>5
  <2>2. n # 0  BY <1>1, <1>5, <2>1
  <2>. QED  BY <1>1, <1>3, <2>2
<1>. QED  BY <1>1, <1>3, <1>4, <1>5 DEF d, n

\* Who stands before a stop stays there.
LEMMA StopsAtOnce ==
    ASSUME NEW s \in Seq(AllTokens), s # <<>>, NEW stops, Head(s).t \in stops
    PROVE  From(s, Until(s, stops)) = s
<1> DEFINE ends == {i \in DOMAIN s : s[i].t \in stops}
           least == CHOOSE i \in ends : \A j \in ends : i <= j
<1>1. 1 \in ends  OBVIOUS
<1>2. ends \in SUBSET Nat /\ \A i \in ends : i >= 1  OBVIOUS
<1>3. least \in ends /\ \A j \in ends : least <= j  BY <1>1, <1>2, LeastIsThere
<1>4. Until(s, stops) = least - 1  BY <1>1 DEF Until
<1> HIDE DEF ends, least
<1>5. least = 1  BY <1>1, <1>2, <1>3
<1>6. Until(s, stops) = 0  BY <1>4, <1>5
<1>. QED  BY <1>6, FromProperties

LEMMA SkipWsProperties ==
    ASSUME NEW s \in Seq(AllTokens)
    PROVE  SkipWs(s) \in Seq(AllTokens) /\ Len(SkipWs(s)) <= Len(s)
BY UpTo, Zenon DEF SkipWs

\* Reading a name never adds to the text.
LEMMA AfterIdentProperties ==
    ASSUME NEW s \in Seq(AllTokens)
    PROVE  AfterIdent(s) \in Seq(AllTokens) /\ Len(AfterIdent(s)) <= Len(s) /\ Ident(s) \in Strings
<1>0. Len(s) \in Nat  OBVIOUS
<1>1. CASE ~IsWord(s)
  <2>1. AfterIdent(s) = s /\ Ident(s) = ""  BY <1>1 DEF AfterIdent, Ident
  <2>2. "" \in Strings  BY Zenon DEF Strings
  <2>3. Len(s) <= Len(s)
    <3>1. \A n \in Nat : n <= n  OBVIOUS
    <3>. QED  BY <1>0, <3>1, Zenon
  <2>. QED  BY <2>1, <2>2, <2>3, Zenon
<1>2. CASE IsWord(s)
  <2>1. s # <<>>  BY <1>2 DEF IsWord
  <2>2. Tail(s) \in Seq(AllTokens) /\ Len(Tail(s)) = Len(s) - 1 /\ Head(s) \in AllTokens  BY <2>1, HeadTailProperties
  <2>3. [t |-> "sign", v |-> "tail"] \in AllTokens  BY DEF AllTokens, Strings
  <2>4. <<[t |-> "sign", v |-> "tail"]>> \in Seq(AllTokens) /\ Len(<<[t |-> "sign", v |-> "tail"]>>) = 1  BY <2>3
  <2>5. /\ <<[t |-> "sign", v |-> "tail"]>> \o Tail(s) \in Seq(AllTokens)
        /\ Len(<<[t |-> "sign", v |-> "tail"]>> \o Tail(s)) = 1 + Len(Tail(s))
    BY <2>2, <2>4, ConcatProperties
  <2>6. AfterIdent(s) = <<[t |-> "sign", v |-> "tail"]>> \o Tail(s) \/ AfterIdent(s) = Tail(s)
    BY <1>2 DEF AfterIdent
  <2>7. Ident(s) = Head(s).v \/ Ident(s) = "map"  BY <1>2 DEF Ident
  <2>8. Ident(s) \in Strings
    <3>1. Head(s).v \in Strings /\ "map" \in Strings  BY <2>2 DEF AllTokens, Strings
    <3>. QED  BY <2>7, <3>1
  <2>9. Len(s) \in Nat /\ Len(Tail(s)) \in Nat  BY <2>2
  <2>10. CASE AfterIdent(s) = Tail(s)  BY <2>2, <2>8, <2>9, <2>10
  <2>11. CASE AfterIdent(s) = <<[t |-> "sign", v |-> "tail"]>> \o Tail(s)
    BY <2>2, <2>5, <2>8, <2>9, <2>11
  <2>. QED  BY <2>6, <2>10, <2>11
<1>. QED  BY <1>1, <1>2

\* A block is skipped with its opening brace.
LEMMA SkipBalancedProperties ==
    ASSUME NEW s \in Seq(AllTokens), s # <<>>
    PROVE  SkipBalanced(s) \in Seq(AllTokens) /\ Len(SkipBalanced(s)) < Len(s)
<1> DEFINE ends == {n \in DOMAIN s : Depth(s, n) = 0}
           least == CHOOSE n \in ends : \A m \in ends : n <= m
<1>1. CASE ends = {}
  <2>1. SkipBalanced(s) = <<>>  BY <1>1 DEF SkipBalanced
  <2>. QED  BY <2>1
<1>2. CASE ends # {}
  <2>1. ends \in SUBSET Nat  OBVIOUS
  <2>2. least \in ends  BY <1>2, <2>1, LeastIsThere
  <2>3. SkipBalanced(s) = From(s, least)  BY <1>2 DEF SkipBalanced
  <2>4. least \in 1 .. Len(s)  BY <2>2
  <2> HIDE DEF least
  <2>5. From(s, least) \in Seq(AllTokens)
        /\ Len(From(s, least)) = IF least <= Len(s) THEN Len(s) - least ELSE 0
    BY <2>4, FromProperties
  <2>. QED  BY <2>3, <2>4, <2>5
<1>. QED  BY <1>1, <1>2

LEMMA TailProperties ==
    ASSUME NEW s \in Seq(AllTokens), s # <<>>
    PROVE  Tail(s) \in Seq(AllTokens) /\ Len(Tail(s)) = Len(s) - 1 /\ Len(s) \in Nat /\ Len(s) > 0 /\ Head(s) \in AllTokens
BY HeadTailProperties

\* Up to a stop and over it, unless it is one that stays.
LEMMA OverStop ==
    ASSUME NEW s \in Seq(AllTokens), s # <<>>, NEW stops, NEW stay, ~Starts(s, stay)
    PROVE  LET d == From(s, Until(s, stops))
               next == IF d = <<>> \/ Starts(d, stay) THEN d ELSE Tail(d)
           IN  next \in Seq(AllTokens) /\ Len(next) < Len(s)
<1> DEFINE n == Until(s, stops)
           d == From(s, n)
           next == IF d = <<>> \/ Starts(d, stay) THEN d ELSE Tail(d)
<1>1. n \in 0 .. Len(s)  BY UntilProperties
<1>2. Len(s) \in Nat /\ Len(s) > 0  BY TailProperties
<1>3. n \in Nat  BY <1>1, <1>2
<1>4. /\ d \in Seq(AllTokens) /\ Len(d) = IF n <= Len(s) THEN Len(s) - n ELSE 0
      /\ n = 0 => d = s
  BY <1>3, FromProperties
<1> HIDE DEF d, n
<1>5. /\ Len(d) \in Nat /\ Len(d) <= Len(s)
      /\ Starts(d, stay) => Len(d) < Len(s)
  <2>1. Len(d) \in Nat /\ Len(d) = Len(s) - n  BY <1>1, <1>2, <1>3, <1>4
  <2>2. Starts(d, stay) => n # 0  BY <1>4
  <2>. QED  BY <1>1, <1>2, <2>1, <2>2
<1>6. CASE d = <<>>
  <2>1. Len(d) = 0 /\ next = d  BY <1>6
  <2>. QED  BY <1>2, <1>4, <2>1 DEF d, n
<1>7. CASE d # <<>> /\ Starts(d, stay)  BY <1>4, <1>5, <1>7 DEF d, n
<1>8. CASE d # <<>> /\ ~Starts(d, stay)
  <2>1. next = Tail(d)  BY <1>8
  <2>2. Tail(d) \in Seq(AllTokens) /\ Len(Tail(d)) = Len(d) - 1  BY <1>4, <1>8, TailProperties
  <2>3. Len(Tail(d)) < Len(s)  BY <1>2, <1>5, <2>2
  <2>. QED  BY <2>1, <2>2, <2>3 DEF d, n
<1>. QED  BY <1>6, <1>7, <1>8

\* Up to a stop and over it, if it is one that ends a statement.
LEMMA OverEnd ==
    ASSUME NEW s \in Seq(AllTokens), s # <<>>, NEW stops, NEW end,
           Head(s).t \in stops => Head(s).t = end
    PROVE  LET d == From(s, Until(s, stops))
               next == IF Starts(d, end) THEN Tail(d) ELSE d
           IN  next \in Seq(AllTokens) /\ Len(next) < Len(s)
<1> DEFINE n == Until(s, stops)
           d == From(s, n)
           next == IF Starts(d, end) THEN Tail(d) ELSE d
<1>1. /\ d \in Seq(AllTokens) /\ Len(d) <= Len(s)
      /\ Head(s).t \notin stops => Len(d) < Len(s)
      /\ d # <<>> => Head(d).t \in stops
  BY UpTo
<1>2. Len(s) \in Nat /\ Len(s) > 0  BY TailProperties
<1>3. n \in 0 .. Len(s)  BY UntilProperties
<1>4. n \in Nat  BY <1>2, <1>3
<1>5. Len(d) = (IF n <= Len(s) THEN Len(s) - n ELSE 0) /\ (n = 0 => d = s)
  BY <1>4, FromProperties
<1> HIDE DEF d, n
<1>6. Len(d) \in Nat  BY <1>1
<1>7. CASE Starts(d, end)
  <2>1. d # <<>>  BY <1>7 DEF Starts
  <2>2. Tail(d) \in Seq(AllTokens) /\ Len(Tail(d)) = Len(d) - 1  BY <1>1, <2>1, TailProperties
  <2>3. Len(Tail(d)) < Len(s)  BY <1>1, <1>2, <1>6, <2>2
  <2>. QED  BY <1>7, <2>2, <2>3 DEF d, n
<1>8. CASE ~Starts(d, end)
  <2>1. n # 0
    <3>1. ASSUME n = 0 PROVE FALSE
      <4>1. d = s /\ Head(s).t \in stops  BY <1>1, <1>5, <3>1
      <4>2. Head(s).t = end  BY <4>1
      <4>. QED  BY <1>8, <4>1, <4>2 DEF Starts
    <3>. QED  BY <3>1
  <2>2. Len(d) < Len(s)  BY <1>2, <1>3, <1>4, <1>5, <2>1
  <2>. QED  BY <1>1, <1>8, <2>2 DEF d, n
<1>. QED  BY <1>7, <1>8

\* What is skipped is at least one token, unless a block ends here.
LEMMA SkipStatementProperties ==
    ASSUME NEW s \in Seq(AllTokens), s # <<>>, ~Starts(s, "}")
    PROVE  SkipStatement(s) \in Seq(AllTokens) /\ Len(SkipStatement(s)) < Len(s)
BY OverStop, Zenon DEF SkipStatement

-----------------------------------------------------------------------------
ScopeKinds == {"message", "enum", "service", "oneof"}
Calls == [kind : ScopeKinds, name : Seq(Strings), named : BOOLEAN, items : Seq(Seq(Strings))]

\* Types of the parser's variables.
ParserTypes ==
    /\ document \in Documents \cup {NoDocument}
    /\ rest \in Seq(AllTokens) /\ scopes \in Seq(Calls)
    /\ verdict \in {"running", "ok", "error"}
    /\ turns \in Nat

Left == IF verdict = "running" THEN 1 ELSE 0

\* What is left to do: tokens, calls that have not returned, the verdict.
Pending == Len(rest) + Len(scopes) + Left

\* A turn of the parser leaves less to do than it found.
Turn ==
    /\ rest' \in Seq(AllTokens) /\ scopes' \in Seq(Calls)
    /\ verdict' \in {"running", "ok", "error"} /\ document' = document
    /\ Pending' < Pending

LEMMA DocumentType ==
    ASSUME ParserTypes
    PROVE  document.text \in Seq(AllTokens)
<1>1. CASE document = NoDocument
  <2>1. document.text = <<>>  BY <1>1 DEF NoDocument
  <2>. QED  BY <2>1
<1>2. CASE document \in Documents
  <2>1. document.text \in Seq([t : STRING, v : STRING])  BY <1>2, TokensAssumption
  <2>2. [t : STRING, v : STRING] \subseteq AllTokens  BY Zenon DEF AllTokens, Strings
  <2>. QED  BY <2>1, <2>2, SeqMonotonic
<1>. QED  BY <1>1, <1>2 DEF ParserTypes

LEMMA TextProperties ==
    ASSUME ParserTypes
    PROVE  /\ Text \in Seq(AllTokens) /\ Len(Text) \in Nat /\ Len(rest) \in Nat /\ Len(Text) <= Len(rest)
           /\ Text # <<>> => Tail(Text) \in Seq(AllTokens) /\ Len(Tail(Text)) = Len(Text) - 1 /\ Len(Text) > 0
           /\ Len(scopes) \in Nat
<1>1. rest \in Seq(AllTokens) /\ scopes \in Seq(Calls)  BY DEF ParserTypes
<1>2. Text \in Seq(AllTokens) /\ Len(Text) <= Len(rest)  BY <1>1, SkipWsProperties DEF Text
<1>3. Text # <<>> => Tail(Text) \in Seq(AllTokens) /\ Len(Tail(Text)) = Len(Text) - 1 /\ Len(Text) > 0
  BY <1>2, TailProperties
<1>. QED  BY <1>1, <1>2, <1>3

\* A turn that is neither the last nor the first use of the text.
LEMMA Shorter ==
    ASSUME ParserTypes, rest' \in Seq(AllTokens), scopes' \in Seq(Calls), UNCHANGED <<document, verdict>>,
           Len(rest') + Len(scopes') < Len(rest) + Len(scopes)
    PROVE  Turn
<1>1. Left' = Left /\ Left \in Nat  BY DEF Left
<1>2. Len(rest') \in Nat /\ Len(scopes') \in Nat /\ Len(rest) \in Nat /\ Len(scopes) \in Nat  BY DEF ParserTypes
<1>. QED  BY <1>1, <1>2 DEF Turn, Pending, ParserTypes

\* A turn that keeps the calls and reads on.
LEMMA ReadsOn ==
    ASSUME ParserTypes, rest' \in Seq(AllTokens), Len(rest') < Len(Text), UNCHANGED <<document, scopes, verdict>>
    PROVE  Turn
<1>1. Len(rest') \in Nat  OBVIOUS
<1>2. Len(rest') + Len(scopes') < Len(rest) + Len(scopes)  BY <1>1, TextProperties
<1>. QED  BY <1>2, Shorter DEF ParserTypes

\* Declarations keep the types of the open calls.
LEMMA DeclareType ==
    ASSUME ParserTypes, NEW i, NEW items \in Seq(Seq(Strings)), Declare(i, items)
    PROVE  scopes' \in Seq(Calls) /\ Len(scopes') = Len(scopes)
<1>1. scopes \in Seq(Calls) /\ scopes' = [scopes EXCEPT ![i].items = @ \o items]  BY DEF ParserTypes, Declare
<1>2. CASE i \in 1 .. Len(scopes)
  <2> DEFINE e == [scopes[i] EXCEPT !.items = @ \o items]
  <2>1. scopes[i] \in Calls  BY <1>1, <1>2, ElementOfSeq
  <2>a. ASSUME NEW c \in Calls PROVE [c EXCEPT !.items = @ \o items] \in Calls
    <3>1. c.items \in Seq(Seq(Strings))  BY DEF Calls
    <3>2. c.items \o items \in Seq(Seq(Strings))  BY <3>1, ConcatProperties
    <3>3. \A x \in Seq(Seq(Strings)) : [c EXCEPT !.items = x] \in Calls  BY DEF Calls
    <3>. QED  BY <3>2, <3>3
  <2>2. e \in Calls  BY <2>1, <2>a, Zenon
  <2>3. scopes' = [scopes EXCEPT ![i] = e]  BY <1>1
  <2> HIDE DEF e
  <2>4. [scopes EXCEPT ![i] = e] \in Seq(Calls) /\ Len([scopes EXCEPT ![i] = e]) = Len(scopes)
    BY <1>1, <1>2, <2>2, ExceptSeq
  <2>. QED  BY <2>3, <2>4, Zenon
<1>3. CASE i \notin 1 .. Len(scopes)
  <2>1. DOMAIN scopes = 1 .. Len(scopes) /\ scopes \in [1 .. Len(scopes) -> Calls]  BY <1>1, LenProperties
  <2>2. scopes' = scopes  BY <1>1, <1>3, <2>1
  <2>. QED  BY <1>1, <2>2
<1>. QED  BY <1>2, <1>3

\* Words and pieces of a text.
LEMMA WordType ==
    ASSUME NEW s \in Seq(AllTokens), NEW k
    PROVE  Word(s, k) \in [t : Strings, v : Strings] /\ Word(s, k).v \in Strings
<1> DEFINE at == {i \in DOMAIN s : s[i].t # "nl" /\ Cardinality({j \in 1 .. i : s[j].t # "nl"}) = k}
<1>1. Word(s, k) = Tok("") \/ \E i \in DOMAIN s : Word(s, k) = s[i]
  <2>1. CASE at = {}  BY <2>1, Zenon DEF Word
  <2>2. CASE at # {}
    <3>1. (CHOOSE i \in at : TRUE) \in at  BY <2>2, Zenon
    <3>2. Word(s, k) = s[CHOOSE i \in at : TRUE]  BY <2>2, Zenon DEF Word
    <3>. QED  BY <3>1, <3>2, Zenon
  <2>. QED  BY <2>1, <2>2
<1>2. \A i \in DOMAIN s : s[i] \in AllTokens  OBVIOUS
<1>3. Tok("") \in AllTokens  BY DEF Tok, AllTokens, Strings
<1>4. Word(s, k) \in AllTokens  BY <1>1, <1>2, <1>3
<1>. QED  BY <1>4 DEF AllTokens

LEMMA PieceType ==
    ASSUME NEW s \in Seq(AllTokens), NEW stops
    PROVE  /\ Until(s, stops) \in Nat /\ Until(s, stops) <= Len(s)
           /\ From(s, Until(s, stops) + 1) \in Seq(AllTokens)
           /\ SubSeq(s, 1, Until(s, stops)) \in Seq(AllTokens)
<1>1. Until(s, stops) \in 0 .. Len(s)  BY UntilProperties
<1> DEFINE n == Until(s, stops)
<1> HIDE DEF n
<1>2. n \in 0 .. Len(s)  BY <1>1 DEF n
<1>4. From(s, n + 1) \in Seq(AllTokens)
  <2>1. n + 1 \in Nat  BY <1>2
  <2>. QED  BY <2>1, FromProperties
<1>5. SubSeq(s, 1, n) \in Seq(AllTokens)  BY <1>2
<1>. QED  BY <1>2, <1>4, <1>5 DEF n

\* A statement declares names and numbers.
LEMMA FoundType ==
    ASSUME NEW s \in Seq(AllTokens)
    PROVE  Found(s) \in Seq(Seq(Strings))
<1>1. \A k : Word(s, k).v \in Strings  BY WordType
<1>2. \A x \in FieldStmt(s) : x \in Seq(Strings)
  <2> DEFINE l == IF Word(s, 1).t = "label" THEN 1 ELSE 0
             r == IF Word(s, 1).v = "repeated" THEN "repeated" ELSE ""
             item == <<r, Word(s, l + 1).v, Word(s, l + 2).v, Word(s, l + 4).v>>
  <2>1. FieldStmt(s) = {} \/ FieldStmt(s) = {item}  BY Zenon DEF FieldStmt
  <2>2. r \in Strings  BY Zenon DEF Strings
  <2> HIDE DEF l, r
  <2>3. \A a, b, c, d \in Strings : <<a, b, c, d>> \in Seq(Strings)  OBVIOUS
  <2>4. item \in Seq(Strings)  BY <1>1, <2>2, <2>3, Zenon
  <2> HIDE DEF item
  <2>. QED  BY <2>1, <2>4, Zenon
<1>3. \A x \in EnumValueStmt(s) : x \in Seq(Strings)
  <2> DEFINE item == <<Word(s, 1).v, Word(s, 3).v>>
  <2>1. EnumValueStmt(s) = {} \/ EnumValueStmt(s) = {item}  BY Zenon DEF EnumValueStmt
  <2>2. \A a, b \in Strings : <<a, b>> \in Seq(Strings)  OBVIOUS
  <2>3. item \in Seq(Strings)  BY <1>1, <2>2, Zenon
  <2> HIDE DEF item
  <2>. QED  BY <2>1, <2>3, Zenon
<1> DEFINE items == IF Top = "enum" THEN EnumValueStmt(s) ELSE FieldStmt(s)
<1>4. \A x \in items : x \in Seq(Strings)  BY <1>2, <1>3, Zenon
<1>5. Found(s) = IF items = {} THEN <<>> ELSE <<CHOOSE item \in items : TRUE>>  BY Zenon DEF Found
<1> HIDE DEF items
<1>6. CASE items = {}
  <2>1. Found(s) = <<>>  BY <1>5, <1>6, Zenon
  <2>2. <<>> \in Seq(Seq(Strings))  OBVIOUS
  <2>. QED  BY <2>1, <2>2
<1>7. CASE items # {}
  <2> DEFINE x == CHOOSE item \in items : TRUE
  <2>1. x \in items /\ Found(s) = <<x>>  BY <1>5, <1>7, Zenon
  <2> HIDE DEF x
  <2>2. x \in Seq(Strings)  BY <1>4, <2>1
  <2>3. \A y \in Seq(Strings) : <<y>> \in Seq(Seq(Strings))  OBVIOUS
  <2>. QED  BY <2>1, <2>2, <2>3, Zenon
<1>. QED  BY <1>6, <1>7

LEMMA SignatureType ==
    ASSUME NEW s \in Seq(AllTokens), NEW name \in Strings
    PROVE  <<<<name>> \o Signature(s)>> \in Seq(Seq(Strings))
<1>1. \A x \in Seq(AllTokens) : Inside(x) \in Seq(AllTokens) /\ Behind(x) \in Seq(AllTokens)
  <2> TAKE x \in Seq(AllTokens)
  <2> DEFINE from == From(x, Until(x, {"("}) + 1)
             n == Until(from, {")"})
  <2>1. from \in Seq(AllTokens)  BY PieceType
  <2>2. Inside(x) = <<>> \/ Inside(x) = SubSeq(from, 1, n)  BY Zenon DEF Inside
  <2>3. Behind(x) = From(from, n + 1)  BY Zenon DEF Behind
  <2> HIDE DEF from
  <2>4. SubSeq(from, 1, n) \in Seq(AllTokens) /\ From(from, n + 1) \in Seq(AllTokens)  BY <2>1, PieceType
  <2> HIDE DEF n
  <2>5. <<>> \in Seq(AllTokens)  OBVIOUS
  <2>. QED  BY <2>2, <2>3, <2>4, <2>5, Zenon
<1> DEFINE input == Inside(s)
           output == Inside(Behind(s))
<1>2. input \in Seq(AllTokens) /\ output \in Seq(AllTokens)  BY <1>1, Zenon
<1>3. Signature(s) = <<Word(input, 1).v, Word(input, 2).v, Word(output, 1).v, Word(output, 2).v>>
  BY Zenon DEF Signature
<1> HIDE DEF input, output
<1>4. \A k : Word(input, k).v \in Strings /\ Word(output, k).v \in Strings  BY <1>2, WordType
<1>5. \A a, b, c, d \in Strings : <<a, b, c, d>> \in Seq(Strings)  OBVIOUS
<1>6. Signature(s) \in Seq(Strings)  BY <1>3, <1>4, <1>5, Zenon
<1>7. <<name>> \o Signature(s) \in Seq(Strings)
  <2>1. <<name>> \in Seq(Strings)  OBVIOUS
  <2>. QED  BY <1>6, <2>1, ConcatProperties
<1>8. \A y \in Seq(Strings) : <<y>> \in Seq(Seq(Strings))  OBVIOUS
<1>. QED  BY <1>7, <1>8, Zenon

\* A package has one name, or the document has none.
LEMMA PackageType ==
    ASSUME NEW s \in Seq(AllTokens)
    PROVE  Package(s) \in Seq(Strings)
<1>1. CASE PackageAt(s) = {}
  <2>1. Package(s) = <<>>  BY <1>1, Zenon DEF Package
  <2>. QED  BY <2>1
<1>2. CASE PackageAt(s) # {}
  <2> DEFINE P == PackageAt(s)
             i == CHOOSE x \in P : \A y \in P : x <= y
  <2>1. P \subseteq DOMAIN s  BY Zenon DEF PackageAt
  <2>2. P \subseteq 1 .. Len(s) /\ Len(s) \in Nat  BY <2>1
  <2>3. Package(s) = <<Word(From(s, i), 1).v>>  BY <1>2, Zenon DEF Package
  <2>4. i \in P
    <3>1. P # {}  BY <1>2, Zenon
    <3> HIDE DEF P
    <3>2. P \in SUBSET Nat  BY <2>2
    <3>. QED  BY <3>1, <3>2, LeastIsThere
  <2> HIDE DEF P
  <2> HIDE DEF i
  <2>5. i \in 1 .. Len(s)  BY <2>2, <2>4
  <2>6. From(s, i) \in Seq(AllTokens)
    <3>1. i \in Nat  BY <2>5
    <3>. QED  BY <3>1, FromProperties
  <2>7. Word(From(s, i), 1).v \in Strings  BY <2>6, WordType
  <2>8. \A y \in Strings : <<y>> \in Seq(Strings)  OBVIOUS
  <2>. QED  BY <2>3, <2>7, <2>8, Zenon
<1>. QED  BY <1>1, <1>2

LEMMA PushType ==
    ASSUME ParserTypes, NEW k \in ScopeKinds, NEW name \in Strings, Push(k, name)
    PROVE  scopes' \in Seq(Calls) /\ Len(scopes') = Len(scopes) + 1
<1> DEFINE q == IF name = "" THEN <<>> ELSE Qualify(Outer, name)
           b == name # ""
           call == [kind |-> k, name |-> q, named |-> b, items |-> <<>>]
<1>1. scopes \in Seq(Calls)  BY DEF ParserTypes
<1>2. Outer \in Seq(Strings)
  <2>1. CASE scopes = <<>>  BY <2>1, DocumentType, PackageType DEF Outer
  <2>2. CASE scopes # <<>>
    <3>1. Len(scopes) \in 1 .. Len(scopes)  BY <1>1, <2>2
    <3>2. scopes[Len(scopes)] \in Calls  BY <1>1, <3>1, ElementOfSeq
    <3>3. Outer = scopes[Len(scopes)].name  BY <2>2 DEF Outer, Last
    <3>. QED  BY <3>2, <3>3 DEF Calls
  <2>. QED  BY <2>1, <2>2
<1>3. <<>> \in Seq(Strings) /\ Qualify(Outer, name) \in Seq(Strings)  BY <1>2 DEF Qualify
<1>4. q \in Seq(Strings) /\ b \in BOOLEAN  BY <1>3, Zenon
<1>5. scopes' = Append(scopes, call)  BY DEF Push
<1> HIDE DEF q, b
<1>6. call \in Calls  BY <1>4 DEF Calls
<1> HIDE DEF call
<1>. QED  BY <1>1, <1>5, <1>6, AppendProperties

LEMMA OpensKinds ==
    ASSUME NEW t \in Opens
    PROVE  t \in ScopeKinds
<1>1. CASE Top = "top"
  <2>1. Opens = {"message", "enum", "service"}  BY <1>1, Zenon DEF Opens
  <2>. QED  BY <2>1 DEF ScopeKinds
<1>2. CASE Top = "message"
  <2>0. Top # "top"  BY <1>2
  <2>1. Opens = {"message", "enum", "oneof"}  BY <1>2, <2>0, Zenon DEF Opens
  <2>. QED  BY <2>1 DEF ScopeKinds
<1>3. CASE Top # "top" /\ Top # "message"
  <2>1. Opens = {}  BY <1>3, Zenon DEF Opens
  <2>. QED  BY <2>1
<1>. QED  BY <1>1, <1>2, <1>3

-----------------------------------------------------------------------------
\* Each turn uses up text, a call, or the verdict.
LEMMA OpenTurn == ASSUME ParserTypes, Open PROVE Turn
<1> DEFINE afterWord == SkipWs(Tail(Text))
           body == SkipWs(AfterIdent(afterWord))
<1>1. Text # <<>> /\ Head(Text).t \in Opens /\ UNCHANGED <<document, verdict>>  BY Zenon DEF Open, Running
<1>2. afterWord \in Seq(AllTokens) /\ Len(afterWord) <= Len(Text) - 1
  <2>1. Tail(Text) \in Seq(AllTokens) /\ Len(Tail(Text)) = Len(Text) - 1  BY <1>1, TextProperties
  <2>. QED  BY <2>1, SkipWsProperties
<1>3. body \in Seq(AllTokens) /\ Len(body) <= Len(Text) - 1 /\ Ident(afterWord) \in Strings
  <2> HIDE DEF afterWord
  <2>1. AfterIdent(afterWord) \in Seq(AllTokens) /\ Len(AfterIdent(afterWord)) <= Len(afterWord)
        /\ Ident(afterWord) \in Strings
    BY <1>2, AfterIdentProperties
  <2>2. body \in Seq(AllTokens) /\ Len(body) <= Len(AfterIdent(afterWord))  BY <2>1, SkipWsProperties
  <2> HIDE DEF body
  <2>3. Len(body) \in Nat /\ Len(afterWord) \in Nat /\ Len(AfterIdent(afterWord)) \in Nat /\ Len(Text) \in Nat
    BY <1>2, <2>1, <2>2, TextProperties
  <2>. QED  BY <1>2, <2>1, <2>2, <2>3
<1>4. \/ body # <<>> /\ rest' = Tail(body) /\ Push(Head(Text).t, Ident(afterWord))
      \/ rest' = body /\ UNCHANGED scopes
  BY Zenon DEF Open, Starts
<1> HIDE DEF afterWord, body
<1>5. CASE body # <<>> /\ rest' = Tail(body) /\ Push(Head(Text).t, Ident(afterWord))
  <2>1. Tail(body) \in Seq(AllTokens) /\ Len(Tail(body)) = Len(body) - 1 /\ Len(body) \in Nat
    BY <1>3, <1>5, TailProperties
  <2>2. Head(Text).t \in ScopeKinds  BY <1>1, OpensKinds
  <2>3. scopes' \in Seq(Calls) /\ Len(scopes') = Len(scopes) + 1  BY <1>3, <1>5, <2>2, PushType
  <2>4. rest' \in Seq(AllTokens) /\ Len(rest') = Len(body) - 1  BY <1>5, <2>1
  <2>5. Len(rest') + Len(scopes') < Len(rest) + Len(scopes)  BY <1>3, <2>1, <2>3, <2>4, TextProperties
  <2>. QED  BY <1>1, <2>3, <2>4, <2>5, Shorter
<1>6. CASE rest' = body /\ UNCHANGED scopes
  <2>1. rest' \in Seq(AllTokens) /\ Len(rest') < Len(Text)  BY <1>3, <1>6, TextProperties
  <2>. QED  BY <1>1, <1>6, <2>1, ReadsOn
<1>. QED  BY <1>4, <1>5, <1>6

LEMMA CloseTurn == ASSUME ParserTypes, Close PROVE Turn
<1>1. scopes # <<>> /\ scopes' = Front(scopes) /\ UNCHANGED <<document, verdict>>  BY Zenon DEF Close
<1>2. rest' = Text \/ (Text # <<>> /\ rest' = Tail(Text))  BY Zenon DEF Close, Starts
<1>3. rest' \in Seq(AllTokens) /\ Len(rest') <= Len(rest)  BY <1>2, TextProperties
<1>4. scopes \in Seq(Calls) /\ Len(scopes) > 0 /\ Len(scopes) \in Nat  BY <1>1 DEF ParserTypes
<1>5. scopes' = SubSeq(scopes, 1, Len(scopes) - 1)  BY <1>1 DEF Front
<1>6. scopes' \in Seq(Calls) /\ Len(scopes') = Len(scopes) - 1
  <2> DEFINE k == Len(scopes) - 1
  <2>1. k \in Nat /\ k <= Len(scopes)  BY <1>4
  <2>2. \A i \in 1 .. k : scopes[i] \in Calls  BY <1>4, <2>1, ElementOfSeq
  <2> HIDE DEF k
  <2>3. /\ SubSeq(scopes, 1, k) \in Seq(Calls)
        /\ Len(SubSeq(scopes, 1, k)) = IF 1 <= k THEN k - 1 + 1 ELSE 0
    BY <2>1, <2>2, SubSeqProperties
  <2>4. scopes' = SubSeq(scopes, 1, k)  BY <1>5 DEF k
  <2>5. Len(scopes') = k  BY <2>1, <2>3, <2>4
  <2>. QED  BY <2>3, <2>4, <2>5 DEF k
<1>7. Len(rest') + Len(scopes') < Len(rest) + Len(scopes)  BY <1>3, <1>4, <1>6, TextProperties
<1>. QED  BY <1>1, <1>3, <1>6, <1>7, Shorter

LEMMA StrayBraceTurn == ASSUME ParserTypes, StrayBrace PROVE Turn
<1>1. Text # <<>> /\ rest' = Tail(Text) /\ UNCHANGED <<document, scopes, verdict>>
  BY Zenon DEF StrayBrace, Running
<1>. QED  BY <1>1, TextProperties, ReadsOn

LEMMA StatementTurn == ASSUME ParserTypes, Statement PROVE Turn
<1> DEFINE stops == IF Top = "message" THEN {";", "{", "}"} ELSE {";", "}"}
           n == Until(Text, stops)
           after == From(Text, n)
           next == IF Starts(after, ";") THEN Tail(after) ELSE after
           found == Found(SubSeq(Text, 1, n))
<1>1. Text # <<>> /\ UNCHANGED <<document, verdict>>  BY Zenon DEF Statement, Running
<1>2. \/ Starts(after, "{") /\ Top = "message" /\ rest' = SkipBalanced(after) /\ UNCHANGED scopes
      \/ ~(Starts(after, "{") /\ Top = "message") /\ rest' = next /\ Declare(Owner, found)
  BY Zenon DEF Statement
<1>3. ~Starts(Text, "}")  BY Zenon DEF Statement
<1>4. after \in Seq(AllTokens) /\ Len(after) <= Len(Text) /\ n \in 0 .. Len(Text)
  <2> HIDE DEF stops
  <2>. QED  BY TextProperties, UpTo, UntilProperties
<1>5. CASE Starts(after, "{") /\ Top = "message" /\ rest' = SkipBalanced(after) /\ UNCHANGED scopes
  <2>1. after # <<>> /\ rest' = SkipBalanced(after) /\ UNCHANGED scopes  BY <1>5, Zenon DEF Starts
  <2> HIDE DEF after, n, stops
  <2>2. rest' \in Seq(AllTokens) /\ Len(rest') < Len(after)  BY <1>4, <2>1, SkipBalancedProperties
  <2>3. Len(rest') \in Nat /\ Len(after) \in Nat  BY <1>4, <2>2
  <2>4. Len(rest') < Len(Text)  BY <1>4, <2>2, <2>3, TextProperties
  <2>. QED  BY <1>1, <2>1, <2>2, <2>4, ReadsOn
<1>6. CASE ~(Starts(after, "{") /\ Top = "message") /\ rest' = next /\ Declare(Owner, found)
  <2>1. Head(Text).t \in stops => Head(Text).t = ";"
    <3>1. ASSUME Head(Text).t = "{", Top = "message" PROVE FALSE
      <4>1. Head(Text).t \in stops  BY <3>1, Zenon
      <4>2. Text \in Seq(AllTokens)  BY TextProperties
      <4>3. after = Text
        <5> HIDE DEF stops
        <5>. QED  BY <1>1, <4>1, <4>2, StopsAtOnce
      <4>. QED  BY <1>1, <1>6, <3>1, <4>3, Zenon DEF Starts
    <3>. QED  BY <1>1, <1>3, <3>1, Zenon DEF Starts
  <2>2. next \in Seq(AllTokens) /\ Len(next) < Len(Text)
    <3>1. Text \in Seq(AllTokens)  BY TextProperties
    <3>. QED  BY <1>1, <2>1, <3>1, OverEnd, Zenon
  <2>3. found \in Seq(Seq(Strings))
    <3>1. SubSeq(Text, 1, n) \in Seq(AllTokens)
      <4> HIDE DEF n
      <4>. QED  BY <1>4, TextProperties
    <3>. QED  BY <3>1, FoundType, Zenon
  <2>4. rest' = next /\ Declare(Owner, found)  BY <1>6, Zenon
  <2> HIDE DEF next, found
  <2>5. scopes' \in Seq(Calls) /\ Len(scopes') = Len(scopes)  BY <2>3, <2>4, DeclareType
  <2>6. rest' \in Seq(AllTokens) /\ Len(rest') < Len(Text) /\ Len(rest') \in Nat  BY <2>2, <2>4
  <2>7. Len(rest') + Len(scopes') < Len(rest) + Len(scopes)  BY <2>5, <2>6, TextProperties
  <2>. QED  BY <1>1, <2>5, <2>6, <2>7, Shorter
<1>. QED  BY <1>2, <1>5, <1>6, Zenon

LEMMA SkipTurn == ASSUME ParserTypes, Skip PROVE Turn
<1>1. Text # <<>> /\ rest' = SkipStatement(Text) /\ UNCHANGED <<document, scopes, verdict>>
  BY Zenon DEF Skip, Running
<1>2. Text \in Seq(AllTokens)  BY TextProperties
<1>3. rest' \in Seq(AllTokens) /\ Len(rest') < Len(Text)
  <2>1. ~Starts(Text, "}")  BY Zenon DEF Skip
  <2>. QED  BY <1>1, <1>2, <2>1, SkipStatementProperties, Zenon
<1>. QED  BY <1>1, <1>3, ReadsOn

LEMMA RpcTurn == ASSUME ParserTypes, Rpc PROVE Turn
<1> DEFINE afterWord == SkipWs(Tail(Text))
           name == Ident(afterWord)
           sig == AfterIdent(afterWord)
           stops == {"{", ";"}
           n == Until(sig, stops)
           after == From(sig, n)
           items == IF name = "" THEN <<>> ELSE <<<<name>> \o Signature(SubSeq(sig, 1, n))>>
<1>1. Text # <<>> /\ UNCHANGED <<document, verdict>>  BY Zenon DEF Rpc, Running
<1>2. /\ Declare(Len(scopes), items)
      /\ \/ after # <<>> /\ rest' = SkipBalanced(after)
         \/ rest' = after
         \/ after # <<>> /\ rest' = Tail(after)
  BY Zenon DEF Rpc, Starts
<1>3. sig \in Seq(AllTokens) /\ Len(sig) < Len(Text) /\ name \in Strings
  <2>1. Tail(Text) \in Seq(AllTokens) /\ Len(Tail(Text)) = Len(Text) - 1 /\ Len(Text) \in Nat
    BY <1>1, TextProperties
  <2>2. afterWord \in Seq(AllTokens) /\ Len(afterWord) <= Len(Tail(Text))  BY <2>1, SkipWsProperties
  <2> HIDE DEF afterWord
  <2>3. sig \in Seq(AllTokens) /\ Len(sig) <= Len(afterWord) /\ name \in Strings
    BY <2>2, AfterIdentProperties
  <2> HIDE DEF sig
  <2>4. Len(sig) \in Nat /\ Len(afterWord) \in Nat  BY <2>2, <2>3
  <2>. QED  BY <2>1, <2>2, <2>3, <2>4
<1>4. items \in Seq(Seq(Strings))
  <2> HIDE DEF sig, name
  <2>1. SubSeq(sig, 1, n) \in Seq(AllTokens)  BY <1>3, PieceType
  <2> HIDE DEF n
  <2>2. <<<<name>> \o Signature(SubSeq(sig, 1, n))>> \in Seq(Seq(Strings))  BY <1>3, <2>1, SignatureType
  <2>3. <<>> \in Seq(Seq(Strings))  OBVIOUS
  <2>. QED  BY <2>2, <2>3, Zenon
<1> HIDE DEF sig, stops, name, items
<1>5. after \in Seq(AllTokens) /\ Len(after) < Len(Text)
  <2>1. after \in Seq(AllTokens) /\ Len(after) <= Len(sig)  BY <1>3, UpTo
  <2> HIDE DEF after
  <2>2. Len(after) \in Nat /\ Len(sig) \in Nat /\ Len(Text) \in Nat  BY <1>3, <2>1, TextProperties
  <2>. QED  BY <1>3, <2>1, <2>2
<1>6. scopes' \in Seq(Calls) /\ Len(scopes') = Len(scopes)  BY <1>2, <1>4, DeclareType
<1> HIDE DEF after
<1>7. rest' \in Seq(AllTokens) /\ Len(rest') <= Len(after)
  <2>1. CASE after # <<>> /\ rest' = SkipBalanced(after)  BY <1>5, <2>1, SkipBalancedProperties
  <2>2. CASE rest' = after  BY <1>5, <2>2
  <2>3. CASE after # <<>> /\ rest' = Tail(after)  BY <1>5, <2>3, TailProperties
  <2>. QED  BY <1>2, <2>1, <2>2, <2>3
<1>8. Len(rest') \in Nat /\ Len(after) \in Nat  BY <1>5, <1>7
<1>9. Len(rest') + Len(scopes') < Len(rest) + Len(scopes)  BY <1>5, <1>6, <1>7, <1>8, TextProperties
<1>. QED  BY <1>1, <1>6, <1>7, <1>9, Shorter

LEMMA TopStatementTurn == ASSUME ParserTypes, TopStatement PROVE Turn
<1> DEFINE stops == {";", "nl", "{", "}"}
           after == From(Text, Until(Text, stops))
           next == IF after = <<>> \/ Starts(after, "}") THEN after ELSE Tail(after)
<1>1. Text # <<>> /\ ~Starts(Text, "}") /\ UNCHANGED <<document, scopes, verdict>>
  BY Zenon DEF TopStatement, Running
<1>a. Text # <<>> /\ UNCHANGED <<document, scopes, verdict>>  BY <1>1, Zenon
<1>2. (after # <<>> /\ rest' = SkipBalanced(after)) \/ rest' = next  BY Zenon DEF TopStatement, Starts
<1>3. Text \in Seq(AllTokens) /\ Len(Text) \in Nat  BY TextProperties
<1>4. next \in Seq(AllTokens) /\ Len(next) < Len(Text)  BY <1>1, <1>3, OverStop, Zenon
<1>5. after \in Seq(AllTokens) /\ Len(after) <= Len(Text)
  <2> HIDE DEF stops
  <2>. QED  BY <1>3, UpTo
<1> HIDE DEF after, next
<1>6. CASE after # <<>> /\ rest' = SkipBalanced(after)
  <2>1. rest' \in Seq(AllTokens) /\ Len(rest') < Len(after)  BY <1>5, <1>6, SkipBalancedProperties
  <2>2. Len(rest') \in Nat /\ Len(after) \in Nat  BY <1>5, <2>1
  <2>3. Len(rest') < Len(Text)  BY <1>3, <1>5, <2>1, <2>2
  <2>. QED  BY <1>a, <2>1, <2>3, ReadsOn
<1>7. CASE rest' = next  BY <1>a, <1>4, <1>7, ReadsOn
<1>. QED  BY <1>2, <1>6, <1>7

LEMMA FinishTurn == ASSUME ParserTypes, Finish PROVE Turn
<1>1. verdict = "running" /\ verdict' \in {"ok", "error"} /\ UNCHANGED <<document, rest, scopes>>  BY DEF Finish
<1>2. Left = 1 /\ Left' = 0  BY <1>1 DEF Left
<1>3. Len(rest) \in Nat /\ Len(scopes) \in Nat  BY DEF ParserTypes
<1>. QED  BY <1>1, <1>2, <1>3 DEF Turn, Pending, ParserTypes

\* Every turn of the loops of the parser consumes something, on any text.
LEMMA ParseTurn == ASSUME ParserTypes, Parse PROVE Turn
BY OpenTurn, CloseTurn, StrayBraceTurn, StatementTurn, SkipTurn, RpcTurn, TopStatementTurn, FinishTurn, Zenon DEF Parse

-----------------------------------------------------------------------------
Severities == {"breaking", "risky", "safe"}
Known(changes) == \A c \in changes : c.severity \in Severities

\* Changes found in parts are breaking if those of one part are.
LEMMA Collected ==
    ASSUME NEW U
    PROVE  /\ Breaking(UNION U) = {} <=> \A x \in U : Breaking(x) = {}
           /\ Known(UNION U) <=> \A x \in U : Known(x)
           /\ UNION U = {} <=> \A x \in U : x = {}
BY Zenon DEF Breaking, Known

LEMMA BothParts ==
    ASSUME NEW X, NEW Y
    PROVE  /\ Breaking(X \cup Y) = {} <=> Breaking(X) = {} /\ Breaking(Y) = {}
           /\ Known(X \cup Y) <=> Known(X) /\ Known(Y)
           /\ X \cup Y = {} <=> X = {} /\ Y = {}
BY Zenon DEF Breaking, Known

\* Removals and additions: the additions are not breaking.
LEMMA OneBreakingPart ==
    ASSUME NEW D, NEW X, NEW Y, D = X \cup Y, Breaking(Y) = {}, Known(X), Known(Y)
    PROVE  (Breaking(D) = {} <=> Breaking(X) = {}) /\ Known(D)
<1>1. Breaking(X \cup Y) = {} <=> Breaking(X) = {} /\ Breaking(Y) = {}  BY BothParts, Zenon
<1>2. Known(X \cup Y)  BY BothParts, Zenon
<1>. QED  BY <1>1, <1>2, Zenon

LEMMA OneChange ==
    ASSUME NEW path, NEW kind, NEW s \in Severities
    PROVE  /\ Breaking({Change(path, kind, s)}) = {} <=> s # "breaking"
           /\ Known({Change(path, kind, s)})
<1>1. Change(path, kind, s).severity = s  BY DEF Change
<1> HIDE DEF Change
<1>. QED  BY <1>1 DEF Breaking, Known

\* Changes that are all as severe.
LEMMA AlikeChanges ==
    ASSUME NEW X, NEW s \in Severities, \A c \in X : c.severity = s
    PROVE  Known(X) /\ (Breaking(X) = {} <=> X = {} \/ s # "breaking")
BY DEF Breaking, Known

LEMMA KnownSeverities == "breaking" \in Severities /\ "risky" \in Severities /\ "safe" \in Severities
BY DEF Severities

LEMMA ThreeParts ==
    ASSUME NEW X, NEW Y, NEW Z
    PROVE  /\ Breaking(X \cup Y \cup Z) = {} <=> Breaking(X) = {} /\ Breaking(Y) = {} /\ Breaking(Z) = {}
           /\ Known(X \cup Y \cup Z) <=> Known(X) /\ Known(Y) /\ Known(Z)
BY Zenon DEF Breaking, Known

\* Nothing is not breaking.
LEMMA NoChange == Breaking({}) = {} /\ Known({})
BY DEF Breaking, Known

-----------------------------------------------------------------------------
(* The GraphQL engine.                                                     *)

SafeCommon(b, h, isInput) == b.type = h.type /\ ~(isInput /\ LosesDefault(b, h))

\* What the engine takes for a compatible change of fields or arguments.
SafeNamed(b, h, isInput) ==
    /\ DOMAIN b \subseteq DOMAIN h
    /\ \A n \in DOMAIN h \ DOMAIN b : ~(isInput /\ Required(h[n]))
    /\ \A n \in DOMAIN b \cap DOMAIN h : SafeCommon(b[n], h[n], isInput)

\* And of fields with arguments.
SafeFields(b, h, isInput) ==
    /\ SafeNamed(b, h, isInput)
    /\ \A n \in DOMAIN b \cap DOMAIN h : SafeNamed(ByName(b[n].args), ByName(h[n].args), TRUE)

\* A type keeps its kind, and what of it others rely on.
SafeType(b, h) ==
    /\ b.kind = h.kind
    /\ b.kind \in {"object", "interface"} => SafeFields(ByName(b.fields), ByName(h.fields), FALSE)
    /\ b.kind = "input" => SafeFields(ByName(b.fields), ByName(h.fields), TRUE)
    /\ b.kind \in WithMembers => ToSet(b.members) \subseteq ToSet(h.members)

\* No type goes, and each changes in a compatible way.
SafeGraphQl(b, h) ==
    /\ DOMAIN b \subseteq DOMAIN h
    /\ \A n \in DOMAIN b : SafeType(b[n], h[n])

\* No breaking change is reported exactly when the change is compatible:
\* of one field, of all, with their arguments, of members, of a type.
LEMMA CommonChanges ==
    ASSUME NEW path, NEW b, NEW h, NEW isInput
    PROVE  /\ Breaking(DiffCommon(path, b, h, isInput)) = {} <=> SafeCommon(b, h, isInput)
           /\ Known(DiffCommon(path, b, h, isInput))
           /\ DiffCommon(path, b, b, isInput) = {}
<1>0. "breaking" \in Severities  BY DEF Severities
<1>1. \A kind : Breaking({Change(path, kind, "breaking")}) # {} /\ Known({Change(path, kind, "breaking")})
  BY <1>0, OneChange
<1>2. ~LosesDefault(b, b)  BY Zenon DEF LosesDefault, Required
<1>. QED  BY <1>1, <1>2, NoChange, Zenon DEF DiffCommon, SafeCommon

LEMMA NamedChanges ==
    ASSUME NEW path, NEW b, NEW h, NEW isInput
    PROVE  /\ Breaking(DiffNamed(path, b, h, isInput)) = {} <=> SafeNamed(b, h, isInput)
           /\ Known(DiffNamed(path, b, h, isInput))
           /\ DiffNamed(path, b, b, isInput) = {}
<1> DEFINE X == {Change(Append(path, n), "FieldRemoved", "breaking") : n \in DOMAIN b \ DOMAIN h}
           Y == {AddedChange(Append(path, n), h[n], isInput) : n \in DOMAIN h \ DOMAIN b}
           U == {DiffCommon(Append(path, n), b[n], h[n], isInput) : n \in DOMAIN b \cap DOMAIN h}
<1>0. \A p, kind, s : Change(p, kind, s).severity = s  BY DEF Change
<1>a. (\A c \in X : c.severity = "breaking") /\ (X = {} <=> DOMAIN b \subseteq DOMAIN h)
  <2>1. \A c \in X : c.severity = "breaking"  BY DEF Change
  <2>2. X = {} <=> DOMAIN b \ DOMAIN h = {}  BY Zenon
  <2>3. DOMAIN b \ DOMAIN h = {} <=> DOMAIN b \subseteq DOMAIN h  BY Zenon
  <2>. QED  BY <2>1, <2>2, <2>3, Zenon
<1>1. (Breaking(X) = {} <=> DOMAIN b \subseteq DOMAIN h) /\ Known(X)
  <2> HIDE DEF X
  <2>. QED  BY <1>a, KnownSeverities, AlikeChanges
<1>3. \A p, x : AddedChange(p, x, isInput).severity = IF isInput /\ Required(x) THEN "breaking" ELSE "safe"
  BY <1>0, Zenon DEF AddedChange
<1>4. "breaking" # "safe"  OBVIOUS
<1>5. Breaking(Y) = {} <=> \A n \in DOMAIN h \ DOMAIN b : ~(isInput /\ Required(h[n]))
  BY <1>3, <1>4, Zenon DEF Breaking
<1>6. Known(Y)  BY <1>3, Zenon DEF Known, Severities
<1>7. \A x \in U : \E n \in DOMAIN b \cap DOMAIN h : x = DiffCommon(Append(path, n), b[n], h[n], isInput)  OBVIOUS
<1>8. \A n \in DOMAIN b \cap DOMAIN h : DiffCommon(Append(path, n), b[n], h[n], isInput) \in U  OBVIOUS
<1>c. \A p, x, y : /\ Breaking(DiffCommon(p, x, y, isInput)) = {} <=> SafeCommon(x, y, isInput)
                   /\ Known(DiffCommon(p, x, y, isInput))
  BY CommonChanges, Zenon
<1>9. Breaking(UNION U) = {} <=> \A n \in DOMAIN b \cap DOMAIN h : SafeCommon(b[n], h[n], isInput)
  <2> HIDE DEF U
  <2>1. Breaking(UNION U) = {} <=> \A x \in U : Breaking(x) = {}  BY Collected, Zenon
  <2>. QED  BY <1>7, <1>8, <1>c, <2>1
<1>10. Known(UNION U)
  <2> HIDE DEF U
  <2>1. Known(UNION U) <=> \A x \in U : Known(x)  BY Collected, Zenon
  <2>. QED  BY <1>7, <1>c, <2>1
<1>11. DiffNamed(path, b, h, isInput) = X \cup Y \cup UNION U  BY Zenon DEF DiffNamed
<1>12. DiffNamed(path, b, b, isInput) = {}
  <2>1. \A n : DiffCommon(Append(path, n), b[n], b[n], isInput) = {}  BY CommonChanges
  <2>. QED  BY <2>1, Zenon DEF DiffNamed
<1> HIDE DEF X, Y, U
<1>13. /\ Breaking(X \cup Y \cup UNION U) = {} <=> Breaking(X) = {} /\ Breaking(Y) = {} /\ Breaking(UNION U) = {}
       /\ Known(X \cup Y \cup UNION U) <=> Known(X) /\ Known(Y) /\ Known(UNION U)
  BY ThreeParts, Zenon
<1>. QED  BY <1>1, <1>5, <1>6, <1>9, <1>10, <1>11, <1>12, <1>13, Zenon DEF SafeNamed

LEMMA FieldsChanges ==
    ASSUME NEW name, NEW b, NEW h, NEW isInput
    PROVE  /\ Breaking(DiffFields(name, b, h, isInput)) = {} <=> SafeFields(ByName(b), ByName(h), isInput)
           /\ Known(DiffFields(name, b, h, isInput))
           /\ DiffFields(name, b, b, isInput) = {}
<1> DEFINE bs == ByName(b)
           hs == ByName(h)
           U == {DiffArgs(<<name, n>>, bs[n].args, hs[n].args) : n \in DOMAIN bs \cap DOMAIN hs}
<1>1. \A p, x, y : /\ Breaking(DiffArgs(p, x, y)) = {} <=> SafeNamed(ByName(x), ByName(y), TRUE)
                   /\ Known(DiffArgs(p, x, y))
                   /\ DiffArgs(p, x, x) = {}
  BY NamedChanges, Zenon DEF DiffArgs
<1>2. \A x \in U : \E n \in DOMAIN bs \cap DOMAIN hs : x = DiffArgs(<<name, n>>, bs[n].args, hs[n].args)  BY Zenon
<1>3. \A n \in DOMAIN bs \cap DOMAIN hs : DiffArgs(<<name, n>>, bs[n].args, hs[n].args) \in U  BY Zenon
<1>4. DiffFields(name, b, h, isInput) = DiffNamed(<<name>>, bs, hs, isInput) \cup UNION U  BY Zenon DEF DiffFields
<1>5. DiffFields(name, b, b, isInput) = {}
  <2>1. \A n : DiffArgs(<<name, n>>, bs[n].args, bs[n].args) = {}  BY <1>1, Zenon
  <2>2. DiffNamed(<<name>>, bs, bs, isInput) = {}  BY NamedChanges
  <2>3. DiffFields(name, b, b, isInput) = DiffNamed(<<name>>, bs, bs, isInput)
           \cup UNION {DiffArgs(<<name, n>>, bs[n].args, bs[n].args) : n \in DOMAIN bs \cap DOMAIN bs}
    BY Zenon DEF DiffFields
  <2> HIDE DEF bs
  <2>. QED  BY <2>1, <2>2, <2>3, Zenon
<1> HIDE DEF U, bs, hs
<1>6. Breaking(UNION U) = {} <=> \A n \in DOMAIN bs \cap DOMAIN hs : SafeNamed(ByName(bs[n].args), ByName(hs[n].args), TRUE)
  <2>1. Breaking(UNION U) = {} <=> \A x \in U : Breaking(x) = {}  BY Collected, Zenon
  <2>3. ASSUME \A x \in U : Breaking(x) = {}, NEW n \in DOMAIN bs \cap DOMAIN hs
        PROVE  SafeNamed(ByName(bs[n].args), ByName(hs[n].args), TRUE)
    BY <1>1, <1>3, <2>3, Zenon
  <2>4. ASSUME \A n \in DOMAIN bs \cap DOMAIN hs : SafeNamed(ByName(bs[n].args), ByName(hs[n].args), TRUE), NEW x \in U
        PROVE  Breaking(x) = {}
    <3>1. PICK n \in DOMAIN bs \cap DOMAIN hs : x = DiffArgs(<<name, n>>, bs[n].args, hs[n].args)  BY <1>2, Zenon
    <3>. QED  BY <1>1, <2>4, <3>1, Zenon
  <2>. QED  BY <2>1, <2>3, <2>4, Zenon
<1>7. Known(UNION U)
  <2>1. Known(UNION U) <=> \A x \in U : Known(x)  BY Collected, Zenon
  <2>2. ASSUME NEW x \in U PROVE Known(x)
    <3>1. PICK n \in DOMAIN bs \cap DOMAIN hs : x = DiffArgs(<<name, n>>, bs[n].args, hs[n].args)  BY <1>2, Zenon
    <3>. QED  BY <1>1, <3>1, Zenon
  <2>. QED  BY <2>1, <2>2, Zenon
<1>8. /\ Breaking(DiffNamed(<<name>>, bs, hs, isInput)) = {} <=> SafeNamed(bs, hs, isInput)
      /\ Known(DiffNamed(<<name>>, bs, hs, isInput))
  BY NamedChanges, Zenon
<1>9. SafeFields(bs, hs, isInput) <=>
        SafeNamed(bs, hs, isInput)
        /\ \A n \in DOMAIN bs \cap DOMAIN hs : SafeNamed(ByName(bs[n].args), ByName(hs[n].args), TRUE)
  BY Zenon DEF SafeFields
<1> DEFINE D == DiffNamed(<<name>>, bs, hs, isInput)
<1>10. /\ Breaking(D \cup UNION U) = {} <=> Breaking(D) = {} /\ Breaking(UNION U) = {}
       /\ Known(D \cup UNION U) <=> Known(D) /\ Known(UNION U)
  BY BothParts, Zenon
<1>. QED  BY <1>4, <1>5, <1>6, <1>7, <1>8, <1>9, <1>10, Zenon DEF bs, hs

LEMMA MembersChanges ==
    ASSUME NEW name, NEW b, NEW h
    PROVE  /\ Breaking(DiffEnumValues(name, b, h)) = {} <=> ToSet(b) \subseteq ToSet(h)
           /\ Breaking(DiffUnionMembers(name, b, h)) = {} <=> ToSet(b) \subseteq ToSet(h)
           /\ Known(DiffEnumValues(name, b, h)) /\ Known(DiffUnionMembers(name, b, h))
           /\ DiffEnumValues(name, b, b) = {} /\ DiffUnionMembers(name, b, b) = {}
<1>2. /\ Breaking(DiffEnumValues(name, b, h)) = {} <=> ToSet(b) \subseteq ToSet(h)
      /\ Known(DiffEnumValues(name, b, h))
  <2> DEFINE X == {Change(<<name, v>>, "EnumValueRemoved", "breaking") : v \in ToSet(b) \ ToSet(h)}
             Y == {Change(<<name, v>>, "EnumValueAdded", "risky") : v \in ToSet(h) \ ToSet(b)}
  <2>a. (\A c \in X : c.severity = "breaking") /\ (\A c \in Y : c.severity = "risky")  BY DEF Change
  <2>b. X = {} <=> ToSet(b) \ ToSet(h) = {}  BY Zenon
  <2>c. ToSet(b) \ ToSet(h) = {} <=> ToSet(b) \subseteq ToSet(h)  BY Zenon
  <2>3. DiffEnumValues(name, b, h) = X \cup Y  BY Zenon DEF DiffEnumValues
  <2> HIDE DEF X, Y
  <2>1. (Breaking(X) = {} <=> ToSet(b) \subseteq ToSet(h)) /\ Known(X)
    BY <2>a, <2>b, <2>c, KnownSeverities, AlikeChanges
  <2>2. Breaking(Y) = {} /\ Known(Y)  BY <2>a, KnownSeverities, AlikeChanges
  <2>4. (Breaking(DiffEnumValues(name, b, h)) = {} <=> Breaking(X) = {}) /\ Known(DiffEnumValues(name, b, h))
    BY <2>1, <2>2, <2>3, OneBreakingPart
  <2>. QED  BY <2>1, <2>4, Zenon
<1>3. /\ Breaking(DiffUnionMembers(name, b, h)) = {} <=> ToSet(b) \subseteq ToSet(h)
      /\ Known(DiffUnionMembers(name, b, h))
  <2> DEFINE X == {Change(<<name, "|", m>>, "FieldRemoved", "breaking") : m \in ToSet(b) \ ToSet(h)}
             Y == {Change(<<name, "|", m>>, "FieldAdded", "risky") : m \in ToSet(h) \ ToSet(b)}
  <2>a. (\A c \in X : c.severity = "breaking") /\ (\A c \in Y : c.severity = "risky")  BY DEF Change
  <2>b. X = {} <=> ToSet(b) \ ToSet(h) = {}  BY Zenon
  <2>c. ToSet(b) \ ToSet(h) = {} <=> ToSet(b) \subseteq ToSet(h)  BY Zenon
  <2>3. DiffUnionMembers(name, b, h) = X \cup Y  BY Zenon DEF DiffUnionMembers
  <2> HIDE DEF X, Y
  <2>1. (Breaking(X) = {} <=> ToSet(b) \subseteq ToSet(h)) /\ Known(X)
    BY <2>a, <2>b, <2>c, KnownSeverities, AlikeChanges
  <2>2. Breaking(Y) = {} /\ Known(Y)  BY <2>a, KnownSeverities, AlikeChanges
  <2>4. /\ Breaking(DiffUnionMembers(name, b, h)) = {} <=> Breaking(X) = {}
        /\ Known(DiffUnionMembers(name, b, h))
    BY <2>1, <2>2, <2>3, OneBreakingPart
  <2>. QED  BY <2>1, <2>4, Zenon
<1>6. DiffEnumValues(name, b, b) = {} /\ DiffUnionMembers(name, b, b) = {}
  BY Zenon DEF DiffEnumValues, DiffUnionMembers
<1>. QED  BY <1>2, <1>3, <1>6

\* diff_type, kind by kind.
LEMMA TypeArms ==
    ASSUME NEW name, NEW b, NEW h, b.kind = h.kind
    PROVE  /\ b.kind \in {"object", "interface"} => DiffType(name, b, h) = DiffFields(name, b.fields, h.fields, FALSE)
           /\ b.kind = "input" => DiffType(name, b, h) = DiffFields(name, b.fields, h.fields, TRUE)
           /\ b.kind = "enum" => DiffType(name, b, h) = DiffEnumValues(name, b.members, h.members)
           /\ b.kind = "union" => DiffType(name, b, h) = DiffUnionMembers(name, b.members, h.members)
           /\ b.kind = "scalar" => DiffType(name, b, h) = {}
<1>1. "object" # "input" /\ "object" # "enum" /\ "object" # "union" /\ "object" # "scalar"  OBVIOUS
<1>2. "interface" # "input" /\ "interface" # "enum" /\ "interface" # "union" /\ "interface" # "scalar"  OBVIOUS
<1>3. "input" # "enum" /\ "input" # "union" /\ "input" # "scalar"  OBVIOUS
<1>4. "enum" # "union" /\ "enum" # "scalar" /\ "union" # "scalar"  OBVIOUS
<1>5. CASE b.kind \in {"object", "interface"}
  <2>1. b.kind # "input" /\ b.kind # "enum" /\ b.kind # "union" /\ b.kind # "scalar"  BY <1>1, <1>2, <1>5, Zenon
  <2>. QED  BY <1>5, <2>1, Zenon DEF DiffType
<1>6. CASE b.kind \notin {"object", "interface"}
  BY <1>3, <1>4, <1>6, Zenon DEF DiffType, DiffScalar
<1>. QED  BY <1>5, <1>6

\* Every change of a type is found by the arm of its kind.
LEMMA TypeChanges ==
    ASSUME NEW name, NEW b, NEW h, b.kind \in GqlKinds
    PROVE  /\ Breaking(DiffType(name, b, h)) = {} <=> SafeType(b, h)
           /\ Known(DiffType(name, b, h))
           /\ DiffType(name, b, b) = {}
<1> DEFINE D(g) == DiffType(name, b, g)
<1>1. \/ b.kind \in {"object", "interface"} /\ b.kind # "input" /\ b.kind \notin WithMembers
      \/ b.kind = "input" /\ b.kind \notin {"object", "interface"} /\ b.kind \notin WithMembers
      \/ b.kind \in {"enum", "union"} /\ b.kind \notin {"object", "interface"} /\ b.kind # "input" /\ b.kind \in WithMembers
      \/ b.kind = "scalar" /\ b.kind \notin {"object", "interface"} /\ b.kind # "input" /\ b.kind \notin WithMembers
  BY DEF GqlKinds, WithFields, WithMembers
<1>2. ASSUME b.kind # h.kind PROVE (Breaking(D(h)) = {} <=> SafeType(b, h)) /\ Known(D(h))
  <2>0. "breaking" \in Severities  BY DEF Severities
  <2>1. D(h) = {Change(<<"type", name>>, "TypeChanged", "breaking")}  BY <1>2, Zenon DEF DiffType
  <2>2. Breaking(D(h)) # {} /\ Known(D(h))  BY <2>0, <2>1, OneChange
  <2>3. ~SafeType(b, h)  BY <1>2 DEF SafeType
  <2>. QED  BY <2>2, <2>3, Zenon
<1>3. ASSUME NEW g, b.kind = g.kind
      PROVE  (Breaking(D(g)) = {} <=> SafeType(b, g)) /\ Known(D(g)) /\ (g = b => D(g) = {})
  <2> DEFINE x == b.fields
             y == g.fields
  <2>1. CASE b.kind \in {"object", "interface"} /\ b.kind # "input" /\ b.kind \notin WithMembers
    <3>1. D(g) = DiffFields(name, x, y, FALSE)  BY <1>3, <2>1, TypeArms, Zenon
    <3>2. SafeType(b, g) <=> SafeFields(ByName(x), ByName(y), FALSE)  BY <1>3, <2>1, Zenon DEF SafeType
    <3>. QED  BY <3>1, <3>2, FieldsChanges, Zenon
  <2>2. CASE b.kind = "input" /\ b.kind \notin {"object", "interface"} /\ b.kind \notin WithMembers
    <3>1. D(g) = DiffFields(name, x, y, TRUE)  BY <1>3, <2>2, TypeArms, Zenon
    <3>2. SafeType(b, g) <=> SafeFields(ByName(x), ByName(y), TRUE)  BY <1>3, <2>2, Zenon DEF SafeType
    <3>. QED  BY <3>1, <3>2, FieldsChanges, Zenon
  <2>3. CASE b.kind \in {"enum", "union"} /\ b.kind \notin {"object", "interface"} /\ b.kind # "input" /\ b.kind \in WithMembers
    <3>1. D(g) = DiffEnumValues(name, b.members, g.members) \/ D(g) = DiffUnionMembers(name, b.members, g.members)
      BY <1>3, <2>3, TypeArms, Zenon
    <3>2. SafeType(b, g) <=> ToSet(b.members) \subseteq ToSet(g.members)  BY <1>3, <2>3, Zenon DEF SafeType
    <3>a. g = b => b.members = g.members  OBVIOUS
    <3>3. CASE D(g) = DiffEnumValues(name, b.members, g.members)  BY <3>a, <3>2, <3>3, MembersChanges, Zenon
    <3>4. CASE D(g) = DiffUnionMembers(name, b.members, g.members)
      <4>1. /\ Breaking(DiffUnionMembers(name, b.members, g.members)) = {} <=> ToSet(b.members) \subseteq ToSet(g.members)
            /\ Known(DiffUnionMembers(name, b.members, g.members))
            /\ DiffUnionMembers(name, b.members, b.members) = {}
        BY MembersChanges, Zenon
      <4>. QED  BY <3>2, <3>4, <4>1, Zenon
    <3>. QED  BY <3>1, <3>3, <3>4, Zenon
  <2>4. CASE b.kind = "scalar" /\ b.kind \notin {"object", "interface"} /\ b.kind # "input" /\ b.kind \notin WithMembers
    <3>1. D(g) = {}  BY <1>3, <2>4, TypeArms, Zenon
    <3>2. SafeType(b, g)  BY <1>3, <2>4, Zenon DEF SafeType
    <3>. QED  BY <3>1, <3>2, NoChange, Zenon
  <2>. QED  BY <1>1, <2>1, <2>2, <2>3, <2>4, Zenon
<1>4. D(b) = {}  BY <1>3, Zenon
<1>5. (Breaking(D(h)) = {} <=> SafeType(b, h)) /\ Known(D(h))
  <2>1. CASE b.kind = h.kind  BY <1>3, <2>1, Zenon
  <2>2. CASE b.kind # h.kind  BY <1>2, <2>2, Zenon
  <2>. QED  BY <2>1, <2>2, Zenon
<1>. QED  BY <1>4, <1>5, Zenon

\* The engine reports no breaking change exactly when there is none, and
\* nothing at all when a version is compared with itself.
LEMMA GraphQlChanges ==
    ASSUME NEW b, NEW h, \A n \in DOMAIN b : b[n].kind \in GqlKinds
    PROVE  /\ Breaking(DiffGraphQl(b, h)) = {} <=> SafeGraphQl(b, h)
           /\ Known(DiffGraphQl(b, h))
           /\ DiffGraphQl(b, b) = {}
<1> DEFINE X == {Change(<<"type", n>>, "OperationRemoved", "breaking") : n \in DOMAIN b \ DOMAIN h}
           Y == {Change(<<"type", n>>, "OperationAdded", "safe") : n \in DOMAIN h \ DOMAIN b}
           U == {DiffType(n, b[n], h[n]) : n \in DOMAIN b \cap DOMAIN h}
<1>a. (\A c \in X : c.severity = "breaking") /\ (\A c \in Y : c.severity = "safe")  BY DEF Change
<1>b. X = {} <=> DOMAIN b \ DOMAIN h = {}  BY Zenon
<1>c. DOMAIN b \ DOMAIN h = {} <=> DOMAIN b \subseteq DOMAIN h  BY Zenon
<1>3. \A x \in U : \E n \in DOMAIN b \cap DOMAIN h : x = DiffType(n, b[n], h[n])  OBVIOUS
<1>4. \A n \in DOMAIN b \cap DOMAIN h : DiffType(n, b[n], h[n]) \in U  OBVIOUS
<1>5. \A n \in DOMAIN b \cap DOMAIN h :
        (Breaking(DiffType(n, b[n], h[n])) = {} <=> SafeType(b[n], h[n])) /\ Known(DiffType(n, b[n], h[n]))
  BY TypeChanges, Zenon
<1>6. DiffGraphQl(b, h) = X \cup Y \cup UNION U  BY Zenon DEF DiffGraphQl
<1>7. DiffGraphQl(b, b) = {}
  <2>1. \A n \in DOMAIN b : DiffType(n, b[n], b[n]) = {}  BY TypeChanges, Zenon
  <2>. QED  BY <2>1, Zenon DEF DiffGraphQl
<1> HIDE DEF X, Y, U
<1>1. (Breaking(X) = {} <=> DOMAIN b \subseteq DOMAIN h) /\ Known(X)
  BY <1>a, <1>b, <1>c, KnownSeverities, AlikeChanges
<1>2. Breaking(Y) = {} /\ Known(Y)  BY <1>a, KnownSeverities, AlikeChanges
<1>8. Breaking(UNION U) = {} <=> \A n \in DOMAIN b \cap DOMAIN h : SafeType(b[n], h[n])
  <2>1. Breaking(UNION U) = {} <=> \A x \in U : Breaking(x) = {}  BY Collected, Zenon
  <2>. QED  BY <1>3, <1>4, <1>5, <2>1
<1>9. Known(UNION U)
  <2>1. Known(UNION U) <=> \A x \in U : Known(x)  BY Collected, Zenon
  <2>. QED  BY <1>3, <1>5, <2>1
<1>10. /\ Breaking(X \cup Y \cup UNION U) = {} <=> Breaking(X) = {} /\ Breaking(Y) = {} /\ Breaking(UNION U) = {}
       /\ Known(X \cup Y \cup UNION U) <=> Known(X) /\ Known(Y) /\ Known(UNION U)
  BY ThreeParts, Zenon
<1>11. SafeGraphQl(b, h) <=> DOMAIN b \subseteq DOMAIN h /\ \A n \in DOMAIN b \cap DOMAIN h : SafeType(b[n], h[n])
  BY DEF SafeGraphQl
<1>. QED  BY <1>1, <1>2, <1>6, <1>7, <1>8, <1>9, <1>10, <1>11, Zenon

-----------------------------------------------------------------------------
(* Compatibility is transitive.                                            *)

LEMMA CommonTransitive ==
    ASSUME NEW a, NEW b, NEW c, NEW isInput, SafeCommon(a, b, isInput), SafeCommon(b, c, isInput)
    PROVE  SafeCommon(a, c, isInput)
<1>1. a.type = b.type /\ b.type = c.type /\ a.type = c.type  BY DEF SafeCommon
<1>2. ASSUME isInput, LosesDefault(a, c) PROVE FALSE
  <2>1. a.default /\ c.type.nonNull /\ ~c.default  BY <1>2, Zenon DEF LosesDefault, Required
  <2>2. CASE b.default  BY <1>2, <2>1, <2>2, Zenon DEF SafeCommon, LosesDefault, Required
  <2>3. CASE ~b.default
    <3>1. b.type.nonNull  BY <1>1, <2>1, Zenon
    <3>. QED  BY <1>2, <2>1, <2>3, <3>1, Zenon DEF SafeCommon, LosesDefault, Required
  <2>. QED  BY <2>2, <2>3
<1>. QED  BY <1>1, <1>2, Zenon DEF SafeCommon

\* An input that is optional stays so.
LEMMA OptionalStays ==
    ASSUME NEW b, NEW c, NEW isInput, SafeCommon(b, c, isInput), isInput, Required(c)
    PROVE  Required(b)
<1>1. b.type = c.type /\ ~LosesDefault(b, c)  BY Zenon DEF SafeCommon
<1>2. c.type.nonNull /\ b.type.nonNull  BY <1>1, Zenon DEF Required
<1>3. ~b.default  BY <1>1, Zenon DEF LosesDefault
<1>. QED  BY <1>2, <1>3, Zenon DEF Required

\* Compatible changes compose: of fields and arguments, of types, of versions.
LEMMA NamedTransitive ==
    ASSUME NEW a, NEW b, NEW c, NEW isInput, SafeNamed(a, b, isInput), SafeNamed(b, c, isInput)
    PROVE  SafeNamed(a, c, isInput)
<1>1. DOMAIN a \subseteq DOMAIN b /\ DOMAIN b \subseteq DOMAIN c  BY DEF SafeNamed
<1>2. ASSUME NEW n \in DOMAIN c \ DOMAIN a, isInput, Required(c[n]) PROVE FALSE
  <2>1. CASE n \in DOMAIN b
    <3>1. SafeCommon(b[n], c[n], isInput) /\ ~Required(b[n])  BY <1>2, <2>1, Zenon DEF SafeNamed
    <3>. QED  BY <1>2, <3>1, OptionalStays, Zenon
  <2>2. CASE n \notin DOMAIN b  BY <1>2, <2>2, Zenon DEF SafeNamed
  <2>. QED  BY <2>1, <2>2
<1>3. ASSUME NEW n \in DOMAIN a \cap DOMAIN c PROVE SafeCommon(a[n], c[n], isInput)
  <2>1. n \in DOMAIN a \cap DOMAIN b /\ n \in DOMAIN b \cap DOMAIN c  BY <1>1
  <2>2. SafeCommon(a[n], b[n], isInput) /\ SafeCommon(b[n], c[n], isInput)  BY <2>1, Zenon DEF SafeNamed
  <2>. QED  BY <2>2, CommonTransitive, Zenon
<1>4. DOMAIN a \subseteq DOMAIN c  BY <1>1, Zenon
<1>. QED  BY <1>2, <1>3, <1>4, Zenon DEF SafeNamed

LEMMA FieldsTransitive ==
    ASSUME NEW a, NEW b, NEW c, NEW isInput, SafeFields(a, b, isInput), SafeFields(b, c, isInput)
    PROVE  SafeFields(a, c, isInput)
<1>1. SafeNamed(a, b, isInput) /\ SafeNamed(b, c, isInput)  BY Zenon DEF SafeFields
<1>2. DOMAIN a \subseteq DOMAIN b /\ DOMAIN b \subseteq DOMAIN c  BY <1>1, Zenon DEF SafeNamed
<1>3. SafeNamed(a, c, isInput)  BY <1>1, NamedTransitive, Zenon
<1>4. ASSUME NEW n \in DOMAIN a \cap DOMAIN c PROVE SafeNamed(ByName(a[n].args), ByName(c[n].args), TRUE)
  <2>1. n \in DOMAIN a \cap DOMAIN b /\ n \in DOMAIN b \cap DOMAIN c  BY <1>2
  <2>2. SafeNamed(ByName(a[n].args), ByName(b[n].args), TRUE)  BY <2>1, Zenon DEF SafeFields
  <2>3. SafeNamed(ByName(b[n].args), ByName(c[n].args), TRUE)  BY <2>1, Zenon DEF SafeFields
  <2>. QED  BY <2>2, <2>3, NamedTransitive, Zenon
<1>. QED  BY <1>3, <1>4, Zenon DEF SafeFields

LEMMA TypeTransitive ==
    ASSUME NEW a, NEW b, NEW c, SafeType(a, b), SafeType(b, c)
    PROVE  SafeType(a, c)
<1>1. a.kind = b.kind /\ b.kind = c.kind  BY Zenon DEF SafeType
<1>2. ASSUME a.kind \in {"object", "interface"} PROVE SafeFields(ByName(a.fields), ByName(c.fields), FALSE)
  <2>1. SafeFields(ByName(a.fields), ByName(b.fields), FALSE) /\ SafeFields(ByName(b.fields), ByName(c.fields), FALSE)
    BY <1>1, <1>2, Zenon DEF SafeType
  <2>. QED  BY <2>1, FieldsTransitive, Zenon
<1>3. ASSUME a.kind = "input" PROVE SafeFields(ByName(a.fields), ByName(c.fields), TRUE)
  <2>1. SafeFields(ByName(a.fields), ByName(b.fields), TRUE) /\ SafeFields(ByName(b.fields), ByName(c.fields), TRUE)
    BY <1>1, <1>3, Zenon DEF SafeType
  <2>. QED  BY <2>1, FieldsTransitive, Zenon
<1>4. ASSUME a.kind \in WithMembers PROVE ToSet(a.members) \subseteq ToSet(c.members)
  <2>1. ToSet(a.members) \subseteq ToSet(b.members) /\ ToSet(b.members) \subseteq ToSet(c.members)
    BY <1>1, <1>4, Zenon DEF SafeType
  <2>. QED  BY <2>1, Zenon
<1>5. a.kind = c.kind  BY <1>1, Zenon
<1>. QED  BY <1>2, <1>3, <1>4, <1>5, Zenon DEF SafeType

\* Two compatible releases are one.
LEMMA GraphQlTransitive ==
    ASSUME NEW a, NEW b, NEW c, SafeGraphQl(a, b), SafeGraphQl(b, c)
    PROVE  SafeGraphQl(a, c)
<1>1. DOMAIN a \subseteq DOMAIN b /\ DOMAIN b \subseteq DOMAIN c  BY Zenon DEF SafeGraphQl
<1>2. ASSUME NEW n \in DOMAIN a PROVE SafeType(a[n], c[n])
  <2>1. n \in DOMAIN b  BY <1>1, Zenon
  <2>2. SafeType(a[n], b[n]) /\ SafeType(b[n], c[n])  BY <2>1, Zenon DEF SafeGraphQl
  <2>. QED  BY <2>2, TypeTransitive, Zenon
<1>3. DOMAIN a \subseteq DOMAIN c  BY <1>1, Zenon
<1>. QED  BY <1>2, <1>3, Zenon DEF SafeGraphQl

-----------------------------------------------------------------------------
(* What a compatible change means to clients.                              *)

LEMMA SendableValues ==
    ASSUME NEW i
    PROVE  /\ "value" \in Sendable(i) /\ Sendable(i) # {"nothing"}
           /\ "null" \in Sendable(i) <=> ~i.type.nonNull
           /\ "nothing" \in Sendable(i) <=> ~Required(i)
           /\ \A x \in Sendable(i) : x = "value" \/ x = "null" \/ x = "nothing"
<1>1. "value" # "null" /\ "value" # "nothing" /\ "null" # "nothing"  OBVIOUS
<1>2. "value" \in Sendable(i)  BY Zenon DEF Sendable
<1>3. "null" \in Sendable(i) <=> ~i.type.nonNull  BY <1>1, Zenon DEF Sendable
<1>4. "nothing" \in Sendable(i) <=> ~Required(i)  BY <1>1, Zenon DEF Sendable
<1>5. \A x \in Sendable(i) : x = "value" \/ x = "null" \/ x = "nothing"  BY Zenon DEF Sendable
<1>6. Sendable(i) # {"nothing"}  BY <1>1, <1>2, Zenon
<1>. QED  BY <1>2, <1>3, <1>4, <1>5, <1>6, Zenon

\* A compatible change breaks no client: of inputs, of answers, of a type.
LEMMA InputSafe ==
    ASSUME NEW b, NEW h, SafeNamed(b, h, TRUE)
    PROVE  ~InputBroken(b, h)
<1>1. ASSUME NEW n \in DOMAIN b \cap DOMAIN h
      PROVE  b[n].type.named = h[n].type.named /\ Sendable(b[n]) \subseteq Sendable(h[n])
  <2>1. SafeCommon(b[n], h[n], TRUE)  BY Zenon DEF SafeNamed
  <2>2. b[n].type = h[n].type  BY <2>1, Zenon DEF SafeCommon
  <2>3. b[n].type.named = h[n].type.named /\ (b[n].type.nonNull <=> h[n].type.nonNull)  BY <2>2, Zenon
  <2>4. Required(h[n]) => Required(b[n])  BY <2>1, OptionalStays, Zenon
  <2>5. ASSUME NEW x \in Sendable(b[n]) PROVE x \in Sendable(h[n])
    BY <2>3, <2>4, <2>5, SendableValues, Zenon
  <2>. QED  BY <2>3, <2>5, Zenon
<1>2. DOMAIN b \subseteq DOMAIN h /\ \A n \in DOMAIN h \ DOMAIN b : ~Required(h[n])  BY Zenon DEF SafeNamed
<1>. QED  BY <1>1, <1>2, Zenon DEF InputBroken

LEMMA OutputSafe ==
    ASSUME NEW b, NEW h, SafeFields(b, h, FALSE)
    PROVE  ~OutputBroken(b, h)
<1>1. SafeNamed(b, h, FALSE)  BY Zenon DEF SafeFields
<1>2. DOMAIN b \subseteq DOMAIN h  BY <1>1, Zenon DEF SafeNamed
<1>3. ASSUME NEW n \in DOMAIN b \cap DOMAIN h
      PROVE  /\ b[n].type.named = h[n].type.named /\ (b[n].type.nonNull => h[n].type.nonNull)
             /\ ~InputBroken(ByName(b[n].args), ByName(h[n].args))
  <2>1. b[n].type = h[n].type  BY <1>1, Zenon DEF SafeNamed, SafeCommon
  <2>2. SafeNamed(ByName(b[n].args), ByName(h[n].args), TRUE)  BY Zenon DEF SafeFields
  <2>. QED  BY <2>1, <2>2, InputSafe, Zenon
<1>4. DOMAIN b \ DOMAIN h = {}  BY <1>2, Zenon
<1>. QED  BY <1>3, <1>4, Zenon DEF OutputBroken

LEMMA TypeSafe ==
    ASSUME NEW b \in GqlTypes, NEW h \in GqlTypes, SafeType(b, h)
    PROVE  ~TypeBroken(b, h)
<1>1. b.kind = h.kind  BY Zenon DEF SafeType
<1>2. b.kind = "input" => ~InputBroken(ByName(b.fields), ByName(h.fields))
  BY InputSafe, Zenon DEF SafeType, SafeFields
<1>3. b.kind \in {"object", "interface"} => ~OutputBroken(ByName(b.fields), ByName(h.fields))
  BY OutputSafe, Zenon DEF SafeType
<1>4. ToSet(b.members) \subseteq ToSet(h.members)
  <2>1. CASE b.kind \in WithMembers  BY <2>1, Zenon DEF SafeType
  <2>2. CASE b.kind \notin WithMembers
    <3>1. b.members = <<>>  BY <2>2 DEF GqlTypes
    <3>2. ToSet(b.members) = {}  BY <3>1 DEF ToSet
    <3>. QED  BY <3>2
  <2>. QED  BY <2>1, <2>2
<1>. QED  BY <1>1, <1>2, <1>3, <1>4, Zenon DEF TypeBroken

\* A change that is not reported as breaking breaks no client.
LEMMA GraphQlSafe ==
    ASSUME NEW b, NEW h, SafeGraphQl(b, h),
           \A n \in DOMAIN b : b[n] \in GqlTypes, \A n \in DOMAIN h : h[n] \in GqlTypes
    PROVE  ~GraphQlBroken(b, h)
<1>1. ASSUME NEW n \in DOMAIN b PROVE n \in DOMAIN h /\ ~TypeBroken(b[n], h[n])
  <2>1. n \in DOMAIN h /\ SafeType(b[n], h[n])  BY Zenon DEF SafeGraphQl
  <2>2. b[n] \in GqlTypes /\ h[n] \in GqlTypes  BY <2>1
  <2>. QED  BY <2>1, <2>2, TypeSafe, Zenon
<1>. QED  BY <1>1, Zenon DEF GraphQlBroken

-----------------------------------------------------------------------------
(* What a breaking change means to clients.                                *)

\* Of the indices of a sequence in a set there is a last.
LEMMA LastIndex ==
    ASSUME NEW n \in Nat, NEW s \in SUBSET (1 .. n), s # {}
    PROVE  \E i \in s : \A j \in i + 1 .. n : j \notin s
<1>1. Max(s) \in s /\ \A y \in s : Max(s) >= y  BY MaxIsThere
<1> DEFINE m == Max(s)
<1> HIDE DEF m
<1>2. m \in s /\ \A y \in s : m >= y  BY <1>1 DEF m
<1>3. m \in 1 .. n  BY <1>2
<1>4. \A j \in m + 1 .. n : j \notin s  BY <1>2, <1>3
<1>. QED  BY <1>2, <1>4

\* A map by name holds elements of the sequence.
LEMMA ByNameElements ==
    ASSUME NEW S, NEW seq \in Seq(S)
    PROVE  /\ DOMAIN ByName(seq) = {seq[i].name : i \in DOMAIN seq}
           /\ \A n \in DOMAIN ByName(seq) : \E i \in DOMAIN seq : ByName(seq)[n] = seq[i] /\ seq[i].name = n
           /\ \A n \in DOMAIN ByName(seq) : ByName(seq)[n] \in S /\ ByName(seq)[n] \in ToSet(seq)
<1> DEFINE N == {seq[i].name : i \in DOMAIN seq}
           Is(n, i) == seq[i].name = n /\ \A j \in i + 1 .. Len(seq) : seq[j].name # n
           index(n) == CHOOSE i \in DOMAIN seq : Is(n, i)
<1>1. ByName(seq) = [n \in N |-> seq[index(n)]]  BY Zenon DEF ByName
<1>2. DOMAIN seq = 1 .. Len(seq) /\ Len(seq) \in Nat  BY LenProperties
<1>3. ASSUME NEW n \in N PROVE index(n) \in DOMAIN seq /\ seq[index(n)].name = n
  <2> DEFINE s == {i \in DOMAIN seq : seq[i].name = n}
  <2>1. s \in SUBSET (1 .. Len(seq)) /\ s # {}  BY <1>2, Zenon
  <2>2. PICK i \in s : \A j \in i + 1 .. Len(seq) : j \notin s
    <3> HIDE DEF s
    <3>. QED  BY <1>2, <2>1, LastIndex
  <2>3. \A j \in i + 1 .. Len(seq) : j \in DOMAIN seq  BY <1>2
  <2>4. i \in DOMAIN seq /\ Is(n, i)  BY <2>2, <2>3, Zenon
  <2> HIDE DEF Is
  <2>5. index(n) \in DOMAIN seq /\ Is(n, index(n))  BY <2>4, Zenon
  <2>. QED  BY <2>5, Zenon DEF Is
<1>4. \A i \in DOMAIN seq : seq[i] \in S /\ seq[i] \in ToSet(seq)  BY <1>2, ElementOfSeq DEF ToSet
<1> HIDE DEF index, N
<1>5. DOMAIN ByName(seq) = N /\ \A n \in N : ByName(seq)[n] = seq[index(n)]  BY <1>1, Zenon
<1>. QED  BY <1>3, <1>4, <1>5, Zenon DEF N

\* Types of what a map by name holds.
Typed(m) == \A n \in DOMAIN m : m[n].type \in TypeRefs

LEMMA TypesDiffer ==
    ASSUME NEW x \in TypeRefs, NEW y \in TypeRefs, x # y, x.named = y.named
    PROVE  x.nonNull # y.nonNull
BY DEF TypeRefs

LEMMA ArgsTyped ==
    ASSUME NEW seq \in Seq(GqlArgs)
    PROVE  Typed(ByName(seq)) /\ \A n \in DOMAIN ByName(seq) : ByName(seq)[n] \in ToSet(seq)
<1>1. \A x \in GqlArgs : x.type \in TypeRefs  BY DEF GqlArgs
<1>. QED  BY <1>1, ByNameElements, Zenon DEF Typed

LEMMA FieldsTyped ==
    ASSUME NEW seq \in Seq(GqlFields)
    PROVE  /\ Typed(ByName(seq))
           /\ \A n \in DOMAIN ByName(seq) : ByName(seq)[n] \in GqlFields /\ ByName(seq)[n] \in ToSet(seq)
<1>1. \A x \in GqlFields : x.type \in TypeRefs  BY DEF GqlFields
<1>. QED  BY <1>1, ByNameElements, Zenon DEF Typed

\* An incompatible change breaks a client or changes a nullability.
LEMMA InputAlarm ==
    ASSUME NEW b, NEW h, Typed(b), Typed(h), ~SafeNamed(b, h, TRUE)
    PROVE  InputBroken(b, h) \/ Nullable(b, h)
<1>1. CASE ~(DOMAIN b \subseteq DOMAIN h)
  <2>1. PICK n \in DOMAIN b \ DOMAIN h : TRUE  BY <1>1, Zenon
  <2>2. Sendable(b[n]) # {"nothing"}  BY SendableValues
  <2>. QED  BY <2>1, <2>2, Zenon DEF InputBroken
<1>2. CASE \E n \in DOMAIN h \ DOMAIN b : Required(h[n])  BY <1>2, Zenon DEF InputBroken
<1>3. CASE \E n \in DOMAIN b \cap DOMAIN h : ~SafeCommon(b[n], h[n], TRUE)
  <2>1. PICK n \in DOMAIN b \cap DOMAIN h : ~SafeCommon(b[n], h[n], TRUE)  BY <1>3
  <2>2. b[n].type \in TypeRefs /\ h[n].type \in TypeRefs  BY <2>1, Zenon DEF Typed
  <2>3. CASE b[n].type # h[n].type
    <3>1. CASE b[n].type.named = h[n].type.named
      <4>1. b[n].type.nonNull # h[n].type.nonNull  BY <2>2, <2>3, <3>1, TypesDiffer
      <4>. QED  BY <2>1, <3>1, <4>1, Zenon DEF Nullable
    <3>2. CASE b[n].type.named # h[n].type.named  BY <2>1, <3>2, Zenon DEF InputBroken
    <3>. QED  BY <3>1, <3>2
  <2>4. CASE b[n].type = h[n].type
    <3>1. LosesDefault(b[n], h[n])  BY <2>1, <2>4, Zenon DEF SafeCommon
    <3>2. ~Required(b[n]) /\ Required(h[n])  BY <3>1, Zenon DEF LosesDefault, Required
    <3>3. ~(Sendable(b[n]) \subseteq Sendable(h[n]))  BY <3>2, SendableValues, Zenon
    <3>. QED  BY <2>1, <3>3, Zenon DEF InputBroken
  <2>. QED  BY <2>3, <2>4
<1>. QED  BY <1>1, <1>2, <1>3, Zenon DEF SafeNamed

LEMMA OutputAlarm ==
    ASSUME NEW b, NEW h, Typed(b), Typed(h),
           \A n \in DOMAIN b : b[n].args \in Seq(GqlArgs), \A n \in DOMAIN h : h[n].args \in Seq(GqlArgs),
           ~SafeFields(b, h, FALSE)
    PROVE  \/ OutputBroken(b, h)
           \/ Nullable(b, h)
           \/ \E n \in DOMAIN b \cap DOMAIN h : Nullable(ByName(b[n].args), ByName(h[n].args))
<1>1. CASE ~SafeNamed(b, h, FALSE)
  <2>1. CASE ~(DOMAIN b \subseteq DOMAIN h)
    <3>1. DOMAIN b \ DOMAIN h # {}  BY <2>1, Zenon
    <3>. QED  BY <3>1, Zenon DEF OutputBroken
  <2>2. CASE \E n \in DOMAIN b \cap DOMAIN h : ~SafeCommon(b[n], h[n], FALSE)
    <3>1. PICK n \in DOMAIN b \cap DOMAIN h : b[n].type # h[n].type  BY <2>2, Zenon DEF SafeCommon
    <3>2. b[n].type \in TypeRefs /\ h[n].type \in TypeRefs  BY <3>1, Zenon DEF Typed
    <3>3. CASE b[n].type.named = h[n].type.named
      <4>1. b[n].type.nonNull # h[n].type.nonNull  BY <3>1, <3>2, <3>3, TypesDiffer
      <4>. QED  BY <3>1, <3>3, <4>1, Zenon DEF Nullable
    <3>4. CASE b[n].type.named # h[n].type.named  BY <3>1, <3>4, Zenon DEF OutputBroken
    <3>. QED  BY <3>3, <3>4
  <2>. QED  BY <1>1, <2>1, <2>2, Zenon DEF SafeNamed
<1>2. CASE \E n \in DOMAIN b \cap DOMAIN h : ~SafeNamed(ByName(b[n].args), ByName(h[n].args), TRUE)
  <2>1. PICK n \in DOMAIN b \cap DOMAIN h : ~SafeNamed(ByName(b[n].args), ByName(h[n].args), TRUE)  BY <1>2
  <2>2. Typed(ByName(b[n].args)) /\ Typed(ByName(h[n].args))  BY <2>1, ArgsTyped, Zenon
  <2>3. InputBroken(ByName(b[n].args), ByName(h[n].args)) \/ Nullable(ByName(b[n].args), ByName(h[n].args))
    BY <2>1, <2>2, InputAlarm, Zenon
  <2>. QED  BY <2>1, <2>3, Zenon DEF OutputBroken
<1>. QED  BY <1>1, <1>2, Zenon DEF SafeFields

\* The types a document has when it is read: inputs have no arguments.
ConvertedTypes ==
    {t \in GqlTypes : t.kind = "input" => \A i \in DOMAIN t.fields : t.fields[i].args = <<>>}

\* Fields of inputs have no arguments.
LEMMA InputFields ==
    ASSUME NEW b \in ConvertedTypes, NEW h \in ConvertedTypes, b.kind = "input", h.kind = "input",
           SafeNamed(ByName(b.fields), ByName(h.fields), TRUE)
    PROVE  SafeFields(ByName(b.fields), ByName(h.fields), TRUE)
<1>1. ASSUME NEW t \in ConvertedTypes, t.kind = "input", NEW n \in DOMAIN ByName(t.fields)
      PROVE  ByName(t.fields)[n].args = <<>>
  <2>1. t.fields \in Seq(GqlFields)  BY DEF ConvertedTypes, GqlTypes
  <2>2. PICK i \in DOMAIN t.fields : ByName(t.fields)[n] = t.fields[i]  BY <1>1, <2>1, ByNameElements, Zenon
  <2>3. t.fields[i].args = <<>>  BY <1>1, <2>2, Zenon DEF ConvertedTypes
  <2>. QED  BY <2>2, <2>3, Zenon
<1>2. SafeNamed(ByName(<<>>), ByName(<<>>), TRUE)
  <2>1. DOMAIN <<>> = {}  OBVIOUS
  <2>2. DOMAIN ByName(<<>>) = {}
    <3>1. <<>> \in Seq({})  OBVIOUS
    <3>2. DOMAIN ByName(<<>>) = {<<>>[i].name : i \in DOMAIN <<>>}  BY <3>1, ByNameElements, Zenon
    <3>. QED  BY <2>1, <3>2, Zenon
  <2>. QED  BY <2>2, Zenon DEF SafeNamed
<1>. QED  BY <1>1, <1>2, Zenon DEF SafeFields

\* An incompatible type broke somebody, or is only more or less nullable.
LEMMA TypeAlarm ==
    ASSUME NEW b \in ConvertedTypes, NEW h \in ConvertedTypes, ~SafeType(b, h)
    PROVE  TypeBroken(b, h) \/ TypeNullability(b, h)
<1> DEFINE bs == ByName(b.fields)
           hs == ByName(h.fields)
<1>1. b.fields \in Seq(GqlFields) /\ h.fields \in Seq(GqlFields)  BY DEF ConvertedTypes, GqlTypes
<1>2. /\ Typed(bs) /\ Typed(hs)
      /\ \A n \in DOMAIN bs : bs[n] \in GqlFields
      /\ \A n \in DOMAIN hs : hs[n] \in GqlFields
  BY <1>1, FieldsTyped, Zenon
<1>3. \A f \in GqlFields : f.args \in Seq(GqlArgs)  BY DEF GqlFields
<1>4. /\ \A n \in DOMAIN bs : bs[n].args \in Seq(GqlArgs)
      /\ \A n \in DOMAIN hs : hs[n].args \in Seq(GqlArgs)
  BY <1>2, <1>3, Zenon
<1>5. CASE b.kind # h.kind  BY <1>5, Zenon DEF TypeBroken
<1>6. CASE b.kind = h.kind /\ b.kind \in {"object", "interface"} /\ ~SafeFields(bs, hs, FALSE)
  <2>1. \/ OutputBroken(bs, hs)
        \/ Nullable(bs, hs)
        \/ \E n \in DOMAIN bs \cap DOMAIN hs : Nullable(ByName(bs[n].args), ByName(hs[n].args))
    BY <1>2, <1>4, <1>6, OutputAlarm, Zenon
  <2>. QED  BY <1>6, <2>1, Zenon DEF TypeBroken, TypeNullability
<1>7. CASE b.kind = h.kind /\ b.kind = "input" /\ ~SafeFields(bs, hs, TRUE)
  <2>1. ~SafeNamed(bs, hs, TRUE)  BY <1>7, InputFields, Zenon
  <2>2. InputBroken(bs, hs) \/ Nullable(bs, hs)  BY <1>2, <2>1, InputAlarm, Zenon
  <2>. QED  BY <1>7, <2>2, Zenon DEF TypeBroken, TypeNullability
<1>8. CASE b.kind = h.kind /\ b.kind \in WithMembers /\ ~(ToSet(b.members) \subseteq ToSet(h.members))
  BY <1>8, Zenon DEF TypeBroken
<1>. QED  BY <1>5, <1>6, <1>7, <1>8, Zenon DEF SafeType

\* A change that is reported as breaking breaks a client, or is one of nullability.
LEMMA GraphQlAlarm ==
    ASSUME NEW b, NEW h, ~SafeGraphQl(b, h),
           \A n \in DOMAIN b : b[n] \in ConvertedTypes, \A n \in DOMAIN h : h[n] \in ConvertedTypes
    PROVE  GraphQlBroken(b, h) \/ NullabilityOnly(b, h)
<1>1. CASE ~(DOMAIN b \subseteq DOMAIN h)
  <2>1. PICK n \in DOMAIN b : n \notin DOMAIN h  BY <1>1, Zenon
  <2>. QED  BY <2>1, Zenon DEF GraphQlBroken
<1>2. CASE DOMAIN b \subseteq DOMAIN h /\ \E n \in DOMAIN b : ~SafeType(b[n], h[n])
  <2>1. PICK n \in DOMAIN b : ~SafeType(b[n], h[n])  BY <1>2
  <2>2. n \in DOMAIN b \cap DOMAIN h  BY <1>2, <2>1, Zenon
  <2>3. b[n] \in ConvertedTypes /\ h[n] \in ConvertedTypes  BY <2>2
  <2>4. TypeBroken(b[n], h[n]) \/ TypeNullability(b[n], h[n])  BY <2>1, <2>3, TypeAlarm, Zenon
  <2>5. CASE TypeBroken(b[n], h[n])  BY <2>1, <2>5, Zenon DEF GraphQlBroken
  <2>6. CASE TypeNullability(b[n], h[n])  BY <2>2, <2>6, Zenon DEF NullabilityOnly
  <2>. QED  BY <2>4, <2>5, <2>6
<1>. QED  BY <1>1, <1>2, Zenon DEF SafeGraphQl

-----------------------------------------------------------------------------
(* The Protobuf engine.                                                    *)

LEMMA ByNumberElements ==
    ASSUME NEW S, NEW seq \in Seq(S)
    PROVE  /\ DOMAIN FieldKey(seq) = {seq[i].number : i \in DOMAIN seq}
           /\ \A n \in DOMAIN FieldKey(seq) : \E i \in DOMAIN seq : FieldKey(seq)[n] = seq[i] /\ seq[i].number = n
<1> DEFINE N == {seq[i].number : i \in DOMAIN seq}
           Is(n, i) == seq[i].number = n /\ \A j \in i + 1 .. Len(seq) : seq[j].number # n
           index(n) == CHOOSE i \in DOMAIN seq : Is(n, i)
<1>1. FieldKey(seq) = [n \in N |-> seq[index(n)]]  BY Zenon DEF FieldKey, ByNumber
<1>2. DOMAIN seq = 1 .. Len(seq) /\ Len(seq) \in Nat  BY LenProperties
<1>3. ASSUME NEW n \in N PROVE index(n) \in DOMAIN seq /\ seq[index(n)].number = n
  <2> DEFINE s == {i \in DOMAIN seq : seq[i].number = n}
  <2>1. s \in SUBSET (1 .. Len(seq)) /\ s # {}  BY <1>2, Zenon
  <2>2. PICK i \in s : \A j \in i + 1 .. Len(seq) : j \notin s
    <3> HIDE DEF s
    <3>. QED  BY <1>2, <2>1, LastIndex
  <2>3. \A j \in i + 1 .. Len(seq) : j \in DOMAIN seq  BY <1>2
  <2>4. i \in DOMAIN seq /\ Is(n, i)  BY <2>2, <2>3, Zenon
  <2> HIDE DEF Is
  <2>5. index(n) \in DOMAIN seq /\ Is(n, index(n))  BY <2>4, Zenon
  <2>. QED  BY <2>5, Zenon DEF Is
<1> HIDE DEF index, N
<1>4. DOMAIN FieldKey(seq) = N /\ \A n \in N : FieldKey(seq)[n] = seq[index(n)]  BY <1>1, Zenon
<1>. QED  BY <1>3, <1>4, Zenon DEF N

\* What the engine takes for a compatible change.
SafeMessage(b, h) ==
    /\ DOMAIN FieldKey(b) \subseteq DOMAIN FieldKey(h)
    /\ \A n \in DOMAIN FieldKey(b) : FieldKey(b)[n].type = FieldKey(h)[n].type

\* Names and their numbers stay.
SafeEnum(b, h) ==
    /\ DOMAIN ByName(b) \subseteq DOMAIN ByName(h)
    /\ \A n \in DOMAIN ByName(b) : ByName(b)[n].number = ByName(h)[n].number

\* Calls and their signatures stay.
SafeService(b, h) ==
    /\ DOMAIN ByName(b) \subseteq DOMAIN ByName(h)
    /\ \A n \in DOMAIN ByName(b) : SameSignature(ByName(b)[n], ByName(h)[n])

\* Nothing goes, and each declaration changes in a compatible way.
SafeProto(b, h) ==
    /\ DOMAIN b.messages \subseteq DOMAIN h.messages
    /\ DOMAIN b.enums \subseteq DOMAIN h.enums
    /\ DOMAIN b.services \subseteq DOMAIN h.services
    /\ \A n \in DOMAIN b.messages : SafeMessage(b.messages[n], h.messages[n])
    /\ \A n \in DOMAIN b.enums : SafeEnum(b.enums[n], h.enums[n])
    /\ \A n \in DOMAIN b.services : SafeService(b.services[n], h.services[n])

\* Two compatible releases are one.
LEMMA ProtoTransitive ==
    ASSUME NEW a, NEW b, NEW c, SafeProto(a, b), SafeProto(b, c)
    PROVE  SafeProto(a, c)
<1>1. \A x, y, z : SafeMessage(x, y) /\ SafeMessage(y, z) => SafeMessage(x, z)  BY DEF SafeMessage
<1>2. \A x, y, z : SafeEnum(x, y) /\ SafeEnum(y, z) => SafeEnum(x, z)  BY DEF SafeEnum
<1>3. \A x, y, z : SafeService(x, y) /\ SafeService(y, z) => SafeService(x, z)  BY DEF SafeService, SameSignature
<1>4. /\ DOMAIN a.messages \subseteq DOMAIN b.messages /\ DOMAIN b.messages \subseteq DOMAIN c.messages
      /\ DOMAIN a.enums \subseteq DOMAIN b.enums /\ DOMAIN b.enums \subseteq DOMAIN c.enums
      /\ DOMAIN a.services \subseteq DOMAIN b.services /\ DOMAIN b.services \subseteq DOMAIN c.services
  BY Zenon DEF SafeProto
<1>5. ASSUME NEW n \in DOMAIN a.messages PROVE SafeMessage(a.messages[n], c.messages[n])
  <2>1. n \in DOMAIN b.messages  BY <1>4, Zenon
  <2>2. SafeMessage(a.messages[n], b.messages[n]) /\ SafeMessage(b.messages[n], c.messages[n])  BY <2>1, Zenon DEF SafeProto
  <2>. QED  BY <1>1, <2>2, Zenon
<1>6. ASSUME NEW n \in DOMAIN a.enums PROVE SafeEnum(a.enums[n], c.enums[n])
  <2>1. n \in DOMAIN b.enums  BY <1>4, Zenon
  <2>2. SafeEnum(a.enums[n], b.enums[n]) /\ SafeEnum(b.enums[n], c.enums[n])  BY <2>1, Zenon DEF SafeProto
  <2>. QED  BY <1>2, <2>2, Zenon
<1>7. ASSUME NEW n \in DOMAIN a.services PROVE SafeService(a.services[n], c.services[n])
  <2>1. n \in DOMAIN b.services  BY <1>4, Zenon
  <2>2. SafeService(a.services[n], b.services[n]) /\ SafeService(b.services[n], c.services[n])  BY <2>1, Zenon DEF SafeProto
  <2>. QED  BY <1>3, <2>2, Zenon
<1>8. /\ DOMAIN a.messages \subseteq DOMAIN c.messages
      /\ DOMAIN a.enums \subseteq DOMAIN c.enums
      /\ DOMAIN a.services \subseteq DOMAIN c.services
  BY <1>4, Zenon
<1>. QED  BY <1>5, <1>6, <1>7, <1>8, Zenon DEF SafeProto

\* No breaking change is reported exactly when the change is compatible:
\* of a field, a message, an enum, a service, a schema.
LEMMA FieldChanges ==
    ASSUME NEW path, NEW b, NEW h
    PROVE  /\ Breaking(DiffField(path, b, h)) = {} <=> b.type = h.type
           /\ Known(DiffField(path, b, h))
           /\ DiffField(path, b, b) = {}
<1> DEFINE X == IF b.type # h.type THEN {Change(path, "TypeChanged", "breaking")} ELSE {}
           Y == IF b.name # h.name THEN {Change(path, "FieldRemoved", "risky")} ELSE {}
<1>1. "risky" # "breaking"  OBVIOUS
<1>2. Breaking({Change(path, "TypeChanged", "breaking")}) # {} /\ Known({Change(path, "TypeChanged", "breaking")})
  BY KnownSeverities, OneChange
<1>3. Breaking({Change(path, "FieldRemoved", "risky")}) = {} /\ Known({Change(path, "FieldRemoved", "risky")})
  BY <1>1, KnownSeverities, OneChange
<1>4. (Breaking(X) = {} <=> b.type = h.type) /\ Known(X)  BY <1>2, NoChange, Zenon
<1>5. Breaking(Y) = {} /\ Known(Y)  BY <1>3, NoChange, Zenon
<1>6. DiffField(path, b, h) = X \cup Y  BY Zenon DEF DiffField
<1>7. DiffField(path, b, b) = {}  BY Zenon DEF DiffField
<1> HIDE DEF X, Y
<1>. QED  BY <1>4, <1>5, <1>6, <1>7, BothParts, Zenon

LEMMA MessageChanges ==
    ASSUME NEW name, NEW base, NEW head
    PROVE  /\ Breaking(DiffMessage(name, base, head)) = {} <=> SafeMessage(base, head)
           /\ Known(DiffMessage(name, base, head))
           /\ DiffMessage(name, base, base) = {}
<1> DEFINE b == FieldKey(base)
           h == FieldKey(head)
           X == {Change(<<name, b[n].name>>, "FieldRemoved", "breaking") : n \in DOMAIN b \ DOMAIN h}
           Y == {Change(<<name, h[n].name>>, "FieldAdded", "safe") : n \in DOMAIN h \ DOMAIN b}
           U == {DiffField(<<name, b[n].name>>, b[n], h[n]) : n \in DOMAIN b \cap DOMAIN h}
<1>1. (\A c \in X : c.severity = "breaking") /\ (\A c \in Y : c.severity = "safe")
  <2> HIDE DEF b, h
  <2>. QED  BY DEF Change
<1>2. X = {} <=> DOMAIN b \ DOMAIN h = {}  BY Zenon
<1>3. DOMAIN b \ DOMAIN h = {} <=> DOMAIN b \subseteq DOMAIN h  BY Zenon
<1>4. \A x \in U : \E n \in DOMAIN b \cap DOMAIN h : x = DiffField(<<name, b[n].name>>, b[n], h[n])  BY Zenon
<1>5. \A n \in DOMAIN b \cap DOMAIN h : DiffField(<<name, b[n].name>>, b[n], h[n]) \in U  BY Zenon
<1>6. DiffMessage(name, base, head) = X \cup Y \cup UNION U  BY Zenon DEF DiffMessage
<1>7. DiffMessage(name, base, base) = {}
  <2>1. \A n : DiffField(<<name, b[n].name>>, b[n], b[n]) = {}  BY FieldChanges, Zenon
  <2>. QED  BY <2>1, Zenon DEF DiffMessage
<1>8. SafeMessage(base, head) <=>
        DOMAIN b \subseteq DOMAIN h /\ \A n \in DOMAIN b \cap DOMAIN h : b[n].type = h[n].type
  BY Zenon DEF SafeMessage
<1> HIDE DEF X, Y, U, b, h
<1>9. (Breaking(X) = {} <=> DOMAIN b \subseteq DOMAIN h) /\ Known(X)
  BY <1>1, <1>2, <1>3, KnownSeverities, AlikeChanges
<1>10. Breaking(Y) = {} /\ Known(Y)  BY <1>1, KnownSeverities, AlikeChanges
<1>11. Breaking(UNION U) = {} <=> \A n \in DOMAIN b \cap DOMAIN h : b[n].type = h[n].type
  <2>1. Breaking(UNION U) = {} <=> \A x \in U : Breaking(x) = {}  BY Collected, Zenon
  <2>2. ASSUME \A x \in U : Breaking(x) = {}, NEW n \in DOMAIN b \cap DOMAIN h PROVE b[n].type = h[n].type
    <3>1. Breaking(DiffField(<<name, b[n].name>>, b[n], h[n])) = {}  BY <1>5, <2>2, Zenon
    <3>2. Breaking(DiffField(<<name, b[n].name>>, b[n], h[n])) = {} <=> b[n].type = h[n].type  BY FieldChanges
    <3>. QED  BY <3>1, <3>2, Zenon
  <2>3. ASSUME \A n \in DOMAIN b \cap DOMAIN h : b[n].type = h[n].type, NEW x \in U PROVE Breaking(x) = {}
    <3>1. PICK n \in DOMAIN b \cap DOMAIN h : x = DiffField(<<name, b[n].name>>, b[n], h[n])  BY <1>4, Zenon
    <3>2. Breaking(DiffField(<<name, b[n].name>>, b[n], h[n])) = {} <=> b[n].type = h[n].type  BY FieldChanges
    <3>. QED  BY <2>3, <3>1, <3>2, Zenon
  <2>. QED  BY <2>1, <2>2, <2>3, Zenon
<1>12. Known(UNION U)
  <2>1. Known(UNION U) <=> \A x \in U : Known(x)  BY Collected, Zenon
  <2>2. ASSUME NEW x \in U PROVE Known(x)
    <3>1. PICK n \in DOMAIN b \cap DOMAIN h : x = DiffField(<<name, b[n].name>>, b[n], h[n])  BY <1>4, Zenon
    <3>. QED  BY <3>1, FieldChanges, Zenon
  <2>. QED  BY <2>1, <2>2, Zenon
<1>13. /\ Breaking(X \cup Y \cup UNION U) = {} <=> Breaking(X) = {} /\ Breaking(Y) = {} /\ Breaking(UNION U) = {}
       /\ Known(X \cup Y \cup UNION U) <=> Known(X) /\ Known(Y) /\ Known(UNION U)
  BY ThreeParts, Zenon
<1>. QED  BY <1>6, <1>7, <1>8, <1>9, <1>10, <1>11, <1>12, <1>13, Zenon

LEMMA EnumChanges ==
    ASSUME NEW name, NEW base, NEW head
    PROVE  /\ Breaking(DiffEnum(name, base, head)) = {} <=> SafeEnum(base, head)
           /\ Known(DiffEnum(name, base, head))
           /\ DiffEnum(name, base, base) = {}
<1> DEFINE b == ByName(base)
           h == ByName(head)
           W == {w \in DOMAIN b \cap DOMAIN h : b[w].number # h[w].number}
           X == {Change(<<name, v>>, "EnumValueRemoved", "breaking") : v \in DOMAIN b \ DOMAIN h}
           Y == {Change(<<name, v>>, "EnumValueAdded", "risky") : v \in DOMAIN h \ DOMAIN b}
           Z == {Change(<<name, v>>, "TypeChanged", "breaking") : v \in W}
<1>1. /\ \A c \in X : c.severity = "breaking"
      /\ \A c \in Y : c.severity = "risky"
      /\ \A c \in Z : c.severity = "breaking"
  <2> HIDE DEF b, h, W
  <2>. QED  BY DEF Change
<1>2. (X = {} <=> DOMAIN b \ DOMAIN h = {}) /\ (Z = {} <=> W = {})
  <2> HIDE DEF b, h, W
  <2>. QED  BY Zenon
<1>3. DOMAIN b \ DOMAIN h = {} <=> DOMAIN b \subseteq DOMAIN h  BY Zenon
<1>4. W = {} <=> \A w \in DOMAIN b \cap DOMAIN h : b[w].number = h[w].number  BY Zenon
<1>5. DiffEnum(name, base, head) = X \cup Y \cup Z  BY Zenon DEF DiffEnum
<1>6. DiffEnum(name, base, base) = {}  BY Zenon DEF DiffEnum
<1>7. SafeEnum(base, head) <=>
        DOMAIN b \subseteq DOMAIN h /\ \A w \in DOMAIN b \cap DOMAIN h : b[w].number = h[w].number
  BY Zenon DEF SafeEnum
<1> HIDE DEF X, Y, Z, W, b, h
<1>8. (Breaking(X) = {} <=> X = {}) /\ Known(X)  BY <1>1, KnownSeverities, AlikeChanges
<1>9. Breaking(Y) = {} /\ Known(Y)  BY <1>1, KnownSeverities, AlikeChanges
<1>10. (Breaking(Z) = {} <=> Z = {}) /\ Known(Z)  BY <1>1, KnownSeverities, AlikeChanges
<1>11. /\ Breaking(X \cup Y \cup Z) = {} <=> Breaking(X) = {} /\ Breaking(Y) = {} /\ Breaking(Z) = {}
       /\ Known(X \cup Y \cup Z) <=> Known(X) /\ Known(Y) /\ Known(Z)
  BY ThreeParts, Zenon
<1>. QED  BY <1>2, <1>3, <1>4, <1>5, <1>6, <1>7, <1>8, <1>9, <1>10, <1>11, Zenon

LEMMA ServiceChanges ==
    ASSUME NEW name, NEW base, NEW head
    PROVE  /\ Breaking(DiffService(name, base, head)) = {} <=> SafeService(base, head)
           /\ Known(DiffService(name, base, head))
           /\ DiffService(name, base, base) = {}
<1> DEFINE b == ByName(base)
           h == ByName(head)
           W == {q \in DOMAIN b \cap DOMAIN h : ~SameSignature(b[q], h[q])}
           X == {Change(<<name, r>>, "OperationRemoved", "breaking") : r \in DOMAIN b \ DOMAIN h}
           Y == {Change(<<name, r>>, "OperationAdded", "safe") : r \in DOMAIN h \ DOMAIN b}
           Z == {Change(<<name, r>>, "TypeChanged", "breaking") : r \in W}
<1>1. /\ \A c \in X : c.severity = "breaking"
      /\ \A c \in Y : c.severity = "safe"
      /\ \A c \in Z : c.severity = "breaking"
  <2> HIDE DEF b, h, W
  <2>. QED  BY DEF Change
<1>2. (X = {} <=> DOMAIN b \ DOMAIN h = {}) /\ (Z = {} <=> W = {})
  <2> HIDE DEF b, h, W
  <2>. QED  BY Zenon
<1>3. DOMAIN b \ DOMAIN h = {} <=> DOMAIN b \subseteq DOMAIN h  BY Zenon
<1>4. W = {} <=> \A w \in DOMAIN b \cap DOMAIN h : SameSignature(b[w], h[w])  BY Zenon
<1>5. DiffService(name, base, head) = X \cup Y \cup Z  BY Zenon DEF DiffService
<1>6. DiffService(name, base, base) = {}
  <2>1. \A x : SameSignature(x, x)  BY Zenon DEF SameSignature
  <2>. QED  BY <2>1, Zenon DEF DiffService
<1>7. SafeService(base, head) <=>
        DOMAIN b \subseteq DOMAIN h /\ \A w \in DOMAIN b \cap DOMAIN h : SameSignature(b[w], h[w])
  BY Zenon DEF SafeService
<1> HIDE DEF X, Y, Z, W, b, h
<1>8. (Breaking(X) = {} <=> X = {}) /\ Known(X)  BY <1>1, KnownSeverities, AlikeChanges
<1>9. Breaking(Y) = {} /\ Known(Y)  BY <1>1, KnownSeverities, AlikeChanges
<1>10. (Breaking(Z) = {} <=> Z = {}) /\ Known(Z)  BY <1>1, KnownSeverities, AlikeChanges
<1>11. /\ Breaking(X \cup Y \cup Z) = {} <=> Breaking(X) = {} /\ Breaking(Y) = {} /\ Breaking(Z) = {}
       /\ Known(X \cup Y \cup Z) <=> Known(X) /\ Known(Y) /\ Known(Z)
  BY ThreeParts, Zenon
<1>. QED  BY <1>2, <1>3, <1>4, <1>5, <1>6, <1>7, <1>8, <1>9, <1>10, <1>11, Zenon

LEMMA OneSidedChanges ==
    ASSUME NEW what, NEW b, NEW h
    PROVE  /\ Breaking(OneSided(what, b, h)) = {} <=> DOMAIN b \subseteq DOMAIN h
           /\ Known(OneSided(what, b, h))
           /\ OneSided(what, b, b) = {}
<1> DEFINE X == {Change(<<what, n>>, "OperationRemoved", "breaking") : n \in DOMAIN b \ DOMAIN h}
           Y == {Change(<<what, n>>, "OperationAdded", "safe") : n \in DOMAIN h \ DOMAIN b}
<1>1. (\A c \in X : c.severity = "breaking") /\ (\A c \in Y : c.severity = "safe")  BY DEF Change
<1>2. X = {} <=> DOMAIN b \ DOMAIN h = {}  BY Zenon
<1>3. DOMAIN b \ DOMAIN h = {} <=> DOMAIN b \subseteq DOMAIN h  BY Zenon
<1>4. OneSided(what, b, h) = X \cup Y  BY Zenon DEF OneSided
<1>5. OneSided(what, b, b) = {}  BY Zenon DEF OneSided
<1> HIDE DEF X, Y
<1>6. (Breaking(X) = {} <=> X = {}) /\ Known(X)  BY <1>1, KnownSeverities, AlikeChanges
<1>7. Breaking(Y) = {} /\ Known(Y)  BY <1>1, KnownSeverities, AlikeChanges
<1>8. (Breaking(OneSided(what, b, h)) = {} <=> Breaking(X) = {}) /\ Known(OneSided(what, b, h))
  BY <1>4, <1>6, <1>7, OneBreakingPart
<1>. QED  BY <1>2, <1>3, <1>5, <1>6, <1>8, Zenon

\* The engine reports no breaking change exactly when there is none, and
\* nothing at all when a version is compared with itself.
LEMMA ProtoChanges ==
    ASSUME NEW b, NEW h
    PROVE  /\ Breaking(DiffProto(b, h)) = {} <=> SafeProto(b, h)
           /\ Known(DiffProto(b, h))
           /\ DiffProto(b, b) = {}
<1> DEFINE M == DOMAIN b.messages \cap DOMAIN h.messages
           E == DOMAIN b.enums \cap DOMAIN h.enums
           V == DOMAIN b.services \cap DOMAIN h.services
           Ms == {DiffMessage(n, b.messages[n], h.messages[n]) : n \in M}
           Es == {DiffEnum(n, b.enums[n], h.enums[n]) : n \in E}
           Vs == {DiffService(n, b.services[n], h.services[n]) : n \in V}
           X == OneSided("message", b.messages, h.messages)
           Y == OneSided("enum", b.enums, h.enums)
           Z == OneSided("service", b.services, h.services)
<1>1. DiffProto(b, h) = X \cup Y \cup Z \cup (UNION Ms) \cup (UNION Es) \cup (UNION Vs)  BY Zenon DEF DiffProto
<1>2. DiffProto(b, b) = {}
  <2>1. /\ \A n : DiffMessage(n, b.messages[n], b.messages[n]) = {}
        /\ \A n : DiffEnum(n, b.enums[n], b.enums[n]) = {}
        /\ \A n : DiffService(n, b.services[n], b.services[n]) = {}
        /\ \A what, m : OneSided(what, m, m) = {}
    BY MessageChanges, EnumChanges, ServiceChanges, OneSidedChanges, Zenon
  <2>. QED  BY <2>1, Zenon DEF DiffProto
<1>3. /\ \A x \in Ms : \E n \in M : x = DiffMessage(n, b.messages[n], h.messages[n])
      /\ \A n \in M : DiffMessage(n, b.messages[n], h.messages[n]) \in Ms
  BY Zenon
<1>4. /\ \A x \in Es : \E n \in E : x = DiffEnum(n, b.enums[n], h.enums[n])
      /\ \A n \in E : DiffEnum(n, b.enums[n], h.enums[n]) \in Es
  BY Zenon
<1>5. /\ \A x \in Vs : \E n \in V : x = DiffService(n, b.services[n], h.services[n])
      /\ \A n \in V : DiffService(n, b.services[n], h.services[n]) \in Vs
  BY Zenon
<1>6. /\ Breaking(X) = {} <=> DOMAIN b.messages \subseteq DOMAIN h.messages
      /\ Breaking(Y) = {} <=> DOMAIN b.enums \subseteq DOMAIN h.enums
      /\ Breaking(Z) = {} <=> DOMAIN b.services \subseteq DOMAIN h.services
      /\ Known(X) /\ Known(Y) /\ Known(Z)
  BY OneSidedChanges, Zenon
<1>7. SafeProto(b, h) <=>
        /\ DOMAIN b.messages \subseteq DOMAIN h.messages
        /\ DOMAIN b.enums \subseteq DOMAIN h.enums
        /\ DOMAIN b.services \subseteq DOMAIN h.services
        /\ \A n \in M : SafeMessage(b.messages[n], h.messages[n])
        /\ \A n \in E : SafeEnum(b.enums[n], h.enums[n])
        /\ \A n \in V : SafeService(b.services[n], h.services[n])
  BY DEF SafeProto
<1> HIDE DEF M, E, V, Ms, Es, Vs, X, Y, Z
<1>8. (Breaking(UNION Ms) = {} <=> \A n \in M : SafeMessage(b.messages[n], h.messages[n])) /\ Known(UNION Ms)
  <2>1. /\ Breaking(UNION Ms) = {} <=> \A x \in Ms : Breaking(x) = {}
        /\ Known(UNION Ms) <=> \A x \in Ms : Known(x)
    BY Collected, Zenon
  <2>2. \A n \in M : /\ Breaking(DiffMessage(n, b.messages[n], h.messages[n])) = {} <=> SafeMessage(b.messages[n], h.messages[n])
                     /\ Known(DiffMessage(n, b.messages[n], h.messages[n]))
    BY MessageChanges, Zenon
  <2>. QED  BY <1>3, <2>1, <2>2
<1>9. (Breaking(UNION Es) = {} <=> \A n \in E : SafeEnum(b.enums[n], h.enums[n])) /\ Known(UNION Es)
  <2>1. /\ Breaking(UNION Es) = {} <=> \A x \in Es : Breaking(x) = {}
        /\ Known(UNION Es) <=> \A x \in Es : Known(x)
    BY Collected, Zenon
  <2>2. \A n \in E : /\ Breaking(DiffEnum(n, b.enums[n], h.enums[n])) = {} <=> SafeEnum(b.enums[n], h.enums[n])
                     /\ Known(DiffEnum(n, b.enums[n], h.enums[n]))
    BY EnumChanges, Zenon
  <2>. QED  BY <1>4, <2>1, <2>2
<1>10. (Breaking(UNION Vs) = {} <=> \A n \in V : SafeService(b.services[n], h.services[n])) /\ Known(UNION Vs)
  <2>1. /\ Breaking(UNION Vs) = {} <=> \A x \in Vs : Breaking(x) = {}
        /\ Known(UNION Vs) <=> \A x \in Vs : Known(x)
    BY Collected, Zenon
  <2>2. \A n \in V : /\ Breaking(DiffService(n, b.services[n], h.services[n])) = {} <=> SafeService(b.services[n], h.services[n])
                     /\ Known(DiffService(n, b.services[n], h.services[n]))
    BY ServiceChanges, Zenon
  <2>. QED  BY <1>5, <2>1, <2>2
<1> DEFINE XYZ == X \cup Y \cup Z
<1>11. /\ Breaking(XYZ) = {} <=> Breaking(X) = {} /\ Breaking(Y) = {} /\ Breaking(Z) = {}
       /\ Known(XYZ) <=> Known(X) /\ Known(Y) /\ Known(Z)
  BY ThreeParts, Zenon
<1>12. DiffProto(b, h) = (XYZ \cup (UNION Ms) \cup (UNION Es)) \cup (UNION Vs)  BY <1>1, Zenon
<1> HIDE DEF XYZ
<1>13. /\ Breaking(XYZ \cup (UNION Ms) \cup (UNION Es)) = {} <=> Breaking(XYZ) = {} /\ Breaking(UNION Ms) = {} /\ Breaking(UNION Es) = {}
       /\ Known(XYZ \cup (UNION Ms) \cup (UNION Es)) <=> Known(XYZ) /\ Known(UNION Ms) /\ Known(UNION Es)
  BY ThreeParts, Zenon
<1>14. /\ Breaking(DiffProto(b, h)) = {} <=> Breaking(XYZ \cup (UNION Ms) \cup (UNION Es)) = {} /\ Breaking(UNION Vs) = {}
       /\ Known(DiffProto(b, h)) <=> Known(XYZ \cup (UNION Ms) \cup (UNION Es)) /\ Known(UNION Vs)
  <2> DEFINE P == XYZ \cup (UNION Ms) \cup (UNION Es)
             Q == UNION Vs
  <2>1. DiffProto(b, h) = P \cup Q  BY <1>12
  <2> HIDE DEF P, Q
  <2>2. /\ Breaking(P \cup Q) = {} <=> Breaking(P) = {} /\ Breaking(Q) = {}
        /\ Known(P \cup Q) <=> Known(P) /\ Known(Q)
    BY BothParts, Zenon
  <2>3. /\ Breaking(DiffProto(b, h)) = {} <=> Breaking(P) = {} /\ Breaking(Q) = {}
        /\ Known(DiffProto(b, h)) <=> Known(P) /\ Known(Q)
    BY <2>1, <2>2, Zenon
  <2>. QED  BY <2>3, Zenon DEF P, Q
<1>. QED  BY <1>2, <1>6, <1>7, <1>8, <1>9, <1>10, <1>11, <1>13, <1>14

-----------------------------------------------------------------------------
(* What the changes mean to peers.                                         *)

\* Of a message that has each number once the map holds every field.
LEMMA EachNumber ==
    ASSUME NEW S, NEW seq \in Seq(S), \A i, j \in DOMAIN seq : seq[i].number = seq[j].number => i = j
    PROVE  \A i \in DOMAIN seq : seq[i].number \in DOMAIN FieldKey(seq) /\ FieldKey(seq)[seq[i].number] = seq[i]
<1>1. ASSUME NEW i \in DOMAIN seq
      PROVE  seq[i].number \in DOMAIN FieldKey(seq) /\ FieldKey(seq)[seq[i].number] = seq[i]
  <2>0. DOMAIN FieldKey(seq) = {seq[k].number : k \in DOMAIN seq}  BY ByNumberElements, Zenon
  <2>1. seq[i].number \in DOMAIN FieldKey(seq)  BY <2>0, Zenon
  <2>2. PICK j \in DOMAIN seq : FieldKey(seq)[seq[i].number] = seq[j] /\ seq[j].number = seq[i].number
    BY <2>1, ByNumberElements, Zenon
  <2>3. i = j  BY <2>2, Zenon
  <2>. QED  BY <2>1, <2>2, <2>3, Zenon
<1>. QED  BY <1>1

LEMMA EachName ==
    ASSUME NEW S, NEW seq \in Seq(S), \A i, j \in DOMAIN seq : seq[i].name = seq[j].name => i = j
    PROVE  \A i \in DOMAIN seq : seq[i].name \in DOMAIN ByName(seq) /\ ByName(seq)[seq[i].name] = seq[i]
<1>1. ASSUME NEW i \in DOMAIN seq
      PROVE  seq[i].name \in DOMAIN ByName(seq) /\ ByName(seq)[seq[i].name] = seq[i]
  <2>0. DOMAIN ByName(seq) = {seq[k].name : k \in DOMAIN seq}  BY ByNameElements, Zenon
  <2>1. seq[i].name \in DOMAIN ByName(seq)  BY <2>0, Zenon
  <2>2. PICK j \in DOMAIN seq : ByName(seq)[seq[i].name] = seq[j] /\ seq[j].name = seq[i].name
    BY <2>1, ByNameElements, Zenon
  <2>3. i = j  BY <2>2, Zenon
  <2>. QED  BY <2>1, <2>2, <2>3, Zenon
<1>. QED  BY <1>1

\* Compatible means that peers of the old version are understood.
LEMMA MessageMeaning ==
    ASSUME NEW S, NEW b \in Seq(S), NEW h \in Seq(S),
           \A i, j \in DOMAIN b : b[i].number = b[j].number => i = j,
           \A i, j \in DOMAIN h : h[i].number = h[j].number => i = j
    PROVE  SafeMessage(b, h) <=> ~MessageBroken(b, h)
<1>1. \A i \in DOMAIN b : b[i].number \in DOMAIN FieldKey(b) /\ FieldKey(b)[b[i].number] = b[i]  BY EachNumber
<1>2. \A i \in DOMAIN h : h[i].number \in DOMAIN FieldKey(h) /\ FieldKey(h)[h[i].number] = h[i]  BY EachNumber
<1>3. \A n \in DOMAIN FieldKey(b) : \E i \in DOMAIN b : FieldKey(b)[n] = b[i] /\ b[i].number = n  BY ByNumberElements, Zenon
<1>4. \A n \in DOMAIN FieldKey(h) : \E i \in DOMAIN h : FieldKey(h)[n] = h[i] /\ h[i].number = n  BY ByNumberElements, Zenon
<1>5. ASSUME SafeMessage(b, h), NEW i \in DOMAIN b
      PROVE  \E j \in DOMAIN h : h[j].number = b[i].number /\ h[j].type = b[i].type
  <2>1. b[i].number \in DOMAIN FieldKey(h) /\ FieldKey(b)[b[i].number] = b[i]  BY <1>1, <1>5, Zenon DEF SafeMessage
  <2>2. PICK j \in DOMAIN h : FieldKey(h)[b[i].number] = h[j] /\ h[j].number = b[i].number  BY <1>4, <2>1, Zenon
  <2>3. FieldKey(b)[b[i].number].type = FieldKey(h)[b[i].number].type  BY <1>1, <1>5, Zenon DEF SafeMessage
  <2>4. h[j].type = b[i].type  BY <2>1, <2>2, <2>3, Zenon
  <2>. QED  BY <2>2, <2>4, Zenon
<1>6. ASSUME ~MessageBroken(b, h), NEW n \in DOMAIN FieldKey(b)
      PROVE  n \in DOMAIN FieldKey(h) /\ FieldKey(b)[n].type = FieldKey(h)[n].type
  <2>1. PICK i \in DOMAIN b : FieldKey(b)[n] = b[i] /\ b[i].number = n  BY <1>3, Zenon
  <2>2. PICK j \in DOMAIN h : h[j].number = b[i].number /\ h[j].type = b[i].type  BY <1>6, Zenon DEF MessageBroken
  <2>3. n \in DOMAIN FieldKey(h) /\ FieldKey(h)[n] = h[j]  BY <1>2, <2>1, <2>2, Zenon
  <2>. QED  BY <2>1, <2>2, <2>3, Zenon
<1>. QED  BY <1>5, <1>6, Zenon DEF SafeMessage, MessageBroken

LEMMA EnumMeaning ==
    ASSUME NEW S, NEW b \in Seq(S), NEW h \in Seq(S),
           \A i, j \in DOMAIN b : b[i].name = b[j].name => i = j,
           \A i, j \in DOMAIN h : h[i].name = h[j].name => i = j
    PROVE  SafeEnum(b, h) <=> ~EnumBroken(b, h)
<1>1. \A i \in DOMAIN b : b[i].name \in DOMAIN ByName(b) /\ ByName(b)[b[i].name] = b[i]  BY EachName
<1>2. \A i \in DOMAIN h : h[i].name \in DOMAIN ByName(h) /\ ByName(h)[h[i].name] = h[i]  BY EachName
<1>3. \A n \in DOMAIN ByName(b) : \E i \in DOMAIN b : ByName(b)[n] = b[i] /\ b[i].name = n  BY ByNameElements, Zenon
<1>4. \A n \in DOMAIN ByName(h) : \E i \in DOMAIN h : ByName(h)[n] = h[i] /\ h[i].name = n  BY ByNameElements, Zenon
<1>5. ASSUME SafeEnum(b, h), NEW i \in DOMAIN b
      PROVE  \E j \in DOMAIN h : h[j].number = b[i].number /\ h[j].name = b[i].name
  <2>1. b[i].name \in DOMAIN ByName(h) /\ ByName(b)[b[i].name] = b[i]  BY <1>1, <1>5, Zenon DEF SafeEnum
  <2>2. PICK j \in DOMAIN h : ByName(h)[b[i].name] = h[j] /\ h[j].name = b[i].name  BY <1>4, <2>1, Zenon
  <2>3. ByName(b)[b[i].name].number = ByName(h)[b[i].name].number  BY <1>1, <1>5, Zenon DEF SafeEnum
  <2>4. h[j].number = b[i].number  BY <2>1, <2>2, <2>3, Zenon
  <2>. QED  BY <2>2, <2>4, Zenon
<1>6. ASSUME ~EnumBroken(b, h), NEW n \in DOMAIN ByName(b)
      PROVE  n \in DOMAIN ByName(h) /\ ByName(b)[n].number = ByName(h)[n].number
  <2>1. PICK i \in DOMAIN b : ByName(b)[n] = b[i] /\ b[i].name = n  BY <1>3, Zenon
  <2>2. PICK j \in DOMAIN h : h[j].number = b[i].number /\ h[j].name = b[i].name  BY <1>6, Zenon DEF EnumBroken
  <2>3. n \in DOMAIN ByName(h) /\ ByName(h)[n] = h[j]  BY <1>2, <2>1, <2>2, Zenon
  <2>. QED  BY <2>1, <2>2, <2>3, Zenon
<1>. QED  BY <1>5, <1>6, Zenon DEF SafeEnum, EnumBroken

LEMMA ServiceMeaning ==
    ASSUME NEW S, NEW b \in Seq(S), NEW h \in Seq(S),
           \A i, j \in DOMAIN b : b[i].name = b[j].name => i = j,
           \A i, j \in DOMAIN h : h[i].name = h[j].name => i = j
    PROVE  SafeService(b, h) <=> ~ServiceBroken(b, h)
<1>1. \A i \in DOMAIN b : b[i].name \in DOMAIN ByName(b) /\ ByName(b)[b[i].name] = b[i]  BY EachName
<1>2. \A i \in DOMAIN h : h[i].name \in DOMAIN ByName(h) /\ ByName(h)[h[i].name] = h[i]  BY EachName
<1>3. \A n \in DOMAIN ByName(b) : \E i \in DOMAIN b : ByName(b)[n] = b[i] /\ b[i].name = n  BY ByNameElements, Zenon
<1>4. \A n \in DOMAIN ByName(h) : \E i \in DOMAIN h : ByName(h)[n] = h[i] /\ h[i].name = n  BY ByNameElements, Zenon
<1>5. ASSUME SafeService(b, h), NEW i \in DOMAIN b
      PROVE  \E j \in DOMAIN h : h[j].name = b[i].name /\ h[j].input = b[i].input /\ h[j].output = b[i].output
  <2>1. b[i].name \in DOMAIN ByName(h) /\ ByName(b)[b[i].name] = b[i]  BY <1>1, <1>5, Zenon DEF SafeService
  <2>2. PICK j \in DOMAIN h : ByName(h)[b[i].name] = h[j] /\ h[j].name = b[i].name  BY <1>4, <2>1, Zenon
  <2>3. SameSignature(ByName(b)[b[i].name], ByName(h)[b[i].name])  BY <1>1, <1>5, Zenon DEF SafeService
  <2>4. SameSignature(b[i], h[j])  BY <2>1, <2>2, <2>3, Zenon
  <2>. QED  BY <2>2, <2>4, Zenon DEF SameSignature
<1>6. ASSUME ~ServiceBroken(b, h), NEW n \in DOMAIN ByName(b)
      PROVE  n \in DOMAIN ByName(h) /\ SameSignature(ByName(b)[n], ByName(h)[n])
  <2>1. PICK i \in DOMAIN b : ByName(b)[n] = b[i] /\ b[i].name = n  BY <1>3, Zenon
  <2>2. PICK j \in DOMAIN h : h[j].name = b[i].name /\ h[j].input = b[i].input /\ h[j].output = b[i].output
    BY <1>6, Zenon DEF ServiceBroken
  <2>3. n \in DOMAIN ByName(h) /\ ByName(h)[n] = h[j]  BY <1>2, <2>1, <2>2, Zenon
  <2>4. SameSignature(b[i], h[j])  BY <2>2, Zenon DEF SameSignature
  <2>. QED  BY <2>1, <2>3, <2>4, Zenon
<1>. QED  BY <1>5, <1>6, Zenon DEF SafeService, ServiceBroken

\* The engine reports a change as breaking if and only if it breaks a peer.
LEMMA ProtoMeaning ==
    ASSUME NEW b, NEW h, IsProtoSchema(b), IsProtoSchema(h)
    PROVE  SafeProto(b, h) <=> ~ProtoBroken(b, h)
<1>1. \A n \in DOMAIN b.messages \cap DOMAIN h.messages :
        SafeMessage(b.messages[n], h.messages[n]) <=> ~MessageBroken(b.messages[n], h.messages[n])
  BY MessageMeaning, Zenon DEF IsProtoSchema
<1>2. \A n \in DOMAIN b.enums \cap DOMAIN h.enums :
        SafeEnum(b.enums[n], h.enums[n]) <=> ~EnumBroken(b.enums[n], h.enums[n])
  BY EnumMeaning, Zenon DEF IsProtoSchema
<1>3. \A n \in DOMAIN b.services \cap DOMAIN h.services :
        SafeService(b.services[n], h.services[n]) <=> ~ServiceBroken(b.services[n], h.services[n])
  BY ServiceMeaning, Zenon DEF IsProtoSchema
<1>4. /\ MapBroken(b.messages, h.messages, MessageBroken) <=>
           \E n \in DOMAIN b.messages : n \notin DOMAIN h.messages \/ MessageBroken(b.messages[n], h.messages[n])
      /\ MapBroken(b.enums, h.enums, EnumBroken) <=>
           \E n \in DOMAIN b.enums : n \notin DOMAIN h.enums \/ EnumBroken(b.enums[n], h.enums[n])
      /\ MapBroken(b.services, h.services, ServiceBroken) <=>
           \E n \in DOMAIN b.services : n \notin DOMAIN h.services \/ ServiceBroken(b.services[n], h.services[n])
  BY Zenon DEF MapBroken
<1>. QED  BY <1>1, <1>2, <1>3, <1>4 DEF SafeProto, ProtoBroken

-----------------------------------------------------------------------------
(* The documents.                                                          *)

LEMMA TypeParts ==
    ASSUME NEW t
    PROVE  t \in GqlTypes <=>
             /\ t \in [kind : GqlKinds, fields : Seq(GqlFields), members : Seq(STRING)]
             /\ t.kind \notin WithFields => t.fields = <<>>
             /\ t.kind \notin WithMembers => t.members = <<>>
BY Zenon DEF GqlTypes

LEMMA KeptFields ==
    ASSUME NEW f \in GqlFields
    PROVE  FieldToGql(f) \in GqlFields /\ InputValueToField(f) \in GqlFields /\ InputValueToField(f).args = <<>>
<1>1. <<>> \in Seq(GqlArgs)  OBVIOUS
<1>. QED  BY <1>1 DEF FieldToGql, InputValueToField, GqlFields

\* Conversion keeps the kind, the members and the types.
LEMMA ConvertedType ==
    ASSUME NEW t \in GqlTypes
    PROVE  /\ ConvertTypeDef(t) \in ConvertedTypes
           /\ ConvertTypeDef(t).kind = t.kind
           /\ ConvertTypeDef(t).members = t.members
           /\ t.fields = <<>> => ConvertTypeDef(t).fields = <<>>
<1> DEFINE fs == [i \in DOMAIN t.fields |->
                    IF t.kind = "input" THEN InputValueToField(t.fields[i]) ELSE FieldToGql(t.fields[i])]
           c == ConvertTypeDef(t)
<1>1. /\ t.kind \in GqlKinds /\ t.fields \in Seq(GqlFields) /\ t.members \in Seq(STRING)
      /\ t.kind \notin WithFields => t.fields = <<>>
      /\ t.kind \notin WithMembers => t.members = <<>>
      /\ t = [kind |-> t.kind, fields |-> t.fields, members |-> t.members]
  BY TypeParts
<1>2. DOMAIN t.fields = 1 .. Len(t.fields) /\ Len(t.fields) \in Nat  BY <1>1, LenProperties
<1>3. \A i \in DOMAIN t.fields : t.fields[i] \in GqlFields  BY <1>1, <1>2, ElementOfSeq
<1>4. \A i \in DOMAIN t.fields : fs[i] \in GqlFields /\ (t.kind = "input" => fs[i].args = <<>>)
  BY <1>3, KeptFields, Zenon
<1>5. DOMAIN fs = DOMAIN t.fields  OBVIOUS
<1>6. fs \in Seq(GqlFields)
  <2>1. fs \in [1 .. Len(t.fields) -> GqlFields]  BY <1>2, <1>4
  <2> HIDE DEF fs
  <2>. QED  BY <1>2, <2>1, IsASeq
<1>7. c = [t EXCEPT !.fields = fs]  BY Zenon DEF ConvertTypeDef
<1>8. t.fields = <<>> => fs = <<>>
  <2>1. ASSUME t.fields = <<>> PROVE DOMAIN fs = {}  BY <2>1, <1>2, <1>5
  <2> HIDE DEF fs
  <2>. QED  BY <1>6, <2>1
<1> HIDE DEF fs, c
<1>9. c = [kind |-> t.kind, fields |-> fs, members |-> t.members]  BY <1>1, <1>7
<1>10. c.kind = t.kind /\ c.fields = fs /\ c.members = t.members  BY <1>9
<1>11. c \in [kind : GqlKinds, fields : Seq(GqlFields), members : Seq(STRING)]  BY <1>1, <1>6, <1>9
<1>12. c \in GqlTypes  BY <1>1, <1>8, <1>10, <1>11, TypeParts, Zenon
<1>13. c \in ConvertedTypes  BY <1>4, <1>5, <1>10, <1>12, Zenon DEF ConvertedTypes
<1>. QED  BY <1>8, <1>10, <1>13, Zenon DEF c

\* Concatenation loses nothing.
LEMMA ConcatSet ==
    ASSUME NEW S, NEW a \in Seq(S), NEW b \in Seq(S)
    PROVE  ToSet(a) \subseteq ToSet(a \o b) /\ ToSet(b) \subseteq ToSet(a \o b)
<1>1. Len(a) \in Nat /\ Len(b) \in Nat /\ DOMAIN a = 1 .. Len(a) /\ DOMAIN b = 1 .. Len(b)  BY LenProperties
<1>2. a \o b \in Seq(S) /\ DOMAIN (a \o b) = 1 .. Len(a) + Len(b)  BY ConcatProperties, LenProperties
<1>3. ASSUME NEW i \in DOMAIN a PROVE i \in DOMAIN (a \o b) /\ (a \o b)[i] = a[i]
  BY <1>1, <1>2, ConcatProperties
<1>4. ASSUME NEW i \in DOMAIN b PROVE Len(a) + i \in DOMAIN (a \o b) /\ (a \o b)[Len(a) + i] = b[i]
  <2>1. Len(a) + i \in 1 .. Len(a) + Len(b) /\ ~(Len(a) + i <= Len(a)) /\ (Len(a) + i) - Len(a) = i  BY <1>1
  <2>. QED  BY <1>2, <2>1, ConcatProperties
<1>. QED  BY <1>3, <1>4, Zenon DEF ToSet

\* An extension of the same kind adds to the type and takes nothing away.
LEMMA ExtendedType ==
    ASSUME NEW t \in ConvertedTypes, NEW e \in ConvertedTypes
    PROVE  /\ Extended(t, e) \in ConvertedTypes
           /\ t.kind = e.kind =>
                /\ ToSet(t.fields) \subseteq ToSet(Extended(t, e).fields)
                /\ ToSet(e.fields) \subseteq ToSet(Extended(t, e).fields)
                /\ ToSet(t.members) \subseteq ToSet(Extended(t, e).members)
                /\ ToSet(e.members) \subseteq ToSet(Extended(t, e).members)
<1>1. CASE t.kind # e.kind  BY <1>1, Zenon DEF Extended
<1>2. CASE t.kind = e.kind
  <2> DEFINE x == Extended(t, e)
             fs == t.fields \o e.fields
             ms == t.members \o e.members
  <2>0. t \in GqlTypes /\ e \in GqlTypes  BY Zenon DEF ConvertedTypes
  <2>1. /\ t.kind \in GqlKinds /\ t.fields \in Seq(GqlFields) /\ t.members \in Seq(STRING)
        /\ e.fields \in Seq(GqlFields) /\ e.members \in Seq(STRING)
        /\ t.kind \notin WithFields => t.fields = <<>> /\ e.fields = <<>>
        /\ t.kind \notin WithMembers => t.members = <<>> /\ e.members = <<>>
        /\ t = [kind |-> t.kind, fields |-> t.fields, members |-> t.members]
    BY <1>2, <2>0, TypeParts
  <2>2. fs \in Seq(GqlFields) /\ ms \in Seq(STRING)  BY <2>1
  <2>3. x = [t EXCEPT !.fields = fs, !.members = ms]
    <3>1. x = [t EXCEPT !.fields = @ \o e.fields, !.members = @ \o e.members]  BY <1>2, Zenon DEF Extended
    <3>. QED  BY <2>1, <3>1
  <2>4. /\ t.kind \notin WithFields => fs = <<>>
        /\ t.kind \notin WithMembers => ms = <<>>
    <3>1. <<>> \o <<>> = <<>>  OBVIOUS
    <3>. QED  BY <2>1, <3>1
  <2>5. t.kind = "input" => \A i \in DOMAIN fs : fs[i].args = <<>>
    <3>1. ASSUME t.kind = "input", NEW i \in DOMAIN fs PROVE fs[i].args = <<>>
      <4>1. /\ \A k \in DOMAIN t.fields : t.fields[k].args = <<>>
            /\ \A k \in DOMAIN e.fields : e.fields[k].args = <<>>
        BY <1>2, <3>1, Zenon DEF ConvertedTypes
      <4>. QED  BY <2>1, <4>1
    <3>. QED  BY <3>1
  <2>6. /\ ToSet(t.fields) \subseteq ToSet(fs) /\ ToSet(e.fields) \subseteq ToSet(fs)
        /\ ToSet(t.members) \subseteq ToSet(ms) /\ ToSet(e.members) \subseteq ToSet(ms)
    BY <2>1, ConcatSet
  <2> HIDE DEF fs, ms, x
  <2>7. x = [kind |-> t.kind, fields |-> fs, members |-> ms]  BY <2>1, <2>3
  <2>8. x.kind = t.kind /\ x.fields = fs /\ x.members = ms  BY <2>7
  <2>9. x \in [kind : GqlKinds, fields : Seq(GqlFields), members : Seq(STRING)]  BY <2>1, <2>2, <2>7
  <2>10. x \in GqlTypes  BY <2>4, <2>8, <2>9, TypeParts, Zenon
  <2>11. x \in ConvertedTypes  BY <2>5, <2>8, <2>10, Zenon DEF ConvertedTypes
  <2>. QED  BY <2>6, <2>8, <2>11, Zenon DEF x
<1>. QED  BY <1>1, <1>2

\* What the passes over a document keep: types by their names.
TypeMaps == UNION {[D -> ConvertedTypes] : D \in SUBSET STRING}

LEMMA MapParts ==
    ASSUME NEW m
    PROVE  m \in TypeMaps <=>
             /\ DOMAIN m \subseteq STRING
             /\ m = [n \in DOMAIN m |-> m[n]]
             /\ \A n \in DOMAIN m : m[n] \in ConvertedTypes
<1>1. ASSUME m \in TypeMaps
      PROVE  DOMAIN m \subseteq STRING /\ m = [n \in DOMAIN m |-> m[n]] /\ \A n \in DOMAIN m : m[n] \in ConvertedTypes
  <2>1. PICK D \in SUBSET STRING : m \in [D -> ConvertedTypes]  BY <1>1, Zenon DEF TypeMaps
  <2>. QED  BY <2>1
<1>2. ASSUME DOMAIN m \subseteq STRING, m = [n \in DOMAIN m |-> m[n]], \A n \in DOMAIN m : m[n] \in ConvertedTypes
      PROVE  m \in TypeMaps
  <2>1. m \in [DOMAIN m -> ConvertedTypes]  BY <1>2
  <2>. QED  BY <1>2, <2>1, Zenon DEF TypeMaps
<1>. QED  BY <1>1, <1>2, Zenon

LEMMA NoTypesIsMap == NoTypes \in TypeMaps /\ DOMAIN NoTypes = {}
<1>1. DOMAIN NoTypes = {}  BY DEF NoTypes
<1>2. NoTypes = [n \in DOMAIN NoTypes |-> NoTypes[n]]  BY DEF NoTypes
<1>. QED  BY <1>1, <1>2, MapParts

\* One name of the map gets a type, the others keep theirs.
LEMMA PutType ==
    ASSUME NEW m \in TypeMaps, NEW s \in STRING, NEW t \in ConvertedTypes
    PROVE  /\ Insert(m, s, t) \in TypeMaps
           /\ DOMAIN Insert(m, s, t) = DOMAIN m \cup {s}
           /\ Insert(m, s, t)[s] = t
           /\ \A n \in DOMAIN m : n # s => Insert(m, s, t)[n] = m[n]
<1> DEFINE p == [n \in DOMAIN m \cup {s} |-> IF n = s THEN t ELSE m[n]]
<1>0. /\ DOMAIN m \subseteq STRING /\ m = [n \in DOMAIN m |-> m[n]]
      /\ \A n \in DOMAIN m : m[n] \in ConvertedTypes
  BY MapParts
<1>1. Insert(m, s, t) = p  BY Zenon DEF Insert
<1>2. /\ DOMAIN p = DOMAIN m \cup {s} /\ p = [n \in DOMAIN p |-> p[n]]
      /\ p[s] = t /\ \A n \in DOMAIN m : n # s => p[n] = m[n]
  OBVIOUS
<1> HIDE DEF p
<1>3. \A n \in DOMAIN p : p[n] \in ConvertedTypes  BY <1>0, <1>2
<1>4. p \in TypeMaps  BY <1>0, <1>2, <1>3, MapParts
<1>. QED  BY <1>1, <1>2, <1>4, Zenon

LEMMA ItemParts ==
    ASSUME NEW d \in GqlItems
    PROVE  d.name \in STRING /\ d.type \in GqlTypes /\ ConvertTypeDef(d.type) \in ConvertedTypes
<1>1. d.name \in STRING /\ d.type \in GqlTypes  BY DEF GqlItems
<1>. QED  BY <1>1, ConvertedType, Zenon

\* An item that defines a type; one that extends it.
Defines(d) == ~d.extends /\ d.name \notin Builtins

Extends(d) == d.extends /\ d.type.kind # "scalar"

Added(map, d) ==
    IF d.name \in DOMAIN map THEN Extended(map[d.name], ConvertTypeDef(d.type)) ELSE ConvertTypeDef(d.type)

\* One turn of the loop over the definitions, and one of that over the
\* extensions.
LEMMA DefineItem ==
    ASSUME NEW m \in TypeMaps, NEW d \in GqlItems
    PROVE  /\ Define(m, d) \in TypeMaps
           /\ ~Defines(d) => Define(m, d) = m
           /\ Defines(d) => /\ DOMAIN Define(m, d) = DOMAIN m \cup {d.name}
                            /\ Define(m, d)[d.name] = ConvertTypeDef(d.type)
                            /\ \A n \in DOMAIN m : n # d.name => Define(m, d)[n] = m[n]
<1>1. ~Defines(d) => Define(m, d) = m  BY Zenon DEF Defines, Define
<1>2. Defines(d) => Define(m, d) = Insert(m, d.name, ConvertTypeDef(d.type))  BY Zenon DEF Defines, Define
<1>3. d.name \in STRING /\ ConvertTypeDef(d.type) \in ConvertedTypes  BY ItemParts
<1> DEFINE s == d.name
           c == ConvertTypeDef(d.type)
           x == Insert(m, s, c)
<1>a. s \in STRING /\ c \in ConvertedTypes  BY <1>3
<1> HIDE DEF s, c
<1>4. /\ x \in TypeMaps /\ DOMAIN x = DOMAIN m \cup {s} /\ x[s] = c
      /\ \A n \in DOMAIN m : n # s => x[n] = m[n]
  BY <1>a, PutType, Zenon
<1> HIDE DEF x
<1>5. CASE Defines(d)
  <2>1. Define(m, d) = x  BY <1>2, <1>5, Zenon DEF x, s, c
  <2>. QED  BY <1>4, <1>5, <2>1 DEF s, c
<1>6. CASE ~Defines(d)  BY <1>1, <1>6
<1>. QED  BY <1>5, <1>6

LEMMA ExtendItem ==
    ASSUME NEW m \in TypeMaps, NEW d \in GqlItems
    PROVE  /\ ApplyExtension(m, d) \in TypeMaps
           /\ ~Extends(d) => ApplyExtension(m, d) = m
           /\ Extends(d) => /\ DOMAIN ApplyExtension(m, d) = DOMAIN m \cup {d.name}
                            /\ ApplyExtension(m, d)[d.name] = Added(m, d)
                            /\ \A n \in DOMAIN m : n # d.name => ApplyExtension(m, d)[n] = m[n]
<1>1. ~Extends(d) => ApplyExtension(m, d) = m  BY Zenon DEF Extends, ApplyExtension
<1>2. Extends(d) => ApplyExtension(m, d) = Insert(m, d.name, Added(m, d))
  BY Zenon DEF Extends, ApplyExtension, Added
<1>3. d.name \in STRING /\ ConvertTypeDef(d.type) \in ConvertedTypes  BY ItemParts
<1>4. Added(m, d) \in ConvertedTypes
  <2>1. d.name \in DOMAIN m => m[d.name] \in ConvertedTypes  BY MapParts, Zenon
  <2>. QED  BY <1>3, <2>1, ExtendedType, Zenon DEF Added
<1> DEFINE s == d.name
           c == Added(m, d)
           x == Insert(m, s, c)
<1>a. s \in STRING /\ c \in ConvertedTypes  BY <1>3, <1>4
<1> HIDE DEF s, c
<1>5. /\ x \in TypeMaps /\ DOMAIN x = DOMAIN m \cup {s} /\ x[s] = c
      /\ \A n \in DOMAIN m : n # s => x[n] = m[n]
  BY <1>a, PutType, Zenon
<1> HIDE DEF x
<1>6. CASE Extends(d)
  <2>1. ApplyExtension(m, d) = x  BY <1>2, <1>6, Zenon DEF x, s, c
  <2>. QED  BY <1>5, <1>6, <2>1 DEF s, c
<1>7. CASE ~Extends(d)  BY <1>1, <1>7
<1>. QED  BY <1>6, <1>7

\* The maps either loop goes through.
LEMMA DefineFold ==
    ASSUME NEW start \in TypeMaps, NEW doc \in Seq(GqlItems)
    PROVE  \E at \in [0 .. Len(doc) -> TypeMaps] :
              /\ at[0] = start
              /\ \A n \in 1 .. Len(doc) : at[n] = Define(at[n - 1], doc[n])
              /\ at[Len(doc)] = FoldLeft(Define, start, doc)
<1> DEFINE X == TypeMaps
           N == Len(doc)
           D == DOMAIN doc
           g == [n \in 1 .. N |-> [s \in X |-> Define(s, doc[n])]]
           IsIt(iter) == iter = [s \in SUBSET D |->
                            IF s = {} THEN start ELSE Define(iter[s \ {Max(s)}], doc[Max(s)])]
           I == CHOOSE iter : IsIt(iter)
           at == [n \in 0 .. N |-> I[1 .. n]]
<1>0. D = 1 .. N /\ N \in Nat  BY LenProperties
<1>1. FoldLeft(Define, start, doc) = I[D]  BY Zenon DEF FoldLeft, MapThenFoldSet
<1>2. \E iter : IsIt(iter)
  <2>1. start \in X  OBVIOUS
  <2>2. \A n \in 1 .. N : [s \in X |-> Define(s, doc[n])] \in [X -> X]
    <3>1. \A n \in 1 .. N : doc[n] \in GqlItems  BY ElementOfSeq
    <3>. QED  BY <3>1, DefineItem
  <2>3. g \in [1 .. N -> [X -> X]]  BY <2>2
  <2>4. \A n \in 1 .. N : \A x \in X : g[n][x] = Define(x, doc[n])  OBVIOUS
  <2> HIDE DEF g, X, N, D
  <2>5. PICK f \in [SUBSET (1 .. N) -> X] : IsFold(f, N, start, g)  BY <1>0, <2>1, <2>3, FoldExists
  <2>6. ASSUME NEW s \in SUBSET D
        PROVE  f[s] = IF s = {} THEN start ELSE Define(f[s \ {Max(s)}], doc[Max(s)])
    <3>1. f[s] = IF s = {} THEN start ELSE g[Max(s)][f[s \ {Max(s)}]]  BY <1>0, <2>5, <2>6 DEF IsFold
    <3>2. CASE s # {}
      <4>1. Max(s) \in s  BY <1>0, <3>2, MaxIsThere
      <4>2. f[s \ {Max(s)}] \in X /\ Max(s) \in 1 .. N  BY <1>0, <2>5, <4>1
      <4>. QED  BY <2>4, <3>1, <3>2, <4>2
    <3>. QED  BY <3>1, <3>2
  <2>7. IsIt(f)  BY <1>0, <2>5, <2>6, Zenon
  <2>. QED  BY <2>7
<1> HIDE DEF I, g, X, N, D
<1>3. IsIt(I)  BY <1>2 DEF I
<1>4. I[1 .. 0] = start
  <2>1. 1 .. 0 \in SUBSET D /\ 1 .. 0 = {}  OBVIOUS
  <2>. QED  BY <1>3, <2>1
<1>n. \A n \in 1 .. N : n \in Nat /\ n >= 1  BY <1>0
<1>5. ASSUME NEW n \in 1 .. N PROVE I[1 .. n] = Define(I[1 .. n - 1], doc[n])
  <2>1. Max(1 .. n) = n /\ (1 .. n) \ {n} = 1 .. n - 1 /\ 1 .. n # {}  BY <1>n, LastOfPrefix
  <2>2. 1 .. n \in SUBSET D  BY <1>0
  <2>3. I[1 .. n] = Define(I[(1 .. n) \ {Max(1 .. n)}], doc[Max(1 .. n)])  BY <1>3, <2>1, <2>2
  <2>. QED  BY <2>1, <2>3
<1>6. at[0] = start /\ at[N] = I[D]  BY <1>0, <1>4
<1>7. \A n \in 1 .. N : at[n] = Define(at[n - 1], doc[n])  BY <1>0, <1>5
<1> HIDE DEF at
<1>8. \A n \in 0 .. N : at[n] \in X
  <2> DEFINE S == {n \in 0 .. N : at[n] \in X}
  <2>0. \A n : n \in S <=> n \in 0 .. N /\ at[n] \in X  OBVIOUS
  <2>a. start \in X  BY DEF X
  <2>b. 0 \in 0 .. N  BY <1>0
  <2>1. 0 \in S  BY <1>6, <2>a, <2>b
  <2>2. ASSUME NEW n \in 1 .. N, n - 1 \in S PROVE n \in S
    <3>1. doc[n] \in GqlItems /\ at[n - 1] \in X  BY <2>2, ElementOfSeq DEF N
    <3>2. at[n] \in X  BY <1>7, <3>1, DefineItem DEF X
    <3>. QED  BY <1>0, <3>2
  <2> HIDE DEF S
  <2>3. \A n \in 0 .. N : n \in S  BY <1>0, <2>1, <2>2, BoundedInduction
  <2>. QED  BY <2>0, <2>3
<1>9. at \in [0 .. N -> X]  BY <1>8 DEF at
<1>. QED  BY <1>1, <1>6, <1>7, <1>9 DEF X, N

LEMMA ExtendFold ==
    ASSUME NEW start \in TypeMaps, NEW doc \in Seq(GqlItems)
    PROVE  \E at \in [0 .. Len(doc) -> TypeMaps] :
              /\ at[0] = start
              /\ \A n \in 1 .. Len(doc) : at[n] = ApplyExtension(at[n - 1], doc[n])
              /\ at[Len(doc)] = FoldLeft(ApplyExtension, start, doc)
<1> DEFINE X == TypeMaps
           N == Len(doc)
           D == DOMAIN doc
           g == [n \in 1 .. N |-> [s \in X |-> ApplyExtension(s, doc[n])]]
           IsIt(iter) == iter = [s \in SUBSET D |->
                            IF s = {} THEN start ELSE ApplyExtension(iter[s \ {Max(s)}], doc[Max(s)])]
           I == CHOOSE iter : IsIt(iter)
           at == [n \in 0 .. N |-> I[1 .. n]]
<1>0. D = 1 .. N /\ N \in Nat  BY LenProperties
<1>1. FoldLeft(ApplyExtension, start, doc) = I[D]  BY Zenon DEF FoldLeft, MapThenFoldSet
<1>2. \E iter : IsIt(iter)
  <2>1. start \in X  OBVIOUS
  <2>2. \A n \in 1 .. N : [s \in X |-> ApplyExtension(s, doc[n])] \in [X -> X]
    <3>1. \A n \in 1 .. N : doc[n] \in GqlItems  BY ElementOfSeq
    <3>. QED  BY <3>1, ExtendItem
  <2>3. g \in [1 .. N -> [X -> X]]  BY <2>2
  <2>4. \A n \in 1 .. N : \A x \in X : g[n][x] = ApplyExtension(x, doc[n])  OBVIOUS
  <2> HIDE DEF g, X, N, D
  <2>5. PICK f \in [SUBSET (1 .. N) -> X] : IsFold(f, N, start, g)  BY <1>0, <2>1, <2>3, FoldExists
  <2>6. ASSUME NEW s \in SUBSET D
        PROVE  f[s] = IF s = {} THEN start ELSE ApplyExtension(f[s \ {Max(s)}], doc[Max(s)])
    <3>1. f[s] = IF s = {} THEN start ELSE g[Max(s)][f[s \ {Max(s)}]]  BY <1>0, <2>5, <2>6 DEF IsFold
    <3>2. CASE s # {}
      <4>1. Max(s) \in s  BY <1>0, <3>2, MaxIsThere
      <4>2. f[s \ {Max(s)}] \in X /\ Max(s) \in 1 .. N  BY <1>0, <2>5, <4>1
      <4>. QED  BY <2>4, <3>1, <3>2, <4>2
    <3>. QED  BY <3>1, <3>2
  <2>7. IsIt(f)  BY <1>0, <2>5, <2>6, Zenon
  <2>. QED  BY <2>7
<1> HIDE DEF I, g, X, N, D
<1>3. IsIt(I)  BY <1>2 DEF I
<1>4. I[1 .. 0] = start
  <2>1. 1 .. 0 \in SUBSET D /\ 1 .. 0 = {}  OBVIOUS
  <2>. QED  BY <1>3, <2>1
<1>n. \A n \in 1 .. N : n \in Nat /\ n >= 1  BY <1>0
<1>5. ASSUME NEW n \in 1 .. N PROVE I[1 .. n] = ApplyExtension(I[1 .. n - 1], doc[n])
  <2>1. Max(1 .. n) = n /\ (1 .. n) \ {n} = 1 .. n - 1 /\ 1 .. n # {}  BY <1>n, LastOfPrefix
  <2>2. 1 .. n \in SUBSET D  BY <1>0
  <2>3. I[1 .. n] = ApplyExtension(I[(1 .. n) \ {Max(1 .. n)}], doc[Max(1 .. n)])  BY <1>3, <2>1, <2>2
  <2>. QED  BY <2>1, <2>3
<1>6. at[0] = start /\ at[N] = I[D]  BY <1>0, <1>4
<1>7. \A n \in 1 .. N : at[n] = ApplyExtension(at[n - 1], doc[n])  BY <1>0, <1>5
<1> HIDE DEF at
<1>8. \A n \in 0 .. N : at[n] \in X
  <2> DEFINE S == {n \in 0 .. N : at[n] \in X}
  <2>0. \A n : n \in S <=> n \in 0 .. N /\ at[n] \in X  OBVIOUS
  <2>a. start \in X  BY DEF X
  <2>b. 0 \in 0 .. N  BY <1>0
  <2>1. 0 \in S  BY <1>6, <2>a, <2>b
  <2>2. ASSUME NEW n \in 1 .. N, n - 1 \in S PROVE n \in S
    <3>1. doc[n] \in GqlItems /\ at[n - 1] \in X  BY <2>2, ElementOfSeq DEF N
    <3>2. at[n] \in X  BY <1>7, <3>1, ExtendItem DEF X
    <3>. QED  BY <1>0, <3>2
  <2> HIDE DEF S
  <2>3. \A n \in 0 .. N : n \in S  BY <1>0, <2>1, <2>2, BoundedInduction
  <2>. QED  BY <2>0, <2>3
<1>9. at \in [0 .. N -> X]  BY <1>8 DEF at
<1>. QED  BY <1>1, <1>6, <1>7, <1>9 DEF X, N

\* The map of a document is one of converted types.
LEMMA DocumentMap ==
    ASSUME NEW doc \in Seq(GqlItems)
    PROVE  ParseGraphQl(doc) \in TypeMaps /\ \A n \in DOMAIN ParseGraphQl(doc) : ParseGraphQl(doc)[n] \in ConvertedTypes
<1>0. Len(doc) \in Nat /\ Len(doc) \in 0 .. Len(doc)  BY LenProperties
<1>1. FoldLeft(Define, NoTypes, doc) \in TypeMaps
  <2>1. PICK at \in [0 .. Len(doc) -> TypeMaps] : at[Len(doc)] = FoldLeft(Define, NoTypes, doc)
    BY NoTypesIsMap, DefineFold
  <2>. QED  BY <1>0, <2>1, Zenon
<1> DEFINE m == FoldLeft(Define, NoTypes, doc)
<1>2. ParseGraphQl(doc) = FoldLeft(ApplyExtension, m, doc)  BY Zenon DEF ParseGraphQl
<1> HIDE DEF m
<1>3. m \in TypeMaps  BY <1>1 DEF m
<1>4. FoldLeft(ApplyExtension, m, doc) \in TypeMaps
  <2>1. PICK at \in [0 .. Len(doc) -> TypeMaps] : at[Len(doc)] = FoldLeft(ApplyExtension, m, doc)
    BY <1>3, ExtendFold
  <2>. QED  BY <1>0, <2>1, Zenon
<1>. QED  BY <1>2, <1>4, MapParts, Zenon

\* Of a name one item defines and one extends.
Alone(doc) == \A i, j \in DOMAIN doc : i # j /\ doc[i].name = doc[j].name => doc[i].extends # doc[j].extends

\* After the first loop a name has the type of its one definition.
LEMMA DefinedTypes ==
    ASSUME NEW doc \in Seq(GqlItems), Alone(doc)
    PROVE  LET m == FoldLeft(Define, NoTypes, doc)
           IN  /\ m \in TypeMaps
               /\ \A n : n \in DOMAIN m <=> \E i \in DOMAIN doc : Defines(doc[i]) /\ doc[i].name = n
               /\ \A i \in DOMAIN doc : Defines(doc[i]) => m[doc[i].name] = ConvertTypeDef(doc[i].type)
<1> DEFINE N == Len(doc)
<1>0. DOMAIN doc = 1 .. N /\ N \in Nat  BY LenProperties
<1>a. \A i \in DOMAIN doc : doc[i].extends \in BOOLEAN
  <2>1. \A i \in DOMAIN doc : doc[i] \in GqlItems  BY <1>0, ElementOfSeq
  <2>. QED  BY <2>1 DEF GqlItems
<1>1. NoTypes \in TypeMaps /\ DOMAIN NoTypes = {}  BY NoTypesIsMap
<1>2. PICK at \in [0 .. N -> TypeMaps] :
        /\ at[0] = NoTypes
        /\ \A n \in 1 .. N : at[n] = Define(at[n - 1], doc[n])
        /\ at[N] = FoldLeft(Define, NoTypes, doc)
  BY <1>1, DefineFold
<1> DEFINE P(k) == /\ \A n : n \in DOMAIN at[k] <=> \E i \in 1 .. k : Defines(doc[i]) /\ doc[i].name = n
                   /\ \A i \in 1 .. k : Defines(doc[i]) => at[k][doc[i].name] = ConvertTypeDef(doc[i].type)
           S == {k \in 0 .. N : P(k)}
<1>3. \A k : k \in S <=> k \in 0 .. N /\ P(k)  OBVIOUS
<1>4. 0 \in S
  <2>1. 1 .. 0 = {} /\ 0 \in 0 .. N  BY <1>0
  <2>2. P(0)  BY <1>1, <1>2, <2>1, Zenon
  <2> HIDE DEF P, S
  <2>. QED  BY <1>3, <2>1, <2>2
<1>5. ASSUME NEW k \in 1 .. N, k - 1 \in S PROVE k \in S
  <2> DEFINE m == at[k - 1]
             d == doc[k]
  <2>0. k - 1 \in 0 .. N /\ k \in 0 .. N  BY <1>0
  <2>1. P(k - 1)  BY <1>3, <1>5, Zenon
  <2>2. m \in TypeMaps /\ d \in GqlItems  BY <1>0, <1>2, <2>0, ElementOfSeq
  <2>3. at[k] = Define(m, d)  BY <1>2
  <2>4. 1 .. k = (1 .. k - 1) \cup {k} /\ k \notin 1 .. k - 1 /\ 1 .. k \subseteq DOMAIN doc  BY <1>0
  <2>5. \A i \in 1 .. k - 1 : doc[i].name = d.name => doc[i].extends # d.extends
    BY <1>0, <2>4, Zenon DEF Alone
  <2>6. /\ \A n : n \in DOMAIN m <=> \E i \in 1 .. k - 1 : Defines(doc[i]) /\ doc[i].name = n
        /\ \A i \in 1 .. k - 1 : Defines(doc[i]) => m[doc[i].name] = ConvertTypeDef(doc[i].type)
    BY <2>1, Zenon
  <2> HIDE DEF m, P, S
  <2>7. CASE Defines(d)
    <3> HIDE DEF d
    <3>0. /\ DOMAIN Define(m, d) = DOMAIN m \cup {d.name}
          /\ Define(m, d)[d.name] = ConvertTypeDef(d.type)
          /\ \A n \in DOMAIN m : n # d.name => Define(m, d)[n] = m[n]
      BY <2>2, <2>7, DefineItem, Zenon
    <3>1. /\ DOMAIN at[k] = DOMAIN m \cup {d.name}
          /\ at[k][d.name] = ConvertTypeDef(d.type)
          /\ \A n \in DOMAIN m : n # d.name => at[k][n] = m[n]
      BY <2>3, <3>0, Zenon
    <3> USE DEF d
    <3>2. \A i \in 1 .. k - 1 : Defines(doc[i]) => doc[i].name # d.name  BY <2>4, <2>5, <2>7, <1>a DEF Defines
    <3>3. \A n : n \in DOMAIN at[k] <=> \E i \in 1 .. k : Defines(doc[i]) /\ doc[i].name = n
      BY <2>4, <2>6, <2>7, <3>1, Zenon
    <3>4. \A i \in 1 .. k : Defines(doc[i]) => at[k][doc[i].name] = ConvertTypeDef(doc[i].type)
      BY <2>4, <2>6, <3>1, <3>2, Zenon
    <3>5. P(k)  BY <3>3, <3>4, Zenon DEF P
    <3>. QED  BY <1>3, <2>0, <3>5, Zenon
  <2>8. CASE ~Defines(d)
    <3>1. at[k] = m  BY <2>2, <2>3, <2>8, DefineItem, Zenon
    <3>2. \A i \in 1 .. k : Defines(doc[i]) => i \in 1 .. k - 1  BY <2>4, <2>8, Zenon
    <3>3. \A i \in 1 .. k - 1 : i \in 1 .. k  BY <2>4, Zenon
    <3>4. P(k)  BY <2>6, <3>1, <3>2, <3>3, Zenon DEF P
    <3>. QED  BY <1>3, <2>0, <3>4, Zenon
  <2>. QED  BY <2>7, <2>8
<1> HIDE DEF S, P
<1>6. \A k \in 0 .. N : k \in S  BY <1>0, <1>4, <1>5, BoundedInduction
<1>7. N \in 0 .. N  BY <1>0
<1>8. P(N)  BY <1>3, <1>6, <1>7
<1>9. at[N] \in TypeMaps  BY <1>2, <1>7
<1>. QED  BY <1>0, <1>2, <1>8, <1>9, Zenon DEF P

\* After the second each extension is in its type, and only there.
LEMMA ExtendedTypes ==
    ASSUME NEW doc \in Seq(GqlItems), Alone(doc), NEW m \in TypeMaps
    PROVE  LET p == FoldLeft(ApplyExtension, m, doc)
           IN  /\ p \in TypeMaps
               /\ \A n : n \in DOMAIN p <=>
                    n \in DOMAIN m \/ \E i \in DOMAIN doc : Extends(doc[i]) /\ doc[i].name = n
               /\ \A i \in DOMAIN doc : Extends(doc[i]) => p[doc[i].name] = Added(m, doc[i])
               /\ \A n \in DOMAIN m : (\A i \in DOMAIN doc : Extends(doc[i]) => doc[i].name # n) => p[n] = m[n]
<1> DEFINE N == Len(doc)
<1>0. DOMAIN doc = 1 .. N /\ N \in Nat  BY LenProperties
<1>a. \A i \in DOMAIN doc : doc[i].extends \in BOOLEAN
  <2>1. \A i \in DOMAIN doc : doc[i] \in GqlItems  BY <1>0, ElementOfSeq
  <2>. QED  BY <2>1 DEF GqlItems
<1>2. PICK at \in [0 .. N -> TypeMaps] :
        /\ at[0] = m
        /\ \A n \in 1 .. N : at[n] = ApplyExtension(at[n - 1], doc[n])
        /\ at[N] = FoldLeft(ApplyExtension, m, doc)
  BY ExtendFold
<1> DEFINE P(k) == /\ \A n : n \in DOMAIN at[k] <=>
                        n \in DOMAIN m \/ \E i \in 1 .. k : Extends(doc[i]) /\ doc[i].name = n
                   /\ \A i \in 1 .. k : Extends(doc[i]) => at[k][doc[i].name] = Added(m, doc[i])
                   /\ \A n \in DOMAIN m : (\A i \in 1 .. k : Extends(doc[i]) => doc[i].name # n) => at[k][n] = m[n]
           S == {k \in 0 .. N : P(k)}
<1>3. \A k : k \in S <=> k \in 0 .. N /\ P(k)  OBVIOUS
<1>4. 0 \in S
  <2>1. 1 .. 0 = {} /\ 0 \in 0 .. N  BY <1>0
  <2>2. P(0)  BY <1>2, <2>1, Zenon
  <2> HIDE DEF P, S
  <2>. QED  BY <1>3, <2>1, <2>2
<1>5. ASSUME NEW k \in 1 .. N, k - 1 \in S PROVE k \in S
  <2> DEFINE q == at[k - 1]
             d == doc[k]
  <2>0. k - 1 \in 0 .. N /\ k \in 0 .. N  BY <1>0
  <2>1. P(k - 1)  BY <1>3, <1>5, Zenon
  <2>2. q \in TypeMaps /\ d \in GqlItems  BY <1>0, <1>2, <2>0, ElementOfSeq
  <2>3. at[k] = ApplyExtension(q, d)  BY <1>2
  <2>4. 1 .. k = (1 .. k - 1) \cup {k} /\ k \notin 1 .. k - 1 /\ 1 .. k \subseteq DOMAIN doc  BY <1>0
  <2>5. \A i \in 1 .. k - 1 : doc[i].name = d.name => doc[i].extends # d.extends
    BY <1>0, <2>4, Zenon DEF Alone
  <2>6. /\ \A n : n \in DOMAIN q <=> n \in DOMAIN m \/ \E i \in 1 .. k - 1 : Extends(doc[i]) /\ doc[i].name = n
        /\ \A i \in 1 .. k - 1 : Extends(doc[i]) => q[doc[i].name] = Added(m, doc[i])
        /\ \A n \in DOMAIN m : (\A i \in 1 .. k - 1 : Extends(doc[i]) => doc[i].name # n) => q[n] = m[n]
    BY <2>1, Zenon
  <2> HIDE DEF q, P, S
  <2>7. CASE Extends(d)
    <3> HIDE DEF d
    <3>0. /\ DOMAIN ApplyExtension(q, d) = DOMAIN q \cup {d.name}
          /\ ApplyExtension(q, d)[d.name] = Added(q, d)
          /\ \A n \in DOMAIN q : n # d.name => ApplyExtension(q, d)[n] = q[n]
      BY <2>2, <2>7, ExtendItem, Zenon
    <3>1. /\ DOMAIN at[k] = DOMAIN q \cup {d.name}
          /\ at[k][d.name] = Added(q, d)
          /\ \A n \in DOMAIN q : n # d.name => at[k][n] = q[n]
      BY <2>3, <3>0, Zenon
    <3> USE DEF d
    <3>2. \A i \in 1 .. k - 1 : Extends(doc[i]) => doc[i].name # d.name  BY <2>4, <2>5, <2>7, <1>a DEF Extends
    <3>3. /\ d.name \in DOMAIN q <=> d.name \in DOMAIN m
          /\ d.name \in DOMAIN m => q[d.name] = m[d.name]
      BY <2>6, <3>2, Zenon
    <3>4. Added(q, d) = Added(m, d)  BY <3>3, Zenon DEF Added
    <3>5. \A n : n \in DOMAIN at[k] <=> n \in DOMAIN m \/ \E i \in 1 .. k : Extends(doc[i]) /\ doc[i].name = n
      BY <2>4, <2>6, <2>7, <3>1, Zenon
    <3>6. ASSUME NEW i \in 1 .. k, Extends(doc[i]) PROVE at[k][doc[i].name] = Added(m, doc[i])
      <4>1. CASE i = k  BY <3>1, <3>4, <4>1
      <4>2. CASE i \in 1 .. k - 1
        <5>1. doc[i].name # d.name /\ doc[i].name \in DOMAIN q  BY <2>6, <3>2, <3>6, <4>2, Zenon
        <5>. QED  BY <2>6, <3>1, <3>6, <4>2, <5>1, Zenon
      <4>. QED  BY <2>4, <4>1, <4>2
    <3>7. ASSUME NEW n \in DOMAIN m, \A i \in 1 .. k : Extends(doc[i]) => doc[i].name # n PROVE at[k][n] = m[n]
      <4>1. k \in 1 .. k /\ 1 .. k - 1 \subseteq 1 .. k  BY <2>4, Zenon
      <4>2. n # d.name /\ q[n] = m[n] /\ n \in DOMAIN q  BY <2>6, <2>7, <3>7, <4>1, Zenon
      <4>. QED  BY <3>1, <4>2, Zenon
    <3>8. P(k)  BY <3>5, <3>6, <3>7, Zenon DEF P
    <3>. QED  BY <1>3, <2>0, <3>8, Zenon
  <2>8. CASE ~Extends(d)
    <3>1. at[k] = q  BY <2>2, <2>3, <2>8, ExtendItem, Zenon
    <3>2. \A i \in 1 .. k : Extends(doc[i]) => i \in 1 .. k - 1  BY <2>4, <2>8, Zenon
    <3>3. \A i \in 1 .. k - 1 : i \in 1 .. k  BY <2>4, Zenon
    <3>4. P(k)  BY <2>6, <3>1, <3>2, <3>3, Zenon DEF P
    <3>. QED  BY <1>3, <2>0, <3>4, Zenon
  <2>. QED  BY <2>7, <2>8
<1> HIDE DEF S, P
<1>6. \A k \in 0 .. N : k \in S  BY <1>0, <1>4, <1>5, BoundedInduction
<1>7. N \in 0 .. N  BY <1>0
<1>8. P(N)  BY <1>3, <1>6, <1>7
<1>9. at[N] \in TypeMaps  BY <1>2, <1>7
<1>. QED  BY <1>0, <1>2, <1>8, <1>9, Zenon DEF P

\* What a document says of its types, whatever the order of its items.
Reads(p, items) ==
    /\ \A n : n \in DOMAIN p <=> \E d \in items : (Defines(d) \/ Extends(d)) /\ d.name = n
    /\ \A d, e \in items : Defines(d) /\ Extends(e) /\ d.name = e.name =>
          p[d.name] = Extended(ConvertTypeDef(d.type), ConvertTypeDef(e.type))
    /\ \A d \in items : Defines(d) /\ (\A e \in items : Extends(e) => e.name # d.name) =>
          p[d.name] = ConvertTypeDef(d.type)
    /\ \A e \in items : Extends(e) /\ (\A d \in items : Defines(d) => d.name # e.name) =>
          p[e.name] = ConvertTypeDef(e.type)

\* The map is the reading of the document as a set of items.
LEMMA DocumentReads ==
    ASSUME NEW doc \in Seq(GqlItems), Alone(doc)
    PROVE  Reads(ParseGraphQl(doc), ToSet(doc))
<1> DEFINE m == FoldLeft(Define, NoTypes, doc)
           p == FoldLeft(ApplyExtension, m, doc)
           items == ToSet(doc)
<1>1. /\ m \in TypeMaps
      /\ \A n : n \in DOMAIN m <=> \E i \in DOMAIN doc : Defines(doc[i]) /\ doc[i].name = n
      /\ \A i \in DOMAIN doc : Defines(doc[i]) => m[doc[i].name] = ConvertTypeDef(doc[i].type)
  BY DefinedTypes, Zenon
<1>2. ParseGraphQl(doc) = p  BY Zenon DEF ParseGraphQl
<1>3. (\A d \in items : \E i \in DOMAIN doc : d = doc[i]) /\ \A i \in DOMAIN doc : doc[i] \in items  BY Zenon DEF ToSet
<1> HIDE DEF m, items
<1>4. /\ \A n : n \in DOMAIN p <=> n \in DOMAIN m \/ \E i \in DOMAIN doc : Extends(doc[i]) /\ doc[i].name = n
      /\ \A i \in DOMAIN doc : Extends(doc[i]) => p[doc[i].name] = Added(m, doc[i])
      /\ \A n \in DOMAIN m : (\A i \in DOMAIN doc : Extends(doc[i]) => doc[i].name # n) => p[n] = m[n]
  BY <1>1, ExtendedTypes, Zenon
<1> HIDE DEF p
<1>5. /\ \A n : n \in DOMAIN m <=> \E d \in items : Defines(d) /\ d.name = n
      /\ \A d \in items : Defines(d) => m[d.name] = ConvertTypeDef(d.type)
  <2>1. ASSUME NEW d \in items, Defines(d) PROVE m[d.name] = ConvertTypeDef(d.type) /\ d.name \in DOMAIN m
    <3>1. PICK i \in DOMAIN doc : d = doc[i]  BY <1>3, Zenon
    <3>. QED  BY <1>1, <2>1, <3>1
  <2>2. \A n \in DOMAIN m : \E d \in items : Defines(d) /\ d.name = n  BY <1>1, <1>3, Zenon
  <2>. QED  BY <2>1, <2>2, Zenon
<1>6. /\ \A n : n \in DOMAIN p <=> n \in DOMAIN m \/ \E e \in items : Extends(e) /\ e.name = n
      /\ \A e \in items : Extends(e) => p[e.name] = Added(m, e)
  <2>1. ASSUME NEW e \in items, Extends(e) PROVE p[e.name] = Added(m, e) /\ e.name \in DOMAIN p
    <3>1. PICK i \in DOMAIN doc : e = doc[i]  BY <1>3, Zenon
    <3>. QED  BY <1>4, <2>1, <3>1
  <2>2. \A n \in DOMAIN p : n \in DOMAIN m \/ \E e \in items : Extends(e) /\ e.name = n  BY <1>3, <1>4, Zenon
  <2>3. \A n \in DOMAIN m : n \in DOMAIN p  BY <1>4, Zenon
  <2>. QED  BY <2>1, <2>2, <2>3, Zenon
<1>7. \A n \in DOMAIN m : (\A e \in items : Extends(e) => e.name # n) => p[n] = m[n]  BY <1>3, <1>4, Zenon
<1>8. \A n : n \in DOMAIN p <=> \E d \in items : (Defines(d) \/ Extends(d)) /\ d.name = n  BY <1>5, <1>6, Zenon
<1>9. ASSUME NEW d \in items, NEW e \in items, Defines(d), Extends(e), d.name = e.name
      PROVE  p[d.name] = Extended(ConvertTypeDef(d.type), ConvertTypeDef(e.type))
  <2>1. e.name \in DOMAIN m /\ m[e.name] = ConvertTypeDef(d.type)  BY <1>5, <1>9, Zenon
  <2>2. p[e.name] = Added(m, e)  BY <1>6, <1>9, Zenon
  <2>. QED  BY <1>9, <2>1, <2>2, Zenon DEF Added
<1>10. ASSUME NEW d \in items, Defines(d), \A e \in items : Extends(e) => e.name # d.name
       PROVE  p[d.name] = ConvertTypeDef(d.type)
  <2>1. d.name \in DOMAIN m /\ m[d.name] = ConvertTypeDef(d.type)  BY <1>5, <1>10, Zenon
  <2>. QED  BY <1>7, <1>10, <2>1, Zenon
<1>11. ASSUME NEW e \in items, Extends(e), \A d \in items : Defines(d) => d.name # e.name
       PROVE  p[e.name] = ConvertTypeDef(e.type)
  <2>1. e.name \notin DOMAIN m  BY <1>5, <1>11, Zenon
  <2>2. p[e.name] = Added(m, e)  BY <1>6, <1>11, Zenon
  <2>. QED  BY <2>1, <2>2, Zenon DEF Added
<1>. QED  BY <1>2, <1>8, <1>9, <1>10, <1>11, Zenon DEF Reads, items

\* A set of items has one reading, so their order is of no account.
LEMMA OneReading ==
    ASSUME NEW p \in TypeMaps, NEW q \in TypeMaps, NEW items, Reads(p, items), Reads(q, items)
    PROVE  p = q
<1>1. DOMAIN p = DOMAIN q
  <2>1. \A n : n \in DOMAIN p <=> n \in DOMAIN q  BY Zenon DEF Reads
  <2>. QED  BY <2>1
<1>2. ASSUME NEW n \in DOMAIN p PROVE p[n] = q[n]
  <2>1. PICK d \in items : (Defines(d) \/ Extends(d)) /\ d.name = n  BY Zenon DEF Reads
  <2>2. CASE \E e, f \in items : Defines(e) /\ Extends(f) /\ e.name = n /\ f.name = n
    <3>1. PICK e \in items, f \in items : Defines(e) /\ Extends(f) /\ e.name = n /\ f.name = n  BY <2>2, Zenon
    <3>0. e.name = f.name /\ Defines(e) /\ Extends(f)  BY <3>1, Zenon
    <3>2. p[e.name] = Extended(ConvertTypeDef(e.type), ConvertTypeDef(f.type))  BY <3>0, Zenon DEF Reads
    <3>3. q[e.name] = Extended(ConvertTypeDef(e.type), ConvertTypeDef(f.type))  BY <3>0, Zenon DEF Reads
    <3>. QED  BY <3>1, <3>2, <3>3, Zenon
  <2>3. CASE ~\E e, f \in items : Defines(e) /\ Extends(f) /\ e.name = n /\ f.name = n
    <3>1. CASE Defines(d)
      <4>1. \A e \in items : Extends(e) => e.name # d.name  BY <2>1, <2>3, <3>1, Zenon
      <4>2. p[d.name] = ConvertTypeDef(d.type)  BY <3>1, <4>1, Zenon DEF Reads
      <4>3. q[d.name] = ConvertTypeDef(d.type)  BY <3>1, <4>1, Zenon DEF Reads
      <4>. QED  BY <2>1, <4>2, <4>3, Zenon
    <3>2. CASE Extends(d)
      <4>1. \A e \in items : Defines(e) => e.name # d.name  BY <2>1, <2>3, <3>2, Zenon
      <4>2. p[d.name] = ConvertTypeDef(d.type)  BY <3>2, <4>1, Zenon DEF Reads
      <4>3. q[d.name] = ConvertTypeDef(d.type)  BY <3>2, <4>1, Zenon DEF Reads
      <4>. QED  BY <2>1, <4>2, <4>3, Zenon
    <3>. QED  BY <2>1, <3>1, <3>2
  <2>. QED  BY <2>2, <2>3
<1>3. p = [n \in DOMAIN p |-> p[n]] /\ q = [n \in DOMAIN q |-> q[n]]  BY MapParts, Zenon
<1>. QED  BY <1>1, <1>2, <1>3, Zenon

\* A document read from its end has the same items.
LEMMA ReversedDocument ==
    ASSUME NEW S, NEW doc \in Seq(S)
    PROVE  /\ Reverse(doc) \in Seq(S)
           /\ ToSet(Reverse(doc)) = ToSet(doc)
           /\ Alone(doc) => Alone(Reverse(doc))
<1> DEFINE N == Len(doc)
           r == Reverse(doc)
<1>0. DOMAIN doc = 1 .. N /\ N \in Nat  BY LenProperties
<1>1. \A i \in 1 .. N : doc[i] \in S  BY ElementOfSeq
<1>2. r = [i \in 1 .. N |-> doc[(N - i) + 1]]  BY Zenon DEF Reverse
<1> HIDE DEF N, r
<1>3. \A i \in 1 .. N : (N - i) + 1 \in 1 .. N /\ (N - ((N - i) + 1)) + 1 = i  BY <1>0
<1>4. DOMAIN r = 1 .. N /\ \A i \in 1 .. N : r[i] = doc[(N - i) + 1]  BY <1>2
<1>5. r \in Seq(S)
  <2>1. r \in [1 .. N -> S]  BY <1>1, <1>2, <1>3
  <2>. QED  BY <1>0, <2>1, IsASeq
<1>6. ToSet(r) = ToSet(doc)
  <2>1. \A i \in 1 .. N : \E j \in 1 .. N : r[i] = doc[j]  BY <1>3, <1>4, Zenon
  <2>2. ASSUME NEW i \in 1 .. N PROVE \E j \in 1 .. N : doc[i] = r[j]
    <3>1. (N - i) + 1 \in 1 .. N /\ r[(N - i) + 1] = doc[(N - ((N - i) + 1)) + 1]  BY <1>3, <1>4, Zenon
    <3>2. r[(N - i) + 1] = doc[i]  BY <1>3, <3>1
    <3>. QED  BY <3>1, <3>2, Zenon
  <2>3. ToSet(r) = {r[i] : i \in 1 .. N} /\ ToSet(doc) = {doc[i] : i \in 1 .. N}  BY <1>0, <1>4, Zenon DEF ToSet
  <2>. QED  BY <2>1, <2>2, <2>3
<1>7. ASSUME Alone(doc) PROVE Alone(r)
  <2>1. ASSUME NEW i \in 1 .. N, NEW j \in 1 .. N, i # j, r[i].name = r[j].name PROVE r[i].extends # r[j].extends
    <3>1. (N - i) + 1 \in DOMAIN doc /\ (N - j) + 1 \in DOMAIN doc /\ (N - i) + 1 # (N - j) + 1  BY <1>0, <2>1
    <3>2. r[i] = doc[(N - i) + 1] /\ r[j] = doc[(N - j) + 1]  BY <1>4
    <3>. QED  BY <1>7, <2>1, <3>1, <3>2, Zenon DEF Alone
  <2>. QED  BY <1>4, <2>1, Zenon DEF Alone
<1>. QED  BY <1>5, <1>6, <1>7 DEF r

\* An extension may come before or after its type, and adds to it.
LEMMA ExtensionsAreAdded ==
    ASSUME NEW doc \in Seq(GqlItems), EachOnce(doc)
    PROVE  LET map == ParseGraphQl(doc)
           IN  /\ map = ParseGraphQl(Reverse(doc))
               /\ \A i \in DOMAIN doc :
                     LET t == ConvertTypeDef(doc[i].type) IN
                     doc[i].name \notin Builtins =>
                       /\ ToSet(t.fields) \subseteq ToSet(map[doc[i].name].fields)
                       /\ ToSet(t.members) \subseteq ToSet(map[doc[i].name].members)
<1> DEFINE map == ParseGraphQl(doc)
           items == ToSet(doc)
           C(d) == ConvertTypeDef(d.type)
           Holds(d) == /\ ToSet(C(d).fields) \subseteq ToSet(map[d.name].fields)
                       /\ ToSet(C(d).members) \subseteq ToSet(map[d.name].members)
<1>0. DOMAIN doc = 1 .. Len(doc)  BY LenProperties
<1>1. Alone(doc)  BY Zenon DEF EachOnce, Alone
<1>2. Reads(map, items)  BY <1>1, DocumentReads
<1>3. map = ParseGraphQl(Reverse(doc))
  <2> DEFINE r == Reverse(doc)
  <2>1. r \in Seq(GqlItems) /\ ToSet(r) = items /\ Alone(r)  BY <1>1, ReversedDocument
  <2> HIDE DEF r
  <2>2. Reads(ParseGraphQl(r), items)  BY <2>1, DocumentReads
  <2>3. ParseGraphQl(r) \in TypeMaps /\ map \in TypeMaps  BY <2>1, DocumentMap
  <2>4. map = ParseGraphQl(r)  BY <1>2, <2>2, <2>3, OneReading
  <2>. QED  BY <2>4 DEF r
<1>4. \A i \in DOMAIN doc : doc[i] \in items  BY Zenon DEF ToSet
<1>5. \A d, e \in items : d # e /\ d.name = e.name => d.extends # e.extends /\ d.type.kind = e.type.kind
  <2>1. \A d \in items : \E i \in DOMAIN doc : d = doc[i]  BY Zenon DEF ToSet
  <2>2. ASSUME NEW d \in items, NEW e \in items, d # e, d.name = e.name
        PROVE  d.extends # e.extends /\ d.type.kind = e.type.kind
    <3>1. PICK i \in DOMAIN doc : d = doc[i]  BY <2>1, Zenon
    <3>2. PICK j \in DOMAIN doc : e = doc[j]  BY <2>1, Zenon
    <3>3. i # j /\ doc[i].name = doc[j].name  BY <2>2, <3>1, <3>2, Zenon
    <3>4. doc[i].extends # doc[j].extends /\ doc[i].type.kind = doc[j].type.kind  BY <3>3, Zenon DEF EachOnce
    <3>. QED  BY <3>1, <3>2, <3>4, Zenon
  <2>. QED  BY <2>2, Zenon
<1>6. \A d \in items : d \in GqlItems
  <2>1. \A i \in DOMAIN doc : doc[i] \in GqlItems  BY <1>0, ElementOfSeq
  <2>. QED  BY <2>1, Zenon DEF ToSet
<1> HIDE DEF map, items
<1>7. ASSUME NEW d \in items, NEW e \in items, Defines(d), Extends(e), d.name = e.name
      PROVE  Holds(d) /\ Holds(e)
  <2>1. map[d.name] = Extended(C(d), C(e))  BY <1>2, <1>7, Zenon DEF Reads
  <2>2. d # e  BY <1>7, Zenon DEF Defines, Extends
  <2>3. C(d) \in ConvertedTypes /\ C(e) \in ConvertedTypes /\ C(d).kind = d.type.kind /\ C(e).kind = e.type.kind
    BY <1>6, ItemParts, ConvertedType, Zenon
  <2>4. C(d).kind = C(e).kind  BY <1>5, <1>7, <2>2, <2>3, Zenon
  <2>. QED  BY <1>7, <2>1, <2>3, <2>4, ExtendedType, Zenon
<1>8. ASSUME NEW d \in items, Defines(d) PROVE Holds(d)
  <2>1. CASE \E e \in items : Extends(e) /\ e.name = d.name  BY <1>7, <1>8, <2>1, Zenon
  <2>2. CASE \A e \in items : Extends(e) => e.name # d.name
    <3>1. map[d.name] = C(d)  BY <1>2, <1>8, <2>2, Zenon DEF Reads
    <3>. QED  BY <3>1, Zenon
  <2>. QED  BY <2>1, <2>2, Zenon
<1>9. ASSUME NEW e \in items, Extends(e) PROVE Holds(e)
  <2>1. CASE \E d \in items : Defines(d) /\ d.name = e.name  BY <1>7, <1>9, <2>1, Zenon
  <2>2. CASE \A d \in items : Defines(d) => d.name # e.name
    <3>1. map[e.name] = C(e)  BY <1>2, <1>9, <2>2, Zenon DEF Reads
    <3>. QED  BY <3>1, Zenon
  <2>. QED  BY <2>1, <2>2, Zenon
<1>10. ASSUME NEW e \in items, e.type.kind = "scalar" PROVE Holds(e)
  <2>1. e.type \in GqlTypes  BY <1>6, ItemParts
  <2>2. e.type.fields = <<>> /\ e.type.members = <<>>
    <3>1. "scalar" \notin WithFields /\ "scalar" \notin WithMembers  BY DEF WithFields, WithMembers
    <3>. QED  BY <1>10, <2>1, <3>1, TypeParts, Zenon
  <2>3. C(e).fields = <<>> /\ C(e).members = <<>>  BY <2>1, <2>2, ConvertedType, Zenon
  <2>4. ToSet(<<>>) = {}  BY DEF ToSet
  <2>. QED  BY <2>3, <2>4, Zenon
<1>11. ASSUME NEW d \in items, d.name \notin Builtins PROVE Holds(d)
  <2>1. Defines(d) \/ Extends(d) \/ d.type.kind = "scalar"  BY <1>11, Zenon DEF Defines, Extends
  <2>. QED  BY <1>8, <1>9, <1>10, <2>1, Zenon
<1>12. \A i \in DOMAIN doc : doc[i].name \notin Builtins => Holds(doc[i])  BY <1>4, <1>11, Zenon
<1>. QED  BY <1>3, <1>12, Zenon DEF map

-----------------------------------------------------------------------------
(* The invariant.                                                          *)

Versions == IF area = "graphql" THEN GraphQlDocuments ELSE ProtoSchemas

\* A report is of a release and the one before it.
ReleasesInv ==
    /\ area \in {"graphql", "proto", "parser", "comments"}
    /\ releases \in Seq(Versions) /\ Len(releases) <= MaxReleases
    /\ reports \in Seq({Diff(p[1], p[2]) : p \in Versions \X Versions})
    /\ Len(reports) = (IF releases = <<>> THEN 0 ELSE Len(releases) - 1)
    /\ \A i \in 1 .. Len(releases) - 1 : reports[i] = Diff(releases[i], releases[i + 1])

\* What the turns so far have not used up is left.
ParserInv == ParserTypes /\ turns + Pending <= Len(document.text) + 1

\* A text that was stripped is what strip_comments makes of it.
StrippedInv ==
    /\ stripped = [from |-> stripped.from, to |-> stripped.to, done |-> stripped.done]
    /\ stripped.from \in Texts \cup {<<>>}
    /\ stripped.done => stripped.to = StripComments(stripped.from)

EnginesInv == ReleasesInv /\ ParserInv /\ StrippedInv

-----------------------------------------------------------------------------
(* The engine of an area, and what it takes for a compatible change.       *)

SafeRelease(a, b) ==
    IF area = "graphql" THEN SafeGraphQl(Schema(a), Schema(b)) ELSE SafeProto(Schema(a), Schema(b))

LEMMA GraphQlVersion ==
    ASSUME area = "graphql", NEW a \in Versions
    PROVE  /\ Schema(a) = ParseGraphQl(a)
           /\ \A n \in DOMAIN Schema(a) : Schema(a)[n] \in ConvertedTypes
           /\ \A n \in DOMAIN Schema(a) : Schema(a)[n] \in GqlTypes
           /\ \A n \in DOMAIN Schema(a) : Schema(a)[n].kind \in GqlKinds
<1>1. a \in Seq(GqlItems)  BY DocumentsAssumption, Zenon DEF Versions
<1>2. Schema(a) = ParseGraphQl(a)  BY Zenon DEF Schema
<1>3. \A n \in DOMAIN Schema(a) : Schema(a)[n] \in ConvertedTypes  BY <1>1, <1>2, DocumentMap, Zenon
<1>4. \A t \in ConvertedTypes : t \in GqlTypes  BY Zenon DEF ConvertedTypes
<1>5. \A t \in GqlTypes : t.kind \in GqlKinds
  <2>1. \A t \in GqlTypes : t \in [kind : GqlKinds, fields : Seq(GqlFields), members : Seq(STRING)]
    BY TypeParts, Zenon
  <2>. QED  BY <2>1
<1>. QED  BY <1>2, <1>3, <1>4, <1>5, Zenon

LEMMA ProtoVersion ==
    ASSUME area # "graphql", NEW a \in Versions
    PROVE  Schema(a) = a /\ IsProtoSchema(a)
BY DocumentsAssumption, Zenon DEF Versions, Schema

\* Both engines at once: compatible releases are those reported without
\* a breaking change, they compose, and they are what users notice.
LEMMA ReleaseChanges ==
    ASSUME NEW a \in Versions, NEW b \in Versions
    PROVE  /\ Breaking(Diff(a, b)) = {} <=> SafeRelease(a, b)
           /\ Known(Diff(a, b))
           /\ Diff(a, a) = {}
<1>1. CASE area = "graphql"
  <2>1. \A x, y : Diff(x, y) = DiffGraphQl(Schema(x), Schema(y))  BY <1>1, Zenon DEF Diff
  <2>2. SafeRelease(a, b) <=> SafeGraphQl(Schema(a), Schema(b))  BY <1>1, Zenon DEF SafeRelease
  <2>3. \A n \in DOMAIN Schema(a) : Schema(a)[n].kind \in GqlKinds  BY <1>1, GraphQlVersion
  <2>4. /\ Breaking(DiffGraphQl(Schema(a), Schema(b))) = {} <=> SafeGraphQl(Schema(a), Schema(b))
        /\ Known(DiffGraphQl(Schema(a), Schema(b)))
        /\ DiffGraphQl(Schema(a), Schema(a)) = {}
    BY <2>3, GraphQlChanges, Zenon
  <2>. QED  BY <2>1, <2>2, <2>4, Zenon
<1>2. CASE area # "graphql"
  <2>1. \A x, y : Diff(x, y) = DiffProto(Schema(x), Schema(y))  BY <1>2, Zenon DEF Diff
  <2>2. SafeRelease(a, b) <=> SafeProto(Schema(a), Schema(b))  BY <1>2, Zenon DEF SafeRelease
  <2>3. /\ Breaking(DiffProto(Schema(a), Schema(b))) = {} <=> SafeProto(Schema(a), Schema(b))
        /\ Known(DiffProto(Schema(a), Schema(b)))
        /\ DiffProto(Schema(a), Schema(a)) = {}
    BY ProtoChanges, Zenon
  <2>. QED  BY <2>1, <2>2, <2>3, Zenon
<1>. QED  BY <1>1, <1>2

\* Compatible with one another: the engines skip no case of a sum.
LEMMA ReleaseTransitive ==
    ASSUME NEW a, NEW b, NEW c, SafeRelease(a, b), SafeRelease(b, c)
    PROVE  SafeRelease(a, c)
BY GraphQlTransitive, ProtoTransitive, Zenon DEF SafeRelease

LEMMA ReleaseMeaning ==
    ASSUME NEW a \in Versions, NEW b \in Versions
    PROVE  /\ SafeRelease(a, b) => ~Broken(a, b)
           /\ ~SafeRelease(a, b) =>
                Broken(a, b) \/ (area = "graphql" /\ NullabilityOnly(Schema(a), Schema(b)))
<1>1. CASE area = "graphql"
  <2>1. (Broken(a, b) <=> GraphQlBroken(Schema(a), Schema(b)))
        /\ (SafeRelease(a, b) <=> SafeGraphQl(Schema(a), Schema(b)))
    BY <1>1, Zenon DEF Broken, SafeRelease
  <2>2. /\ \A n \in DOMAIN Schema(a) : Schema(a)[n] \in ConvertedTypes
        /\ \A n \in DOMAIN Schema(b) : Schema(b)[n] \in ConvertedTypes
        /\ \A n \in DOMAIN Schema(a) : Schema(a)[n] \in GqlTypes
        /\ \A n \in DOMAIN Schema(b) : Schema(b)[n] \in GqlTypes
    BY <1>1, GraphQlVersion
  <2>3. SafeGraphQl(Schema(a), Schema(b)) => ~GraphQlBroken(Schema(a), Schema(b))  BY <2>2, GraphQlSafe, Zenon
  <2>4. ~SafeGraphQl(Schema(a), Schema(b)) =>
           GraphQlBroken(Schema(a), Schema(b)) \/ NullabilityOnly(Schema(a), Schema(b))
    BY <2>2, GraphQlAlarm, Zenon
  <2>. QED  BY <1>1, <2>1, <2>3, <2>4
<1>2. CASE area # "graphql"
  <2>1. (Broken(a, b) <=> ProtoBroken(a, b)) /\ (SafeRelease(a, b) <=> SafeProto(a, b))
    BY <1>2, ProtoVersion, Zenon DEF Broken, SafeRelease
  <2>2. IsProtoSchema(a) /\ IsProtoSchema(b)  BY <1>2, ProtoVersion
  <2>3. SafeProto(a, b) <=> ~ProtoBroken(a, b)  BY <2>2, ProtoMeaning
  <2>. QED  BY <2>1, <2>3
<1>. QED  BY <1>1, <1>2

-----------------------------------------------------------------------------
(* The invariant holds.                                                    *)

LEMMA EmptyDocument == NoDocument.text = <<>>
BY DEF NoDocument

LEMMA StripsNothing == StripComments(<<>>) = <<>>
<1> DEFINE C == STRING \cup {"/", "nl"}
<1>1. <<>> \in Seq(C) /\ "/" \in C /\ "nl" \in C /\ Len(<<>>) = 0  OBVIOUS
<1> HIDE DEF C
<1>2. \E at \in [0 .. Len(<<>>) -> Strips(C)] :
        /\ at[0] = StripStart
        /\ \A n \in 1 .. Len(<<>>) : at[n] = StripChar(at[n - 1], <<>>[n])
        /\ at[Len(<<>>)] = FoldLeft(StripChar, StripStart, <<>>)
  BY <1>1, StripFold
<1>3. FoldLeft(StripChar, StripStart, <<>>) = StripStart  BY <1>1, <1>2
<1>4. FoldLeft(StripChar, [mode |-> "text", out |-> <<>>], <<>>) = [mode |-> "text", out |-> <<>>]
  BY <1>3, Zenon DEF StripStart
<1>5. "text" # "slash"  OBVIOUS
<1>6. [mode |-> "text", out |-> <<>>].mode = "text" /\ [mode |-> "text", out |-> <<>>].out = <<>>  OBVIOUS
<1>. QED  BY <1>4, <1>5, <1>6, Zenon DEF StripComments

LEMMA EnginesInvInit == ASSUME Init PROVE EnginesInv
<1>1. /\ area \in {"graphql", "proto", "parser", "comments"}
      /\ releases = <<>> /\ reports = <<>> /\ turns = 0
  BY Zenon DEF Init
<1>2. ReleasesInv
  <2>1. \A S : <<>> \in Seq(S)  OBVIOUS
  <2>2. Len(<<>>) = 0 /\ 1 .. 0 - 1 = {}  OBVIOUS
  <2>. QED  BY <1>1, <2>1, <2>2, ReleasesAssumption DEF ReleasesInv
<1>3. ParserInv
  <2>1. CASE area = "parser"
    <3>1. document \in Documents /\ rest = document.text /\ scopes = <<>> /\ verdict = "running"
      BY <2>1, Zenon DEF Init, ParserInit
    <3>2. document.text \in Seq([t : STRING, v : STRING])  BY <3>1, TokensAssumption
    <3>3. document.text \in Seq(AllTokens)
      <4>1. [t : STRING, v : STRING] \subseteq AllTokens  BY Zenon DEF AllTokens, Strings
      <4>. QED  BY <3>2, <4>1, SeqMonotonic
    <3>4. scopes \in Seq(Calls) /\ Len(scopes) = 0  BY <3>1
    <3>5. ParserTypes  BY <1>1, <3>1, <3>3, <3>4 DEF ParserTypes
    <3>6. Pending = Len(document.text) + 1
      <4>1. Left = 1  BY <3>1 DEF Left
      <4>2. Len(document.text) \in Nat  BY <3>3
      <4>. QED  BY <3>1, <3>4, <4>1, <4>2 DEF Pending
    <3>7. Len(document.text) \in Nat  BY <3>3
    <3>. QED  BY <1>1, <3>5, <3>6, <3>7 DEF ParserInv
  <2>2. CASE area # "parser"
    <3>1. document = NoDocument /\ rest = <<>> /\ scopes = <<>> /\ verdict = "ok"
      BY <2>2, Zenon DEF Init, Idle
    <3>2. rest \in Seq(AllTokens) /\ scopes \in Seq(Calls) /\ Len(rest) = 0 /\ Len(scopes) = 0  BY <3>1
    <3>3. ParserTypes  BY <1>1, <3>1, <3>2 DEF ParserTypes
    <3>4. Left = 0  BY <3>1 DEF Left
    <3>5. Len(document.text) = 0  BY <3>1, EmptyDocument
    <3>. QED  BY <1>1, <3>2, <3>3, <3>4, <3>5 DEF ParserInv, Pending
  <2>. QED  BY <2>1, <2>2
<1>4. StrippedInv
  <2>1. CASE area = "comments"
    <3>1. PICK t \in Texts : stripped = [from |-> t, to |-> t, done |-> FALSE]  BY <2>1, Zenon DEF Init
    <3>2. /\ stripped.from = t /\ ~stripped.done
          /\ stripped = [from |-> stripped.from, to |-> stripped.to, done |-> stripped.done]
      BY <3>1
    <3>. QED  BY <3>2, Zenon DEF StrippedInv
  <2>2. CASE area # "comments"
    <3>1. stripped = [from |-> <<>>, to |-> <<>>, done |-> TRUE]  BY <2>2, Zenon DEF Init
    <3>2. /\ stripped.from = <<>> /\ stripped.to = <<>>
          /\ stripped = [from |-> stripped.from, to |-> stripped.to, done |-> stripped.done]
      BY <3>1
    <3>. QED  BY <3>2, StripsNothing, Zenon DEF StrippedInv
  <2>. QED  BY <2>1, <2>2
<1>. QED  BY <1>2, <1>3, <1>4 DEF EnginesInv

\* A release is compared with the one before it.
LEMMA ReleaseKeeps ==
    ASSUME ReleasesInv, NEW v \in Versions, Release(v)
    PROVE  ReleasesInv'
<1> DEFINE R == {Diff(p[1], p[2]) : p \in Versions \X Versions}
           n == Len(releases)
           new == Append(releases, v)
<1>0. /\ area \in {"graphql", "proto", "parser", "comments"}
      /\ releases \in Seq(Versions) /\ n <= MaxReleases
      /\ reports \in Seq(R)
      /\ Len(reports) = (IF releases = <<>> THEN 0 ELSE n - 1)
      /\ \A i \in 1 .. n - 1 : reports[i] = Diff(releases[i], releases[i + 1])
  BY Zenon DEF ReleasesInv
<1>1. /\ n < MaxReleases /\ releases' = new /\ area' = area
      /\ reports' = IF releases = <<>> THEN reports ELSE Append(reports, Diff(Last(releases), v))
  BY Zenon DEF Release
<1>2. Versions' = Versions  BY <1>1, Zenon DEF Versions
<1>3. \A a, b : Diff(a, b)' = Diff(a, b)  BY <1>1, Zenon DEF Diff, Schema
<1>4. R' = R  BY <1>2, <1>3, Zenon
<1>5. \A a, b \in Versions : Diff(a, b) \in R
  <2>1. ASSUME NEW a \in Versions, NEW b \in Versions PROVE Diff(a, b) \in R
    <3>1. <<a, b>> \in Versions \X Versions /\ <<a, b>>[1] = a /\ <<a, b>>[2] = b  OBVIOUS
    <3>2. Diff(<<a, b>>[1], <<a, b>>[2]) \in R  BY <3>1, Zenon
    <3>. QED  BY <3>1, <3>2
  <2>. QED  BY <2>1
<1>6. n \in Nat /\ new \in Seq(Versions) /\ Len(new) = n + 1 /\ new # <<>> /\ new[n + 1] = v
      /\ \A i \in 1 .. n : new[i] = releases[i]
  BY <1>0, AppendProperties
<1> DEFINE D(a, b) == Diff(a, b)
<1> HIDE DEF R, new, D
<1>7. CASE releases = <<>>
  <2>1. n = 0 /\ reports' = reports /\ Len(reports) = 0  BY <1>0, <1>1, <1>7
  <2>2. Len(new) - 1 = 0 /\ 1 .. 0 = {}  BY <1>6, <2>1
  <2>3. \A i \in 1 .. Len(new) - 1 : FALSE  BY <2>2
  <2>4. Len(new) <= MaxReleases  BY <1>1, <1>6, ReleasesAssumption
  <2>. QED  BY <1>0, <1>1, <1>2, <1>4, <1>6, <2>1, <2>2, <2>3, <2>4 DEF ReleasesInv, R
<1>8. CASE releases # <<>>
  <2> DEFINE d == Diff(Last(releases), v)
             rs == Append(reports, d)
  <2>1. n > 0 /\ n \in 1 .. n /\ Last(releases) = releases[n] /\ releases[n] \in Versions
    <3>1. n > 0  BY <1>0, <1>8
    <3>2. Last(releases) = releases[n]  BY Zenon DEF Last
    <3>. QED  BY <1>0, <1>6, <3>1, <3>2, ElementOfSeq
  <2>2. d \in R /\ d = Diff(releases[n], v)  BY <1>5, <2>1, Zenon
  <2>3. Len(reports) = n - 1  BY <1>0, <1>8
  <2> HIDE DEF d
  <2>4. rs \in Seq(R) /\ Len(rs) = (n - 1) + 1 /\ rs[(n - 1) + 1] = d /\ \A i \in 1 .. n - 1 : rs[i] = reports[i]
    BY <1>0, <2>2, <2>3, AppendProperties
  <2>5. reports' = rs  BY <1>1, <1>8, Zenon DEF d
  <2> HIDE DEF rs
  <2>6. (n - 1) + 1 = n /\ Len(new) - 1 = n  BY <1>6
  <2>7. ASSUME NEW i \in 1 .. n PROVE rs[i] = Diff(new[i], new[i + 1])
    <3>1. CASE i = n
      <4>1. rs[n] = d /\ new[n] = releases[n] /\ new[n + 1] = v  BY <1>6, <2>1, <2>4, <2>6
      <4>. QED  BY <2>2, <3>1, <4>1, Zenon
    <3>2. CASE i # n
      <4>1. i \in 1 .. n - 1 /\ i + 1 \in 1 .. n  BY <1>6, <3>2
      <4>2. rs[i] = reports[i] /\ new[i] = releases[i] /\ new[i + 1] = releases[i + 1]  BY <1>6, <2>4, <4>1
      <4>3. reports[i] = Diff(releases[i], releases[i + 1])  BY <1>0, <4>1, Zenon
      <4>. QED  BY <4>2, <4>3, Zenon
    <3>. QED  BY <3>1, <3>2
  <2>8. Len(new) <= MaxReleases  BY <1>1, <1>6, ReleasesAssumption
  <2>9. Len(rs) = Len(new) - 1  BY <2>4, <2>6
  <2>10. \A i \in 1 .. Len(releases') - 1 : reports'[i] = Diff(releases[i], releases[i + 1])'
    <3>1. ASSUME NEW i \in 1 .. n PROVE reports'[i] = Diff(releases[i], releases[i + 1])'
      <4>1. reports'[i] = Diff(releases'[i], releases'[i + 1])  BY <1>1, <2>5, <2>7, Zenon
      <4>. QED  BY <1>1, <4>1, Zenon DEF Diff, Schema
    <3>2. Len(releases') - 1 = n  BY <1>1, <2>6
    <3>. QED  BY <3>1, <3>2, Zenon
  <2>11. /\ area' \in {"graphql", "proto", "parser", "comments"}
         /\ releases' \in Seq(Versions') /\ Len(releases') <= MaxReleases /\ releases' # <<>>
         /\ reports' \in Seq(R') /\ Len(reports') = Len(releases') - 1
    BY <1>0, <1>1, <1>2, <1>4, <1>6, <2>4, <2>5, <2>8, <2>9
  <2>. QED  BY <2>10, <2>11, Zenon DEF ReleasesInv, R
<1>. QED  BY <1>7, <1>8

LEMMA EnginesInvStep == ASSUME EnginesInv, [Next]_vars PROVE EnginesInv'
<1>1. ReleasesInv /\ ParserInv /\ StrippedInv  BY Zenon DEF EnginesInv
\* A step that releases nothing, parses nothing or strips nothing.
<1>2. ASSUME UNCHANGED <<area, releases, reports>> PROVE ReleasesInv'
  <2>1. \A a, b : Diff(a, b)' = Diff(a, b)  BY <1>2, Zenon DEF Diff, Schema
  <2>2. Versions' = Versions  BY <1>2, Zenon DEF Versions
  <2>3. {Diff(p[1], p[2]) : p \in Versions \X Versions}' = {Diff(p[1], p[2]) : p \in Versions \X Versions}
    BY <2>1, <2>2, Zenon
  <2>4. \A i \in 1 .. Len(releases) - 1 : reports[i] = Diff(releases[i], releases[i + 1])  BY <1>1, Zenon DEF ReleasesInv
  <2>5. \A i \in 1 .. Len(releases') - 1 : reports'[i] = Diff(releases[i], releases[i + 1])'
    BY <1>2, <2>1, <2>4, Zenon
  <2>6. /\ area' \in {"graphql", "proto", "parser", "comments"}
        /\ releases' \in Seq(Versions') /\ Len(releases') <= MaxReleases
        /\ reports' \in Seq({Diff(p[1], p[2]) : p \in Versions \X Versions}')
        /\ Len(reports') = (IF releases' = <<>> THEN 0 ELSE Len(releases') - 1)
    BY <1>1, <1>2, <2>2, <2>3, Zenon DEF ReleasesInv
  <2>. QED  BY <2>5, <2>6, Zenon DEF ReleasesInv
<1>3. ASSUME UNCHANGED parserVars, UNCHANGED turns PROVE ParserInv'
  BY <1>1, <1>3, Zenon DEF ParserInv, ParserTypes, Pending, Left, parserVars
<1>4. ASSUME UNCHANGED stripped PROVE StrippedInv'  BY <1>1, <1>4, Zenon DEF StrippedInv
<1>5. ASSUME NEW v \in Versions, Release(v) PROVE EnginesInv'
  <2>1. UNCHANGED parserVars /\ UNCHANGED turns /\ UNCHANGED stripped  BY <1>5, Zenon DEF Release
  <2>2. ReleasesInv'  BY <1>1, <1>5, ReleaseKeeps
  <2>. QED  BY <1>3, <1>4, <2>1, <2>2, Zenon DEF EnginesInv
<1>6. CASE area = "graphql" /\ \E v \in GraphQlDocuments : Release(v)
  <2>1. Versions = GraphQlDocuments  BY <1>6, Zenon DEF Versions
  <2>. QED  BY <1>5, <1>6, <2>1, Zenon
<1>7. CASE area = "proto" /\ \E v \in ProtoSchemas : Release(v)
  <2>1. "proto" # "graphql"  OBVIOUS
  <2>2. Versions = ProtoSchemas  BY <1>7, <2>1, Zenon DEF Versions
  <2>. QED  BY <1>5, <1>7, <2>2, Zenon
<1>8. CASE Strip
  <2> DEFINE s == StripComments(stripped.from)
  <2>1. ~stripped.done /\ stripped' = [stripped EXCEPT !.to = s, !.done = TRUE]
        /\ UNCHANGED <<parserVars, area, releases, reports, turns>>
    BY <1>8, Zenon DEF Strip
  <2>2. ReleasesInv' /\ ParserInv'  BY <1>2, <1>3, <2>1, Zenon
  <2>4. stripped = [from |-> stripped.from, to |-> stripped.to, done |-> stripped.done]
        /\ stripped.from \in Texts \cup {<<>>}
    BY <1>1, Zenon DEF StrippedInv
  <2> HIDE DEF s
  <2>5. stripped' = [from |-> stripped.from, to |-> s, done |-> TRUE]  BY <2>1, <2>4
  <2>6. stripped'.from = stripped.from /\ stripped'.to = s /\ stripped'.done = TRUE  BY <2>5
  <2>7. stripped' = [from |-> stripped'.from, to |-> stripped'.to, done |-> stripped'.done]  BY <2>5, <2>6
  <2>8. stripped'.to = StripComments(stripped'.from)  BY <2>6, Zenon DEF s
  <2>9. StrippedInv'  BY <2>4, <2>6, <2>7, <2>8, Zenon DEF StrippedInv
  <2>. QED  BY <2>2, <2>9, Zenon DEF EnginesInv
<1>9. CASE ParseStep
  <2>1. Parse /\ turns' = turns + 1 /\ UNCHANGED <<area, releases, reports, stripped>>  BY <1>9, Zenon DEF ParseStep
  <2>2. ReleasesInv' /\ StrippedInv'  BY <1>2, <1>4, <2>1, Zenon
  <2>3. ParserTypes /\ turns + Pending <= Len(document.text) + 1  BY <1>1, Zenon DEF ParserInv
  <2>4. Turn  BY <2>1, <2>3, ParseTurn
  <2>5. ParserTypes'
    <3>1. turns' \in Nat  BY <2>1, <2>3 DEF ParserTypes
    <3>. QED  BY <2>3, <2>4, <3>1, Zenon DEF ParserTypes, Turn
  <2>6. Pending \in Nat /\ Pending' \in Nat /\ turns \in Nat /\ Len(document.text) \in Nat
    <3>1. Len(rest) \in Nat /\ Len(scopes) \in Nat /\ Left \in Nat /\ turns \in Nat  BY <2>3 DEF ParserTypes, Left
    <3>2. Len(rest') \in Nat /\ Len(scopes') \in Nat /\ Left' \in Nat  BY <2>5 DEF ParserTypes, Left
    <3>3. Len(document.text) \in Nat  BY <2>3, DocumentType
    <3>. QED  BY <3>1, <3>2, <3>3 DEF Pending
  <2>7. Pending' < Pending /\ document' = document  BY <2>4, Zenon DEF Turn
  <2>8. turns' + Pending' <= Len(document.text) + 1
    <3>1. \A t, p, q, m \in Nat : t + p <= m /\ q < p => (t + 1) + q <= m  OBVIOUS
    <3>2. Len(document.text) + 1 \in Nat  BY <2>6
    <3>3. (turns + 1) + Pending' <= Len(document.text) + 1  BY <2>3, <2>6, <2>7, <3>1, <3>2, Zenon
    <3>. QED  BY <2>1, <3>3, Zenon
  <2>9. ParserInv'  BY <2>5, <2>7, <2>8, Zenon DEF ParserInv
  <2>. QED  BY <2>2, <2>9, Zenon DEF EnginesInv
<1>10. CASE UNCHANGED vars  BY <1>2, <1>3, <1>4, <1>10, Zenon DEF EnginesInv, vars
<1>. QED  BY <1>6, <1>7, <1>8, <1>9, <1>10, Zenon DEF Next, Done

\* The invariant of the engines: a report compares a release with the one
\* before it, the turns of the parser are paid for by the text they use up,
\* and a stripped text is what strip_comments makes of it.
THEOREM EnginesInvHolds == Spec => []EnginesInv
<1>1. Init => EnginesInv  BY EnginesInvInit
<1>2. EnginesInv /\ [Next]_vars => EnginesInv'  BY EnginesInvStep
<1>. QED  BY <1>1, <1>2, PTL DEF Spec

-----------------------------------------------------------------------------
(* What the reports are worth.                                             *)

LEMMA LastReport ==
    ASSUME EnginesInv, Last2
    PROVE  /\ Before \in Versions /\ Last(releases) \in Versions
           /\ Last(reports) = Diff(Before, Last(releases))
<1> DEFINE n == Len(releases)
<1>0. /\ releases \in Seq(Versions)
      /\ Len(reports) = (IF releases = <<>> THEN 0 ELSE n - 1)
      /\ \A i \in 1 .. n - 1 : reports[i] = Diff(releases[i], releases[i + 1])
  BY Zenon DEF EnginesInv, ReleasesInv
<1>1. n \in Nat /\ n >= 2 /\ n - 1 \in 1 .. n - 1 /\ n - 1 \in 1 .. n /\ n \in 1 .. n /\ (n - 1) + 1 = n
  BY <1>0 DEF Last2
<1>2. releases # <<>>
  <2>1. Len(<<>>) = 0  OBVIOUS
  <2>2. n # 0  BY <1>1
  <2>. QED  BY <2>1, <2>2, Zenon
<1>3. Len(reports) = n - 1  BY <1>0, <1>2, Zenon
<1>4. Before = releases[n - 1] /\ Last(releases) = releases[n] /\ Last(reports) = reports[n - 1]
  BY <1>3, Zenon DEF Before, Last
<1>5. reports[n - 1] = Diff(releases[n - 1], releases[n])
  <2>1. reports[n - 1] = Diff(releases[n - 1], releases[(n - 1) + 1])  BY <1>0, <1>1, Zenon
  <2>. QED  BY <1>1, <2>1
<1>6. releases[n - 1] \in Versions /\ releases[n] \in Versions  BY <1>0, <1>1, ElementOfSeq
<1>. QED  BY <1>4, <1>5, <1>6, Zenon

\* The invariant implies each of the properties.
LEMMA TrueReports == ASSUME EnginesInv PROVE ReportsAreTrue
<1>1. TypeOK
  <2>1. /\ area \in {"graphql", "proto", "parser", "comments"}
        /\ Len(releases) <= MaxReleases
        /\ Len(reports) = (IF releases = <<>> THEN 0 ELSE Len(releases) - 1)
    BY Zenon DEF EnginesInv, ReleasesInv
  <2>2. verdict \in {"running", "ok", "error"} /\ scopes \in Seq(Calls)
    BY Zenon DEF EnginesInv, ParserInv, ParserTypes
  <2>3. \A i \in DOMAIN scopes : scopes[i].kind \in {"message", "enum", "service", "oneof"}
    <3>1. \A i \in DOMAIN scopes : scopes[i] \in Calls  BY <2>2, LenProperties, ElementOfSeq
    <3>. QED  BY <3>1 DEF Calls, ScopeKinds
  <2>4. \A i \in DOMAIN reports : \A c \in reports[i] : c.severity \in {"breaking", "risky", "safe"}
    <3> DEFINE R == {Diff(p[1], p[2]) : p \in Versions \X Versions}
    <3>1. reports \in Seq(R)  BY Zenon DEF EnginesInv, ReleasesInv
    <3>2. ASSUME NEW x \in R PROVE Known(x)
      <4>1. PICK p \in Versions \X Versions : x = Diff(p[1], p[2])  BY <3>2, Zenon
      <4>2. p[1] \in Versions /\ p[2] \in Versions  OBVIOUS
      <4>3. Known(Diff(p[1], p[2]))  BY <4>2, ReleaseChanges
      <4>. QED  BY <4>1, <4>3
    <3> HIDE DEF R
    <3>3. \A i \in DOMAIN reports : reports[i] \in R  BY <3>1, LenProperties, ElementOfSeq
    <3>. QED  BY <3>2, <3>3, Zenon DEF Known, Severities
  <2>. QED  BY <2>1, <2>2, <2>3, <2>4, Zenon DEF TypeOK
<1>2. NoMissedBreak
  <2>1. ASSUME Last2, Broken(Before, Last(releases)) PROVE Breaking(Last(reports)) # {}
    <3>1. /\ Before \in Versions /\ Last(releases) \in Versions
          /\ Last(reports) = Diff(Before, Last(releases))
      BY <2>1, LastReport
    <3>2. ~SafeRelease(Before, Last(releases))  BY <2>1, <3>1, ReleaseMeaning
    <3>. QED  BY <3>1, <3>2, ReleaseChanges
  <2>. QED  BY <2>1, Zenon DEF NoMissedBreak
<1>3. AlarmsAreReal
  <2>1. ASSUME Last2, Breaking(Last(reports)) # {}
        PROVE  \/ Broken(Before, Last(releases))
               \/ area = "graphql" /\ NullabilityOnly(Schema(Before), Schema(Last(releases)))
    <3>1. /\ Before \in Versions /\ Last(releases) \in Versions
          /\ Last(reports) = Diff(Before, Last(releases))
      BY <2>1, LastReport
    <3>2. ~SafeRelease(Before, Last(releases))  BY <2>1, <3>1, ReleaseChanges
    <3>. QED  BY <3>1, <3>2, ReleaseMeaning
  <2>. QED  BY <2>1, Zenon DEF AlarmsAreReal
<1>4. SelfDiffIsEmpty
  <2>1. ASSUME releases # <<>> PROVE Diff(Last(releases), Last(releases)) = {}
    <3>1. releases \in Seq(Versions)  BY Zenon DEF EnginesInv, ReleasesInv
    <3>2. Last(releases) \in Versions
      <4>1. Len(releases) \in 1 .. Len(releases)  BY <2>1, <3>1
      <4>. QED  BY <3>1, <4>1, ElementOfSeq DEF Last
    <3>. QED  BY <3>2, ReleaseChanges
  <2>. QED  BY <2>1, Zenon DEF SelfDiffIsEmpty
<1>. QED  BY <1>1, <1>2, <1>3, <1>4, Zenon DEF ReportsAreTrue

\* A release that breaks a user of either engine is reported as breaking, one
\* reported as breaking breaks a user or changes the nullability of a GraphQL
\* type, and a version compared with itself has no changes: of all documents
\* and schemas.
THEOREM ReportsAreTrueHolds == Spec => []ReportsAreTrue
<1>1. EnginesInv => ReportsAreTrue  BY TrueReports
<1>. QED  BY <1>1, EnginesInvHolds, PTL

\* Of releases that are each compatible with the one before, the one d + 1
\* later is compatible too.
LEMMA StepsCompose ==
    ASSUME ReleasesInv, NEW d \in Nat,
           NEW i \in DOMAIN releases, NEW j \in DOMAIN releases, j = i + d + 1,
           \A k \in i .. j - 1 : Breaking(reports[k]) = {}
    PROVE  SafeRelease(releases[i], releases[j])
<1> DEFINE n == Len(releases)
           P(e) == i + e + 1 <= j => SafeRelease(releases[i], releases[i + e + 1])
           S == {e \in Nat : P(e)}
<1>0. /\ releases \in Seq(Versions)
      /\ \A k \in 1 .. n - 1 : reports[k] = Diff(releases[k], releases[k + 1])
  BY Zenon DEF ReleasesInv
<1>1. DOMAIN releases = 1 .. n /\ n \in Nat  BY <1>0, LenProperties
<1>2. i \in 1 .. n /\ j \in 1 .. n /\ i < j  BY <1>1
<1>3. ASSUME NEW k \in i .. j - 1 PROVE SafeRelease(releases[k], releases[k + 1])
  <2>1. k \in 1 .. n - 1 /\ k \in 1 .. n /\ k + 1 \in 1 .. n  BY <1>1, <1>2
  <2>2. releases[k] \in Versions /\ releases[k + 1] \in Versions  BY <1>0, <2>1, ElementOfSeq
  <2>3. Breaking(Diff(releases[k], releases[k + 1])) = {}  BY <1>0, <2>1, Zenon
  <2>. QED  BY <2>2, <2>3, ReleaseChanges
<1>4. \A e : e \in S <=> e \in Nat /\ P(e)  OBVIOUS
<1>5. P(0)
  <2>1. i \in i .. j - 1 /\ i + 0 + 1 = i + 1  BY <1>1, <1>2
  <2>2. SafeRelease(releases[i], releases[i + 1])  BY <1>3, <2>1
  <2>. QED  BY <2>1, <2>2
<1>6. ASSUME NEW e \in Nat, P(e) PROVE P(e + 1)
  <2> SUFFICES ASSUME i + (e + 1) + 1 <= j PROVE SafeRelease(releases[i], releases[i + (e + 1) + 1])
    OBVIOUS
  <2> DEFINE k == i + e + 1
  <2>1. k \in i .. j - 1 /\ k <= j /\ k + 1 = i + (e + 1) + 1  BY <1>1, <1>2
  <2>2. SafeRelease(releases[i], releases[k])  BY <1>6, <2>1
  <2> HIDE DEF k
  <2>3. SafeRelease(releases[k], releases[k + 1])  BY <1>3, <2>1
  <2>4. SafeRelease(releases[i], releases[k + 1])  BY <2>2, <2>3, ReleaseTransitive, Zenon
  <2>. QED  BY <2>1, <2>4
<1> HIDE DEF P, S
<1>7. \A e \in Nat : e \in S  BY <1>4, <1>5, <1>6, Induction
<1>8. P(d)  BY <1>4, <1>7
<1>9. i + d + 1 = j /\ i + d + 1 <= j  BY <1>1
<1>10. SafeRelease(releases[i], releases[i + d + 1])  BY <1>8, <1>9 DEF P
<1>. QED  BY <1>9, <1>10

LEMMA SafeSteps == ASSUME EnginesInv PROVE SafeStepsCompose
<1>0. ReleasesInv /\ releases \in Seq(Versions)  BY Zenon DEF EnginesInv, ReleasesInv
<1>1. ASSUME NEW i \in DOMAIN releases, NEW j \in DOMAIN releases, i < j,
             \A k \in i .. j - 1 : Breaking(reports[k]) = {}
      PROVE  Breaking(Diff(releases[i], releases[j])) = {}
  <2>1. DOMAIN releases = 1 .. Len(releases) /\ Len(releases) \in Nat  BY <1>0, LenProperties
  <2> DEFINE d == (j - i) - 1
  <2>2. d \in Nat /\ j = i + d + 1  BY <1>1, <2>1
  <2> HIDE DEF d
  <2>3. SafeRelease(releases[i], releases[j])  BY <1>0, <1>1, <2>2, StepsCompose
  <2>4. releases[i] \in Versions /\ releases[j] \in Versions  BY <1>0, <2>1, ElementOfSeq
  <2>. QED  BY <2>3, <2>4, ReleaseChanges
<1>. QED  BY <1>1, Zenon DEF SafeStepsCompose

\* Whoever skips versions that are each compatible with the one before is not
\* broken by the sum, however many they are.
THEOREM SafeStepsComposeHolds == Spec => []SafeStepsCompose
<1>1. EnginesInv => SafeStepsCompose  BY SafeSteps
<1>. QED  BY <1>1, EnginesInvHolds, PTL

-----------------------------------------------------------------------------
(* What the parsers read.                                                  *)

LEMMA ReadDocuments == ASSUME EnginesInv PROVE DocumentsAreRead
<1>1. ExtensionsAnywhere
  <2>1. ASSUME area = "graphql", releases # <<>>, EachOnce(Last(releases))
        PROVE  Last(releases) \in Seq(GqlItems)
    <3>1. releases \in Seq(Versions)  BY Zenon DEF EnginesInv, ReleasesInv
    <3>2. Last(releases) \in Versions
      <4>1. Len(releases) \in 1 .. Len(releases)  BY <2>1, <3>1
      <4>. QED  BY <3>1, <4>1, ElementOfSeq DEF Last
    <3>. QED  BY <2>1, <3>2, DocumentsAssumption, Zenon DEF Versions
  <2>. QED  BY <2>1, ExtensionsAreAdded, Zenon DEF ExtensionsAnywhere
<1>2. NoCommentIsLeft /\ LinesAreKept
  <2> DEFINE C == STRING \cup {"/", "nl"}
  <2>1. ASSUME NEW s \in Texts \cup {<<>>} PROVE s \in Seq(C)
    <3>1. STRING \subseteq C  BY Zenon
    <3>2. CASE s = <<>>  BY <3>2
    <3>3. CASE s \in Texts
      <4>1. s \in Seq(STRING)  BY <3>3, TextsAssumption, Zenon
      <4> HIDE DEF C
      <4>. QED  BY <3>1, <4>1, SeqMonotonic
    <3>. QED  BY <2>1, <3>2, <3>3
  <2>2. "/" \in C /\ "nl" \in C  BY Zenon
  <2> HIDE DEF C
  <2>3. stripped.from \in Texts \cup {<<>>} /\ (stripped.done => stripped.to = StripComments(stripped.from))
    BY Zenon DEF EnginesInv, StrippedInv
  <2>4. stripped.from \in Seq(C)  BY <2>1, <2>3, Zenon
  <2>5. LET s == StripComments(stripped.from) IN
        /\ \A i \in 1 .. Len(s) - 1 : ~(s[i] = "/" /\ s[i + 1] \in {"/", "*"})
        /\ Cardinality(LineBreaks(s)) = Cardinality(LineBreaks(stripped.from))
    BY <2>2, <2>4, StripKeeps, Zenon
  <2>. QED  BY <2>3, <2>5, Zenon DEF NoCommentIsLeft, LinesAreKept
<1>3. EveryTurnAdvances
  <2>1. ParserTypes /\ turns + Pending <= Len(document.text) + 1  BY Zenon DEF EnginesInv, ParserInv
  <2>2. Len(rest) \in Nat /\ Len(scopes) \in Nat /\ Left \in Nat /\ turns \in Nat  BY <2>1 DEF ParserTypes, Left
  <2>3. Len(document.text) \in Nat  BY <2>1, DocumentType
  <2>4. turns <= turns + Pending /\ turns + Pending \in Nat  BY <2>2 DEF Pending
  <2>5. \A x, y, z \in Nat : x <= y /\ y <= z => x <= z  OBVIOUS
  <2>6. Len(document.text) + 1 \in Nat  BY <2>3
  <2>7. turns <= Len(document.text) + 1  BY <2>1, <2>2, <2>4, <2>5, <2>6, Zenon
  <2>. QED  BY <2>7, Zenon DEF EveryTurnAdvances
<1>. QED  BY <1>1, <1>2, <1>3, Zenon DEF DocumentsAreRead

\* The parsers read any document to its end: an extension counts wherever it
\* is, no comment is left and every line break is kept, and no turn of the
\* parser's loops leaves the text as it was.
THEOREM DocumentsAreReadHolds == Spec => []DocumentsAreRead
<1>1. EnginesInv => DocumentsAreRead  BY ReadDocuments
<1>. QED  BY <1>1, EnginesInvHolds, PTL
=============================================================================
