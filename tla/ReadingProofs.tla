----------------------------- MODULE ReadingProofs -----------------------------
(***************************************************************************)
(* Type correctness of Reading, and that paragraphs become blocks as they  *)
(* are written, for any files and any number of errors.                    *)
(***************************************************************************)
EXTENDS Reading, SequenceTheorems, FiniteSetTheorems, WellFoundedInduction, TLAPS

Words == {"low", "Cap", "LONG", "garbage"}
BlockSet == [id : Nat, body : Seq(Nat), ok : BOOLEAN]

Typed ==
  /\ pc \in {"open", "loop", "terms", "id", "text", "body", "skip", "end", "fatal"}
  /\ file \in Files /\ reader \in Readers
  /\ at \in Nat /\ lineNo \in Nat
  /\ line \in Seq(Words)
  /\ capacity \in Nat /\ result \in BOOLEAN /\ caller \in {"id", "body"}
  /\ errors \in Nat /\ most \in Nat
  /\ blocks \in Seq(BlockSet)

\* Where the reader is: never past a last line without a newline.
Place ==
  /\ at >= 1 /\ at <= N + 1 /\ lineNo <= N
  /\ lineNo = at - 1 \/ (~file.ended /\ at = N /\ lineNo = N)
  /\ pc = "open" => at = 1
  /\ pc = "end" => at > N
  /\ pc \notin {"open", "fatal"} => N >= 1
  /\ pc \notin {"open", "fatal"} /\ ~file.ended => at <= N
  /\ pc \in {"id", "body"} /\ result => lineNo >= 1
  /\ pc \in {"text", "body"} => blocks # <<>>
  /\ pc = "terms" /\ caller = "body" => blocks # <<>>

\* The vector holds the words of this line and of every line before.
Held ==
  /\ Capitals(line) <= capacity /\ most <= capacity
  /\ "garbage" \in ToSet(line) => Capitals(line) > most

IInv == Typed /\ Place /\ Held

(***************************************************************************)
(* Doubled is the function its recursion describes: a function on 0..n     *)
(* that obeys the recursion exists for every n, and there is only one.     *)
(***************************************************************************)
LEMMA LeastNumber ==
  ASSUME NEW S \in SUBSET Nat, S # {}
  PROVE  \E x \in S : \A y \in S : x <= y
<1>1. PICK x \in S : \A y \in S : ~(<<y, x>> \in OpToRel(<, Nat))
  BY NatLessThanWellFounded, WFMin
<1>2. \A y \in S : ~(y < x)
  BY <1>1 DEF OpToRel
<1> QED BY <1>2

LEMMA NatInduct ==
  ASSUME NEW S, 0 \in S, \A n \in Nat : n \in S => n + 1 \in S
  PROVE  \A n \in Nat : n \in S
<1> SUFFICES ASSUME NEW m \in Nat, m \notin S PROVE FALSE
  OBVIOUS
<1> DEFINE T == {n \in Nat : n \notin S}
<1>1. PICK n \in T : \A k \in T : n <= k
  <2>1. T \in SUBSET Nat /\ T # {}
    OBVIOUS
  <2> QED BY <2>1, LeastNumber
<1>2. n # 0 /\ n \in Nat
  OBVIOUS
<1>3. n - 1 \in Nat /\ n - 1 \notin T
  BY <1>1, <1>2
<1>4. n - 1 \in S /\ n - 1 + 1 = n
  BY <1>2, <1>3
<1> QED BY <1>2, <1>3, <1>4

LEMMA Half ==
  ASSUME NEW n \in Nat, n >= 2
  PROVE  /\ (n + 1) \div 2 \in Nat /\ (n + 1) \div 2 < n /\ (n + 1) \div 2 >= 1
         /\ 2 * ((n + 1) \div 2) >= n
OBVIOUS

UpTo(n, g) == /\ g \in [0..n -> Nat]
              /\ \A m \in 0..n : g[m] = IF m <= 1 THEN m ELSE 2 * g[(m + 1) \div 2]

LEMMA UpToUnique ==
  ASSUME NEW n \in Nat, NEW k \in Nat, NEW g, NEW h, UpTo(n, g), UpTo(k, h),
         NEW m \in Nat, m <= n, m <= k
  PROVE  g[m] = h[m]
<1> DEFINE T == {i \in Nat : i <= n /\ i <= k /\ g[i] # h[i]}
<1> SUFFICES ASSUME T # {} PROVE FALSE
  OBVIOUS
<1>1. PICK i \in T : \A j \in T : i <= j
  <2>1. T \in SUBSET Nat
    OBVIOUS
  <2> QED BY <2>1, LeastNumber
<1>2. i \in Nat /\ i \in 0..n /\ i \in 0..k
  OBVIOUS
<1>3. CASE i <= 1
  BY <1>2, <1>3 DEF UpTo
<1>4. CASE i >= 2
  <2> DEFINE q == (i + 1) \div 2
  <2>1. q \in Nat /\ q < i
    BY <1>2, <1>4, Half
  <2>2. q \notin T
    BY <2>1, <1>1, <1>2
  <2>3. g[q] = h[q]
    BY <2>1, <2>2, <1>2
  <2>4. g[i] = 2 * g[q] /\ h[i] = 2 * h[q]
    BY <1>2, <1>4 DEF UpTo
  <2> QED BY <2>3, <2>4
<1> QED BY <1>2, <1>3, <1>4

LEMMA UpToExists == \A n \in Nat : \E g : UpTo(n, g)
<1> DEFINE S == {n \in Nat : \E g : UpTo(n, g)}
<1>1. 0 \in S
  <2>1. UpTo(0, [i \in 0..0 |-> 0])
    BY DEF UpTo
  <2> QED BY <2>1
<1>2. ASSUME NEW n \in Nat, n \in S
      PROVE  n + 1 \in S
  <2>1. PICK g : UpTo(n, g)
    BY <1>2
  <2> DEFINE q == (n + 2) \div 2
             e == IF n + 1 <= 1 THEN n + 1 ELSE 2 * g[q]
             h == [i \in 0..(n + 1) |-> IF i = n + 1 THEN e ELSE g[i]]
  <2>2. n + 1 >= 2 => q \in 0..n /\ q \in Nat
    BY Half
  <2>3. e \in Nat
    BY <2>1, <2>2 DEF UpTo
  <2>4. h \in [0..(n + 1) -> Nat]
    BY <2>1, <2>3 DEF UpTo
  <2>5. ASSUME NEW m \in 0..(n + 1)
        PROVE  h[m] = IF m <= 1 THEN m ELSE 2 * h[(m + 1) \div 2]
    <3>1. CASE m = n + 1
      <4>1. (m + 1) \div 2 = q
        BY <3>1
      <4>2. m > 1 => h[q] = g[q]
        BY <2>2, <3>1
      <4> QED BY <3>1, <4>1, <4>2
    <3>2. CASE m # n + 1
      <4>1. m \in 0..n /\ h[m] = g[m]
        BY <3>2
      <4>2. m >= 2 => (m + 1) \div 2 \in 0..n /\ (m + 1) \div 2 # n + 1
        BY <4>1, Half
      <4>3. m >= 2 => h[(m + 1) \div 2] = g[(m + 1) \div 2]
        BY <4>2
      <4> QED BY <4>1, <4>3, <2>1 DEF UpTo
    <3> QED BY <3>1, <3>2
  <2>6. UpTo(n + 1, h)
    BY <2>4, <2>5 DEF UpTo
  <2> QED BY <2>6
<1>3. \A n \in Nat : n \in S
  <2> HIDE DEF S
  <2> QED BY <1>1, <1>2, NatInduct
<1> QED BY <1>3

LEMMA DoubledIs ==
  Doubled = [n \in Nat |-> IF n <= 1 THEN n ELSE 2 * Doubled[(n + 1) \div 2]]
<1> DEFINE G(n) == CHOOSE g : UpTo(n, g)
           F == [n \in Nat |-> G(n)[n]]
<1>1. \A n \in Nat : UpTo(n, G(n))
  BY UpToExists
<1>2. ASSUME NEW n \in Nat
      PROVE  F[n] = IF n <= 1 THEN n ELSE 2 * F[(n + 1) \div 2]
  <2> DEFINE q == (n + 1) \div 2
  <2>1. UpTo(n, G(n))
    BY <1>1
  <2> HIDE DEF G
  <2>2. F[n] = IF n <= 1 THEN n ELSE 2 * G(n)[q]
    BY <2>1 DEF UpTo
  <2>3. CASE n <= 1
    BY <2>2, <2>3
  <2>4. CASE n >= 2
    <3>1. q \in Nat /\ q < n
      BY <2>4, Half
    <3>2. UpTo(q, G(q))
      BY <3>1, <1>1
    <3> HIDE DEF q
    <3>3. G(n)[q] = G(q)[q]
      BY <3>1, <3>2, <2>1, UpToUnique
    <3>4. F[q] = G(q)[q]
      BY <3>1
    <3> QED BY <2>2, <2>4, <3>3, <3>4 DEF q
  <2> QED BY <2>3, <2>4
<1>3. F = [n \in Nat |-> IF n <= 1 THEN n ELSE 2 * F[(n + 1) \div 2]]
  <2> HIDE DEF G
  <2> QED BY <1>2
<1>4. \E f : f = [n \in Nat |-> IF n <= 1 THEN n ELSE 2 * f[(n + 1) \div 2]]
  <2> HIDE DEF F
  <2> QED BY <1>3
<1> QED BY <1>4 DEF Doubled

\* A vector that has grown to n elements holds them.
LEMMA DoubledHolds == \A n \in Nat : Doubled[n] \in Nat /\ Doubled[n] >= n
<1> DEFINE T == {n \in Nat : ~(Doubled[n] \in Nat /\ Doubled[n] >= n)}
<1> SUFFICES ASSUME T # {} PROVE FALSE
  OBVIOUS
<1>1. PICK n \in T : \A k \in T : n <= k
  <2>1. T \in SUBSET Nat
    OBVIOUS
  <2> QED BY <2>1, LeastNumber
<1>2. n \in Nat
  OBVIOUS
<1>3. Doubled[n] = IF n <= 1 THEN n ELSE 2 * Doubled[(n + 1) \div 2]
  BY <1>2, DoubledIs
<1>4. CASE n <= 1
  BY <1>2, <1>3, <1>4
<1>5. CASE n >= 2
  <2> DEFINE q == (n + 1) \div 2
  <2>1. q \in Nat /\ q < n /\ 2 * q >= n
    BY <1>2, <1>5, Half
  <2>2. q \notin T
    BY <1>1, <1>2, <2>1
  <2>3. Doubled[q] \in Nat /\ Doubled[q] >= q
    BY <2>1, <2>2
  <2>4. Doubled[n] = 2 * Doubled[q]
    BY <1>3, <1>5, <1>2
  <2> HIDE DEF q
  <2> QED BY <2>1, <2>3, <2>4, <1>2
<1> QED BY <1>2, <1>4, <1>5


(***************************************************************************)
(* Words and lines.                                                        *)
(***************************************************************************)
LEMMA CapitalsType ==
  ASSUME NEW w \in Seq(Words)
  PROVE  /\ IsFiniteSet({i \in DOMAIN w : w[i] # "low"})
         /\ Capitals(w) \in Nat
<1>1. DOMAIN w = 1..Len(w) /\ Len(w) \in Int
  OBVIOUS
<1>2. IsFiniteSet(1..Len(w))
  BY <1>1, FS_Interval
<1>3. {i \in DOMAIN w : w[i] # "low"} \in SUBSET (1..Len(w))
  BY <1>1
<1>4. IsFiniteSet({i \in DOMAIN w : w[i] # "low"})
  BY <1>2, <1>3, FS_Subset
<1> QED BY <1>4, FS_CardinalityType DEF Capitals

LEMMA CapitalsNone == Capitals(<<>>) = 0
<1>1. {i \in DOMAIN <<>> : <<>>[i] # "low"} = {}
  OBVIOUS
<1> QED BY <1>1, FS_EmptySet DEF Capitals

LEMMA CapitalsGrow ==
  ASSUME NEW w \in Seq(Words), NEW u \in Seq(Words)
  PROVE  Capitals(w) <= Capitals(w \o u)
<1> DEFINE A == {i \in DOMAIN w : w[i] # "low"}
           B == {i \in DOMAIN (w \o u) : (w \o u)[i] # "low"}
<1>1. w \o u \in Seq(Words)
  OBVIOUS
<1>2. IsFiniteSet(B)
  BY <1>1, CapitalsType
<1>3. A \in SUBSET B
  OBVIOUS
<1> HIDE DEF A, B
<1>4. Cardinality(A) <= Cardinality(B)
  BY <1>2, <1>3, FS_Subset
<1> QED BY <1>4 DEF Capitals, A, B

\* What the allocator does to words with capitals does not change how many there are.
LEMMA CapitalsSpoilt ==
  ASSUME NEW w \in Seq(Words), NEW G \in SUBSET {i \in DOMAIN w : w[i] = "Cap"}, NEW v,
         v = [i \in DOMAIN w |-> IF i \in G THEN "garbage" ELSE w[i]]
  PROVE  /\ v \in Seq(Words) /\ Len(v) = Len(w)
         /\ Capitals(v) = Capitals(w)
         /\ "garbage" \in ToSet(v) => G # {} \/ "garbage" \in ToSet(w)
<1>1. DOMAIN w = 1..Len(w) /\ Len(w) \in Nat /\ \A i \in 1..Len(w) : w[i] \in Words
  OBVIOUS
<1>2. v \in [1..Len(w) -> Words]
  BY <1>1 DEF Words
<1>3. v \in Seq(Words) /\ Len(v) = Len(w)
  BY <1>1, <1>2
<1>4. {i \in DOMAIN v : v[i] # "low"} = {i \in DOMAIN w : w[i] # "low"}
  OBVIOUS
<1>5. "garbage" \in ToSet(v) => G # {} \/ "garbage" \in ToSet(w)
  BY DEF ToSet
<1> QED BY <1>3, <1>4, <1>5 DEF Capitals

LEMMA LineFacts ==
  ASSUME file \in Files
  PROVE  /\ N \in Nat /\ file.ended \in BOOLEAN
         /\ \A i \in 1..N : /\ file.lines[i].terms \in Seq({"low", "Cap", "LONG"})
                            /\ file.lines[i].terms \in Seq(Words)
                            /\ file.lines[i].empty \in BOOLEAN /\ file.lines[i].more \in BOOLEAN
                            /\ file.lines[i].odd \in BOOLEAN
                            /\ file.lines[i].empty => file.lines[i].terms = <<>> /\ ~file.lines[i].more
                            /\ "garbage" \notin ToSet(file.lines[i].terms)
<1>1. file.lines \in Seq(LineSet) /\ file.ended \in BOOLEAN
  BY FilesAssumption
<1>2. N \in Nat /\ DOMAIN file.lines = 1..N
  BY <1>1 DEF N
<1>3. ASSUME NEW i \in 1..N
      PROVE  /\ file.lines[i].terms \in Seq({"low", "Cap", "LONG"})
             /\ file.lines[i].terms \in Seq(Words)
             /\ file.lines[i].empty \in BOOLEAN /\ file.lines[i].more \in BOOLEAN
             /\ file.lines[i].odd \in BOOLEAN
             /\ file.lines[i].empty => file.lines[i].terms = <<>> /\ ~file.lines[i].more
             /\ "garbage" \notin ToSet(file.lines[i].terms)
  <2>1. file.lines[i] \in LineSet
    BY <1>1, <1>2
  <2>2. /\ file.lines[i].terms \in Seq({"low", "Cap", "LONG"})
        /\ file.lines[i].empty \in BOOLEAN /\ file.lines[i].more \in BOOLEAN
        /\ file.lines[i].odd \in BOOLEAN
    BY <2>1 DEF LineSet
  <2>3. file.lines[i].empty => file.lines[i].terms = <<>> /\ ~file.lines[i].more
    BY <1>2, FilesAssumption
  <2>4. {"low", "Cap", "LONG"} \subseteq Words
    BY DEF Words
  <2> DEFINE w == file.lines[i].terms
  <2>5. w \in Seq({"low", "Cap", "LONG"})
    BY <2>2
  <2> HIDE DEF w
  <2>6. w \in Seq(Words) /\ "garbage" \notin ToSet(w)
    BY <2>4, <2>5 DEF ToSet
  <2> QED BY <2>2, <2>3, <2>6 DEF w
<1> QED BY <1>1, <1>2, <1>3


LEMMA NotedType ==
  ASSUME blocks \in Seq(BlockSet), blocks # <<>>, NEW i \in Nat
  PROVE  Noted(i) \in Seq(BlockSet) /\ Noted(i) # <<>> /\ Len(Noted(i)) = Len(blocks)
<1> DEFINE n == Len(blocks)
           b == blocks[n]
           c == [b EXCEPT !.body = Append(@, i)]
<1>1. n \in Nat /\ n \in 1..n /\ DOMAIN blocks = 1..n
  OBVIOUS
<1>2. b \in BlockSet
  BY <1>1
<1>3. c \in BlockSet
  <2>1. b.body \in Seq(Nat)
    BY <1>2 DEF BlockSet
  <2>2. Append(b.body, i) \in Seq(Nat)
    BY <2>1
  <2> QED BY <2>2, <1>2 DEF BlockSet
<1>4. [blocks EXCEPT ![n].body = Append(@, i)] = [blocks EXCEPT ![n] = c]
  OBVIOUS
<1> HIDE DEF c, b
<1>5. [blocks EXCEPT ![n] = c] \in Seq(BlockSet) /\ Len([blocks EXCEPT ![n] = c]) = n
  BY <1>1, <1>3
<1>6. Noted(i) = blocks \/ Noted(i) = [blocks EXCEPT ![n] = c]
  BY <1>4 DEF Noted
<1> QED BY <1>1, <1>5, <1>6

LEMMA RefusedType ==
  ASSUME blocks \in Seq(BlockSet), blocks # <<>>
  PROVE  LET after == [blocks EXCEPT ![Len(blocks)].ok = FALSE]
         IN  after \in Seq(BlockSet) /\ Len(after) = Len(blocks)
<1> DEFINE n == Len(blocks)
           c == [blocks[n] EXCEPT !.ok = FALSE]
<1>1. n \in Nat /\ n \in 1..n /\ DOMAIN blocks = 1..n
  OBVIOUS
<1>2. c \in BlockSet
  <2>1. blocks[n] \in BlockSet
    BY <1>1
  <2> QED BY <2>1 DEF BlockSet
<1>3. [blocks EXCEPT ![n].ok = FALSE] = [blocks EXCEPT ![n] = c]
  OBVIOUS
<1> HIDE DEF c
<1>4. [blocks EXCEPT ![n] = c] \in Seq(BlockSet) /\ Len([blocks EXCEPT ![n] = c]) = n
  BY <1>1, <1>2
<1> QED BY <1>3, <1>4

(***************************************************************************)
(* Type correctness.                                                       *)
(***************************************************************************)
LEMMA TypesFollow == IInv => TypeOK
<1> SUFFICES ASSUME IInv PROVE TypeOK
  OBVIOUS
<1>1. N \in Nat
  BY LineFacts DEF IInv, Typed
<1>2. at \in 1..(N + 1)
  BY <1>1 DEF IInv, Typed, Place
<1> QED BY <1>2 DEF IInv, Typed, Place, Held, TypeOK

LEMMA TypesBegin == Init => IInv
<1> SUFFICES ASSUME Init PROVE IInv
  OBVIOUS
<1>1. N \in Nat
  BY LineFacts DEF Init
<1>2. Typed
  <2>1. <<>> \in Seq(Words) /\ <<>> \in Seq(BlockSet)
    OBVIOUS
  <2> QED BY <2>1, FilesAssumption DEF Init, Typed
<1>3. Place
  BY <1>1 DEF Init, Place
<1>4. Held
  BY CapitalsNone DEF Init, Held, ToSet
<1> QED BY <1>2, <1>3, <1>4 DEF IInv

\* GetLineTerms begins with an empty line, and remembers the words of the last.
LEMMA BeginKeeps ==
  ASSUME IInv, NEW who \in {"id", "body"}, BeginTerms(who), capacity' = capacity
  PROVE  /\ pc' = "terms" /\ caller' = who /\ line' = <<>> /\ line' \in Seq(Words)
         /\ most' \in Nat /\ Held'
<1>1. Capitals(line) \in Nat
  BY CapitalsType DEF IInv, Typed
<1>2. pc' = "terms" /\ caller' = who /\ line' = <<>>
  BY DEF BeginTerms
<1>3. most' \in Nat /\ most' <= capacity /\ capacity \in Nat
  BY <1>1 DEF BeginTerms, IInv, Typed, Held
<1>4. Capitals(line') = 0 /\ "garbage" \notin ToSet(line')
  BY <1>2, CapitalsNone DEF ToSet
<1>5. line' \in Seq(Words)
  BY <1>2
<1> QED BY <1>2, <1>3, <1>4, <1>5 DEF Held


LEMMA OpenTypes == IInv /\ Open => IInv'
<1> SUFFICES ASSUME IInv, Open PROVE IInv'
  OBVIOUS
<1> USE DEF IInv
<1>1. Typed'
  BY DEF Open, Typed
<1>2. N' = N /\ N \in Nat
  BY LineFacts DEF Open, Typed, N
<1>3. Place'
  BY <1>2 DEF Open, Typed, Place
<1>4. Held'
  BY DEF Open, Held
<1> QED BY <1>1, <1>3, <1>4

LEMMA LoopTypes == IInv /\ Loop => IInv'
<1> SUFFICES ASSUME IInv, Loop PROVE IInv'
  OBVIOUS
<1>1. N' = N /\ N \in Nat
  BY LineFacts DEF Loop, IInv, Typed, N
<1>2. CASE pc' \in {"end", "fatal"} /\ UNCHANGED <<line, caller, most>>
  <2>1. Typed'
    BY <1>2 DEF Loop, IInv, Typed
  <2>2. Place'
    BY <1>1, <1>2 DEF Loop, IInv, Typed, Place, Eof, BeginTerms
  <2>3. Held'
    BY <1>2 DEF Loop, IInv, Held
  <2> QED BY <2>1, <2>2, <2>3 DEF IInv
<1>3. CASE BeginTerms("id")
  <2>0. capacity' = capacity
    BY DEF Loop
  <2>1. pc' = "terms" /\ caller' = "id" /\ line' \in Seq(Words) /\ most' \in Nat /\ Held'
    BY <1>3, <2>0, BeginKeeps
  <2>2. Typed'
    BY <2>1 DEF Loop, IInv, Typed
  <2>3. Place'
    BY <1>1, <2>1 DEF Loop, IInv, Typed, Place
  <2> QED BY <2>1, <2>2, <2>3 DEF IInv
<1> QED BY <1>2, <1>3 DEF Loop

LEMMA IDLineTypes == IInv /\ IDLine => IInv'
<1> SUFFICES ASSUME IInv, IDLine PROVE IInv'
  OBVIOUS
<1>1. N' = N /\ N \in Nat
  BY LineFacts DEF IDLine, IInv, Typed, N
<1>a. capacity' = capacity
  BY DEF IDLine
<1>2. errors' \in Nat
  <2>1. errors \in Nat /\ errors + 1 \in Nat
    BY DEF IInv, Typed
  <2>2. errors' = errors \/ errors' = errors + 1
    BY DEF IDLine
  <2> QED BY <2>1, <2>2
<1>3. blocks' \in Seq(BlockSet) /\ (pc' \in {"text", "terms"} => blocks' # <<>>)
  <2>1. \A ok \in BOOLEAN : [id |-> lineNo, body |-> <<>>, ok |-> ok] \in BlockSet
    BY DEF IInv, Typed, BlockSet
  <2>2. blocks \in Seq(BlockSet)
    BY DEF IInv, Typed
  <2>3. \A c \in BlockSet : Append(blocks, c) \in Seq(BlockSet) /\ Append(blocks, c) # <<>>
    BY <2>2, AppendProperties, EmptySeq
  <2> QED BY <2>1, <2>2, <2>3 DEF IDLine
<1>4. CASE pc' \in {"loop", "skip", "text"} /\ UNCHANGED <<line, caller, most>>
  <2>1. Typed'
    BY <1>2, <1>3, <1>4 DEF IDLine, IInv, Typed
  <2>2. Place'
    BY <1>1, <1>3, <1>4 DEF IDLine, IInv, Typed, Place
  <2>3. Held'
    BY <1>4 DEF IDLine, IInv, Held
  <2> QED BY <2>1, <2>2, <2>3 DEF IInv
<1>5. CASE BeginTerms("body")
  <2>1. pc' = "terms" /\ caller' = "body" /\ line' \in Seq(Words) /\ most' \in Nat /\ Held'
    BY <1>5, <1>a, BeginKeeps
  <2>2. Typed'
    BY <1>2, <1>3, <2>1 DEF IDLine, IInv, Typed
  <2>3. Place'
    BY <1>1, <1>3, <2>1 DEF IDLine, IInv, Typed, Place
  <2> QED BY <2>1, <2>2, <2>3 DEF IInv
<1> QED BY <1>4, <1>5 DEF IDLine

LEMMA ConsumeLineTypes == IInv /\ ConsumeLine => IInv'
<1> SUFFICES ASSUME IInv, ConsumeLine PROVE IInv'
  OBVIOUS
<1>1. N' = N /\ N \in Nat
  BY LineFacts DEF ConsumeLine, IInv, Typed, N
<1>a. capacity' = capacity
  BY DEF ConsumeLine
<1>2. errors' \in Nat
  BY DEF ConsumeLine, IInv, Typed
<1>3. blocks' \in Seq(BlockSet) /\ (pc' = "terms" => blocks' # <<>>)
  <2>1. blocks \in Seq(BlockSet) /\ blocks # <<>> /\ lineNo \in Nat
    BY DEF ConsumeLine, IInv, Typed, Place
  <2> QED BY <2>1, NotedType, RefusedType DEF ConsumeLine
<1>4. CASE pc' \in {"loop", "skip", "fatal"} /\ UNCHANGED <<line, caller, most>>
  <2>1. Typed'
    BY <1>2, <1>3, <1>4 DEF ConsumeLine, IInv, Typed
  <2>2. Place'
    BY <1>1, <1>3, <1>4 DEF ConsumeLine, IInv, Typed, Place
  <2>3. Held'
    BY <1>4 DEF ConsumeLine, IInv, Held
  <2> QED BY <2>1, <2>2, <2>3 DEF IInv
<1>5. CASE BeginTerms("body")
  <2>1. pc' = "terms" /\ caller' = "body" /\ line' \in Seq(Words) /\ most' \in Nat /\ Held'
    BY <1>5, <1>a, BeginKeeps
  <2>2. Typed'
    BY <1>2, <1>3, <2>1 DEF ConsumeLine, IInv, Typed
  <2>3. Place'
    BY <1>1, <1>3, <2>1 DEF ConsumeLine, IInv, Typed, Place
  <2> QED BY <2>1, <2>2, <2>3 DEF IInv
<1> QED BY <1>4, <1>5 DEF ConsumeLine

\* One line on, in GetLineTerms or in GetLine.
LEMMA AdvanceKeeps ==
  ASSUME IInv, ~Eof, pc \in {"terms", "text", "skip"}
  PROVE  /\ AfterLine \in Nat /\ AfterLine >= 1 /\ AfterLine <= N + 1
         /\ NextLineNo \in Nat /\ NextLineNo >= 1 /\ NextLineNo <= N
         /\ NextLineNo = AfterLine - 1 \/ (~file.ended /\ AfterLine = N /\ NextLineNo = N)
         /\ ~file.ended => AfterLine <= N
         /\ at \in 1..N
         /\ file.ended => at = lineNo + 1 /\ AfterLine = at + 1 /\ NextLineNo = at
<1>1. N \in Nat /\ file.ended \in BOOLEAN
  BY LineFacts DEF IInv, Typed
<1> QED BY <1>1 DEF IInv, Typed, Place, Eof, AfterLine, NextLineNo


LEMMA GetLineTypes == IInv /\ GetLine => IInv'
<1> SUFFICES ASSUME IInv, GetLine PROVE IInv'
  OBVIOUS
<1>1. N' = N /\ N \in Nat /\ Eof \in BOOLEAN
  BY LineFacts DEF GetLine, IInv, Typed, N, Eof
<1>2. blocks' \in Seq(BlockSet) /\ (pc' = "text" => blocks' # <<>>)
  <2>1. blocks \in Seq(BlockSet) /\ at \in Nat /\ (pc = "text" => blocks # <<>>)
    BY DEF IInv, Typed, Place
  <2> QED BY <2>1, NotedType DEF GetLine
<1>3. CASE Eof
  <2>1. pc' = "loop" /\ at' = at /\ lineNo' = lineNo
    BY <1>3 DEF GetLine
  <2>2. Typed'
    BY <1>2, <2>1 DEF GetLine, IInv, Typed
  <2>3. Place'
    BY <1>1, <1>2, <2>1 DEF GetLine, IInv, Typed, Place
  <2>4. Held'
    BY DEF GetLine, IInv, Held
  <2> QED BY <2>2, <2>3, <2>4 DEF IInv
<1>4. CASE ~Eof
  <2>1. at' = AfterLine /\ lineNo' = NextLineNo /\ pc' \in {"loop", "text", "skip"}
    BY <1>4 DEF GetLine
  <2>2. /\ AfterLine \in Nat /\ AfterLine >= 1 /\ AfterLine <= N + 1
        /\ NextLineNo \in Nat /\ NextLineNo >= 1 /\ NextLineNo <= N
        /\ NextLineNo = AfterLine - 1 \/ (~file.ended /\ AfterLine = N /\ NextLineNo = N)
        /\ ~file.ended => AfterLine <= N
    BY <1>4, AdvanceKeeps DEF GetLine
  <2>3. Typed'
    BY <1>2, <2>1, <2>2 DEF GetLine, IInv, Typed
  <2>4. Place'
    BY <1>1, <1>2, <2>1, <2>2 DEF GetLine, IInv, Typed, Place
  <2>5. Held'
    BY DEF GetLine, IInv, Held
  <2> QED BY <2>3, <2>4, <2>5 DEF IInv
<1> QED BY <1>1, <1>3, <1>4

\* The words of one line are added to those of the lines it continues.
LEMMA WordsKeep ==
  ASSUME IInv, NEW i \in 1..N, NEW G \in SUBSET Dangling(line \o file.lines[i].terms),
         capacity' = Grown(Capitals(line \o file.lines[i].terms)), most' = most,
         line' = [k \in DOMAIN (line \o file.lines[i].terms) |->
                    IF k \in G THEN "garbage" ELSE (line \o file.lines[i].terms)[k]]
  PROVE  /\ line' \in Seq(Words) /\ Len(line') = Len(line \o file.lines[i].terms)
         /\ capacity' \in Nat
         /\ Held'
<1> DEFINE u == file.lines[i].terms
           w == line \o u
<1>1. u \in Seq(Words) /\ "garbage" \notin ToSet(u) /\ line \in Seq(Words)
  BY LineFacts DEF IInv, Typed
<1> HIDE DEF u
<1>2. w \in Seq(Words)
  BY <1>1
<1>3. "garbage" \in ToSet(w) => "garbage" \in ToSet(line)
  BY <1>1 DEF ToSet
<1>4. Capitals(w) \in Nat /\ Capitals(line) \in Nat /\ Capitals(line) <= Capitals(w)
  BY <1>1, <1>2, CapitalsType, CapitalsGrow
<1>5. capacity \in Nat /\ most \in Nat /\ Capitals(line) <= capacity /\ most <= capacity
  BY DEF IInv, Typed, Held
<1> HIDE DEF w
<1>6. G \in SUBSET {k \in DOMAIN w : w[k] = "Cap"} /\ (G # {} => Capitals(w) > capacity)
  <2>1. G \in SUBSET Dangling(w)
    BY DEF w, u
  <2> QED BY <2>1, <1>4, <1>5 DEF Dangling
<1>7. PICK v : v = line'
  OBVIOUS
<1>8. /\ v \in Seq(Words) /\ Len(v) = Len(w) /\ Capitals(v) = Capitals(w)
      /\ "garbage" \in ToSet(v) => G # {} \/ "garbage" \in ToSet(w)
  <2>1. v = [k \in DOMAIN w |-> IF k \in G THEN "garbage" ELSE w[k]]
    BY <1>7 DEF w, u
  <2> QED BY <2>1, <1>2, <1>6, CapitalsSpoilt
<1>9. capacity' \in Nat /\ capacity' >= capacity /\ capacity' >= Capitals(w)
  <2>1. capacity' = Grown(Capitals(w))
    BY DEF w, u
  <2> QED BY <2>1, <1>4, <1>5, DoubledHolds DEF Grown
<1>10. ASSUME "garbage" \in ToSet(v)
       PROVE  Capitals(w) > most
  <2>1. CASE G # {}
    BY <2>1, <1>4, <1>5, <1>6
  <2>2. CASE "garbage" \in ToSet(line)
    <3>1. Capitals(line) > most
      BY <2>2 DEF IInv, Held
    <3> QED BY <3>1, <1>4, <1>5
  <2> QED BY <2>1, <2>2, <1>3, <1>8, <1>10
<1>11. Held'
  <2>1. Capitals(w) <= capacity' /\ most <= capacity'
    BY <1>4, <1>5, <1>9
  <2> QED BY <2>1, <1>7, <1>8, <1>10 DEF Held
<1> QED BY <1>7, <1>8, <1>9, <1>11 DEF w, u

LEMMA ReadTermsTypes == IInv /\ ReadTerms => IInv'
<1> SUFFICES ASSUME IInv, ReadTerms PROVE IInv'
  OBVIOUS
<1>1. N' = N /\ N \in Nat /\ Eof \in BOOLEAN
  BY LineFacts DEF ReadTerms, IInv, Typed, N, Eof
<1>2. pc' \in {"terms", "id", "body"} /\ result' \in BOOLEAN /\ (pc' \in {"id", "body"} => pc' = caller)
  BY DEF ReadTerms, Returns, IInv, Typed
<1>3. CASE Eof
  <2>1. at' = at /\ lineNo' = lineNo /\ line' = line /\ capacity' = capacity /\ result' = FALSE
        /\ pc' = caller
    BY <1>3 DEF ReadTerms, Returns
  <2>2. Typed'
    BY <1>2, <2>1 DEF ReadTerms, IInv, Typed
  <2>3. Place'
    BY <1>1, <2>1 DEF ReadTerms, IInv, Typed, Place
  <2>4. Held'
    BY <2>1 DEF ReadTerms, IInv, Held
  <2> QED BY <2>2, <2>3, <2>4 DEF IInv
<1>4. CASE ~Eof
  <2>1. at' = AfterLine /\ lineNo' = NextLineNo
    BY <1>4 DEF ReadTerms
  <2>2. /\ AfterLine \in Nat /\ AfterLine >= 1 /\ AfterLine <= N + 1
        /\ NextLineNo \in Nat /\ NextLineNo >= 1 /\ NextLineNo <= N
        /\ NextLineNo = AfterLine - 1 \/ (~file.ended /\ AfterLine = N /\ NextLineNo = N)
        /\ ~file.ended => AfterLine <= N
        /\ at \in 1..N
    BY <1>4, AdvanceKeeps DEF ReadTerms
  <2>3. line' \in Seq(Words) /\ capacity' \in Nat /\ Held'
    <3>1. CASE file.lines[at].empty
      <4>1. line' = line /\ capacity' = capacity
        BY <1>4, <3>1 DEF ReadTerms
      <4> QED BY <4>1 DEF ReadTerms, IInv, Typed, Held
    <3>2. CASE ~file.lines[at].empty
      <4>1. PICK G \in SUBSET Dangling(line \o file.lines[at].terms) :
              line' = [k \in DOMAIN (line \o file.lines[at].terms) |->
                         IF k \in G THEN "garbage" ELSE (line \o file.lines[at].terms)[k]]
        BY <1>4, <3>2 DEF ReadTerms
      <4>2. capacity' = Grown(Capitals(line \o file.lines[at].terms)) /\ most' = most
        BY <1>4, <3>2 DEF ReadTerms
      <4> QED BY <2>2, <4>1, <4>2, WordsKeep
    <3> QED BY <3>1, <3>2
  <2>4. Typed'
    BY <1>2, <2>1, <2>2, <2>3 DEF ReadTerms, IInv, Typed
  <2>5. Place'
    BY <1>1, <1>2, <2>1, <2>2 DEF ReadTerms, IInv, Typed, Place
  <2> QED BY <2>3, <2>4, <2>5 DEF IInv
<1> QED BY <1>1, <1>3, <1>4

LEMMA TypesStep == IInv /\ [Next]_vars => IInv'
<1> SUFFICES ASSUME IInv, [Next]_vars PROVE IInv'
  OBVIOUS
<1>1. CASE UNCHANGED vars
  BY <1>1 DEF vars, IInv, Typed, Place, Held, N
<1>2. CASE Done
  BY <1>2 DEF Done, vars, IInv, Typed, Place, Held, N
<1> QED BY <1>1, <1>2, OpenTypes, ReadTermsTypes, LoopTypes, IDLineTypes, ConsumeLineTypes, GetLineTypes
        DEF Next, Reads

\* The place in the file, the size of the vector and the words that are lost are as they should
\* be, whatever is read: a word with capitals goes only with a line that has more than any before.
THEOREM ReadingTypes == Spec => []TypeOK
<1>1. Spec => []IInv
  BY TypesBegin, TypesStep, PTL DEF Spec
<1> QED BY <1>1, TypesFollow, PTL

(***************************************************************************)
(* Blocks.  What the reader knows of the lines it has read so far, while   *)
(* every line has its newline and every + a line to join.                  *)
(***************************************************************************)
\* Line i leaves words to the line after it.
Pending(lines, i) ==
  \E j \in 1..i : lines[j].terms # <<>> /\ \A k \in j..i : lines[k].more

\* Line i is in a paragraph that has its id.
Inside(lines, i) == \E c \in 1..i : EndsLine(lines, c) /\ \A k \in c..i : ~lines[k].empty

Ids(list) == [k \in DOMAIN list |-> list[k].id]

\* The paragraphs that begin up to line u have their blocks.
Listed(lines, list, u) == InOrder(Ids(list), {i \in IDs(lines) : i <= u /\ ~lines[i].odd})

\* A block has all of its lines, or those up to line u, in the middle of the paragraph.
Filled(lines, who, b) == b.ok => InOrder(b.body, Body(lines, who, b.id))
PartlyFilled(lines, who, b, u) ==
  /\ b.ok /\ b.id >= 1 /\ b.id <= u /\ EndsLine(lines, b.id)
  /\ \A k \in b.id..u : ~lines[k].empty
  /\ InOrder(b.body, {j \in Body(lines, who, b.id) : j <= u})

\* The last block is being filled, with the lines up to Upto.
Filling == pc = "text" \/ (pc = "terms" /\ caller = "body") \/ (pc = "body" /\ result)
Upto == IF pc \in {"id", "body"} /\ result THEN lineNo - 1 ELSE lineNo

Blocks ==
  /\ Listed(file.lines, blocks, Upto)
  /\ \A k \in 1..Len(blocks) : k < Len(blocks) \/ ~Filling => Filled(file.lines, reader, blocks[k])
  /\ Filling => /\ PartlyFilled(file.lines, reader, blocks[Len(blocks)], Upto)
                /\ reader = IF pc = "text" THEN "messages" ELSE "blocks"

Between(lines, i) == i = Len(lines) \/ ~Inside(lines, i)

Read ==
  /\ pc = "open" => lineNo = 0
  /\ pc = "loop" => ~Pending(file.lines, lineNo) /\ Between(file.lines, lineNo)
  /\ pc = "terms" => (line # <<>> <=> Pending(file.lines, lineNo))
  /\ pc = "terms" /\ caller = "id" => Between(file.lines, lineNo)
  /\ pc = "id" /\ result => EndsLine(file.lines, lineNo) /\ ~Inside(file.lines, lineNo - 1)
  /\ pc = "body" /\ result => EndsLine(file.lines, lineNo)
  /\ pc \in {"id", "body"} /\ ~result =>
       ~Pending(file.lines, lineNo) /\ Between(file.lines, lineNo)
  /\ pc = "skip" => Inside(file.lines, lineNo)
  /\ pc = "end" => lineNo = Len(file.lines)

Proper == file.ended /\ ProperlyJoined(file.lines)

BInv == Proper /\ pc # "fatal" => Blocks /\ Read


LEMMA EndsLineIs ==
  ASSUME NEW lines, NEW i \in Nat, i >= 1
  PROVE  EndsLine(lines, i) <=> /\ ~lines[i].empty /\ ~lines[i].more
                                /\ lines[i].terms # <<>> \/ Pending(lines, i - 1)
<1>1. ASSUME EndsLine(lines, i), lines[i].terms = <<>>
      PROVE  Pending(lines, i - 1)
  <2>1. PICK j \in 1..i : (\A k \in j..(i - 1) : lines[k].more) /\ lines[j].terms # <<>>
    BY <1>1 DEF EndsLine, Joined
  <2>2. j \in 1..(i - 1)
    BY <2>1, <1>1
  <2> QED BY <2>1, <2>2 DEF Pending
<1>2. ASSUME Pending(lines, i - 1)
      PROVE  \E j \in Joined(lines, i) : lines[j].terms # <<>>
  <2>1. PICK j \in 1..(i - 1) : lines[j].terms # <<>> /\ \A k \in j..(i - 1) : lines[k].more
    BY <1>2 DEF Pending
  <2>2. j \in Joined(lines, i)
    BY <2>1 DEF Joined
  <2> QED BY <2>1, <2>2
<1>3. i \in Joined(lines, i)
  BY DEF Joined
<1> QED BY <1>1, <1>2, <1>3 DEF EndsLine

LEMMA PendingIs ==
  ASSUME NEW lines, NEW i \in Nat, i >= 1
  PROVE  Pending(lines, i) <=> /\ lines[i].more
                               /\ lines[i].terms # <<>> \/ Pending(lines, i - 1)
<1>1. ASSUME Pending(lines, i)
      PROVE  lines[i].more /\ (lines[i].terms # <<>> \/ Pending(lines, i - 1))
  <2>1. PICK j \in 1..i : lines[j].terms # <<>> /\ \A k \in j..i : lines[k].more
    BY <1>1 DEF Pending
  <2>2. i \in j..i
    BY <2>1
  <2>3. j = i \/ j \in 1..(i - 1)
    BY <2>1
  <2>4. \A k \in j..(i - 1) : k \in j..i
    BY <2>1
  <2> QED BY <2>1, <2>2, <2>3, <2>4 DEF Pending
<1>2. ASSUME lines[i].more, lines[i].terms # <<>>
      PROVE  Pending(lines, i)
  <2>1. i \in 1..i /\ \A k \in i..i : k = i
    OBVIOUS
  <2> QED BY <1>2, <2>1 DEF Pending
<1>3. ASSUME lines[i].more, Pending(lines, i - 1)
      PROVE  Pending(lines, i)
  <2>1. PICK j \in 1..(i - 1) : lines[j].terms # <<>> /\ \A k \in j..(i - 1) : lines[k].more
    BY <1>3 DEF Pending
  <2>2. j \in 1..i /\ \A k \in j..i : k = i \/ k \in j..(i - 1)
    BY <2>1
  <2> QED BY <1>3, <2>1, <2>2 DEF Pending
<1> QED BY <1>1, <1>2, <1>3

LEMMA InsideIs ==
  ASSUME NEW lines, NEW i \in Nat, i >= 1
  PROVE  Inside(lines, i) <=> ~lines[i].empty /\ (EndsLine(lines, i) \/ Inside(lines, i - 1))
<1>1. ASSUME Inside(lines, i)
      PROVE  ~lines[i].empty /\ (EndsLine(lines, i) \/ Inside(lines, i - 1))
  <2>1. PICK c \in 1..i : EndsLine(lines, c) /\ \A k \in c..i : ~lines[k].empty
    BY <1>1 DEF Inside
  <2>2. i \in c..i /\ (c = i \/ c \in 1..(i - 1))
    BY <2>1
  <2>3. \A k \in c..(i - 1) : k \in c..i
    BY <2>1
  <2> QED BY <2>1, <2>2, <2>3 DEF Inside
<1>2. ASSUME ~lines[i].empty, EndsLine(lines, i)
      PROVE  Inside(lines, i)
  <2>1. i \in 1..i /\ \A k \in i..i : k = i
    OBVIOUS
  <2> QED BY <1>2, <2>1 DEF Inside
<1>3. ASSUME ~lines[i].empty, Inside(lines, i - 1)
      PROVE  Inside(lines, i)
  <2>1. PICK c \in 1..(i - 1) : EndsLine(lines, c) /\ \A k \in c..(i - 1) : ~lines[k].empty
    BY <1>3 DEF Inside
  <2>2. c \in 1..i /\ \A k \in c..i : k = i \/ k \in c..(i - 1)
    BY <2>1
  <2> QED BY <1>3, <2>1, <2>2 DEF Inside
<1> QED BY <1>1, <1>2, <1>3

\* Line i is in the paragraph of an earlier line c when no line from c to i is empty.
LEMMA AfterIs ==
  ASSUME NEW lines, Len(lines) \in Nat, NEW c \in Nat, c >= 1, NEW i \in Nat, c < i, i <= Len(lines)
  PROVE  i \in After(lines, c) <=> ~lines[i].empty /\ \A k \in c..(i - 1) : ~lines[k].empty
<1>1. i \in (c + 1)..Len(lines)
  OBVIOUS
<1>2. i \in c..i /\ \A k \in c..(i - 1) : k \in c..i
  OBVIOUS
<1>3. \A k \in c..i : k = i \/ k \in c..(i - 1)
  OBVIOUS
<1> QED BY <1>1, <1>2, <1>3 DEF After

LEMMA IDsAre ==
  ASSUME NEW lines, Len(lines) \in Nat, NEW i \in Nat, i >= 1, i <= Len(lines)
  PROVE  i \in IDs(lines) <=> EndsLine(lines, i) /\ ~Inside(lines, i - 1)
<1>1. ASSUME EndsLine(lines, i), NEW j \in 1..(i - 1)
      PROVE  i \in After(lines, j) <=> \A k \in j..(i - 1) : ~lines[k].empty
  BY <1>1, AfterIs DEF EndsLine
<1>2. i \in 1..Len(lines)
  OBVIOUS
<1> QED BY <1>1, <1>2 DEF IDs, Inside

(***************************************************************************)
(* Sequences in order.                                                     *)
(***************************************************************************)
LEMMA InOrderAppend ==
  ASSUME NEW s \in Seq(Nat), NEW S, InOrder(s, S), NEW i \in Nat, \A x \in S : x < i
  PROVE  InOrder(Append(s, i), S \cup {i})
<1> DEFINE u == Append(s, i)
           n == Len(s)
<1>1. n \in Nat /\ DOMAIN s = 1..n /\ \A k \in 1..n : s[k] \in Nat
  OBVIOUS
<1>2. DOMAIN u = 1..(n + 1) /\ u[n + 1] = i /\ \A k \in 1..n : u[k] = s[k]
  OBVIOUS
<1> HIDE DEF u
<1>3. ToSet(u) = ToSet(s) \cup {i}
  <2>1. \A k \in 1..(n + 1) : k = n + 1 \/ k \in 1..n
    BY <1>1
  <2>2. \A k \in 1..n : k \in 1..(n + 1)
    BY <1>1
  <2>3. n + 1 \in 1..(n + 1)
    BY <1>1
  <2> HIDE DEF n
  <2> QED BY <2>1, <2>2, <2>3, <1>1, <1>2 DEF ToSet
<1>4. ASSUME NEW a \in DOMAIN u, NEW b \in DOMAIN u, a < b
      PROVE  u[a] < u[b]
  <2>1. a \in 1..n /\ (b \in 1..n \/ b = n + 1)
    BY <1>1, <1>2, <1>4
  <2>2. CASE b \in 1..n
    BY <2>1, <2>2, <1>1, <1>2, <1>4 DEF InOrder
  <2>3. CASE b = n + 1
    <3>1. s[a] \in S
      BY <2>1, <1>1 DEF InOrder, ToSet
    <3> QED BY <3>1, <2>1, <2>3, <1>2
  <2> QED BY <2>1, <2>2, <2>3
<1> QED BY <1>3, <1>4 DEF InOrder, u


(***************************************************************************)
(* What one line more does to the blocks.                                  *)
(***************************************************************************)
LEMMA ListedNext ==
  ASSUME NEW lines, Len(lines) \in Nat, NEW list, NEW i \in Nat, Listed(lines, list, i - 1),
         i \notin IDs(lines) \/ lines[i].odd
  PROVE  Listed(lines, list, i)
<1>1. \A x \in IDs(lines) : x \in Nat
  BY DEF IDs
<1>2. \A x \in IDs(lines) : x <= i - 1 <=> x <= i /\ x # i
  BY <1>1
<1> DEFINE A == {x \in IDs(lines) : x <= i - 1 /\ ~lines[x].odd}
           B == {x \in IDs(lines) : x <= i /\ ~lines[x].odd}
<1>3. A = B
  BY <1>2
<1>4. InOrder(Ids(list), A)
  BY DEF Listed
<1> HIDE DEF A, B
<1>5. InOrder(Ids(list), B)
  BY <1>3, <1>4
<1> QED BY <1>5 DEF Listed, B

LEMMA ListedAppend ==
  ASSUME NEW lines, Len(lines) \in Nat, NEW list \in Seq(BlockSet), NEW i \in Nat,
         Listed(lines, list, i - 1), i \in IDs(lines), ~lines[i].odd, NEW b \in BlockSet, b.id = i
  PROVE  Listed(lines, Append(list, b), i)
<1> DEFINE A == {x \in IDs(lines) : x <= i - 1 /\ ~lines[x].odd}
           B == {x \in IDs(lines) : x <= i /\ ~lines[x].odd}
           n == Len(list)
<1>1. \A x \in IDs(lines) : x \in Nat
  BY DEF IDs
<1>2. B = A \cup {i} /\ \A x \in A : x < i
  <2>1. \A x \in IDs(lines) : x <= i <=> (x <= i - 1 \/ x = i)
    BY <1>1
  <2>2. \A x \in IDs(lines) : x <= i - 1 => x < i
    BY <1>1
  <2> QED BY <2>1, <2>2
<1>3. n \in Nat /\ DOMAIN list = 1..n /\ \A k \in 1..n : list[k].id \in Nat
  <2>1. n \in Nat /\ DOMAIN list = 1..n /\ \A k \in 1..n : list[k] \in BlockSet
    OBVIOUS
  <2>2. \A c \in BlockSet : c.id \in Nat
    BY DEF BlockSet
  <2> QED BY <2>1, <2>2
<1>4. Ids(list) \in Seq(Nat) /\ Len(Ids(list)) = n
  <2>1. Ids(list) \in [1..n -> Nat]
    BY <1>3 DEF Ids
  <2> QED BY <2>1, <1>3
<1>5. Ids(Append(list, b)) = Append(Ids(list), i)
  <2>1. DOMAIN Append(list, b) = 1..(n + 1) /\ Append(list, b)[n + 1] = b
    OBVIOUS
  <2>2. \A k \in 1..n : Append(list, b)[k] = list[k]
    OBVIOUS
  <2>3. DOMAIN Append(Ids(list), i) = 1..(n + 1) /\ Append(Ids(list), i)[n + 1] = i
    BY <1>4
  <2>4. \A k \in 1..n : Append(Ids(list), i)[k] = list[k].id
    BY <1>3, <1>4 DEF Ids
  <2>5. \A k \in 1..(n + 1) : k = n + 1 \/ k \in 1..n
    BY <1>3
  <2>6. Ids(Append(list, b)) = [k \in 1..(n + 1) |-> Append(list, b)[k].id]
    BY <2>1 DEF Ids
  <2>7. \A k \in 1..(n + 1) : Append(list, b)[k].id = Append(Ids(list), i)[k]
    BY <2>1, <2>2, <2>3, <2>4, <2>5
  <2>8. Append(Ids(list), i) \in Seq(Nat) /\ Len(Append(Ids(list), i)) = n + 1
    BY <1>4
  <2>9. \A k \in 1..(n + 1) : Append(Ids(list), i)[k] \in Nat
    BY <1>3, <2>3, <2>4, <2>5
  <2>10. Ids(Append(list, b)) \in Seq(Nat) /\ Len(Ids(Append(list, b))) = n + 1
    <3>1. Ids(Append(list, b)) \in [1..(n + 1) -> Nat]
      BY <2>6, <2>7, <2>9
    <3> QED BY <3>1, <1>3
  <2>11. \A k \in 1..(n + 1) : Ids(Append(list, b))[k] = Append(Ids(list), i)[k]
    BY <2>6, <2>7
  <2> QED BY <2>8, <2>10, <2>11, SeqEqual
<1>6. InOrder(Ids(list), A)
  BY DEF Listed
<1> HIDE DEF A, B
<1>7. InOrder(Append(Ids(list), i), A \cup {i})
  BY <1>2, <1>4, <1>6, InOrderAppend
<1>8. InOrder(Ids(Append(list, b)), B)
  BY <1>2, <1>5, <1>7
<1> QED BY <1>8 DEF Listed, B

\* A block that is changed keeps its id.
LEMMA ListedChange ==
  ASSUME NEW lines, NEW list \in Seq(BlockSet), NEW after \in Seq(BlockSet), NEW u,
         Listed(lines, list, u), Len(after) = Len(list),
         \A k \in 1..Len(list) : after[k].id = list[k].id
  PROVE  Listed(lines, after, u)
<1>1. DOMAIN list = 1..Len(list) /\ DOMAIN after = 1..Len(list)
  OBVIOUS
<1>2. Ids(after) = Ids(list)
  BY <1>1 DEF Ids
<1> QED BY <1>2 DEF Listed

\* At the end of its paragraph a block is filled.
LEMMA FilledAtEnd ==
  ASSUME NEW lines, Len(lines) \in Nat, NEW who, NEW b \in BlockSet, NEW u \in Nat,
         PartlyFilled(lines, who, b, u), u >= Len(lines) \/ lines[u + 1].empty
  PROVE  Filled(lines, who, b)
<1>1. b.id \in Nat /\ b.id <= u
  BY DEF PartlyFilled, BlockSet
<1>2. \A j \in After(lines, b.id) : j <= u
  <2> SUFFICES ASSUME NEW j \in After(lines, b.id), j > u PROVE FALSE
    BY <1>1 DEF After
  <2>1. j \in Nat /\ j <= Len(lines) /\ \A k \in b.id..j : ~lines[k].empty
    BY <1>1 DEF After
  <2>2. u + 1 \in b.id..j
    BY <1>1, <2>1
  <2> QED BY <2>1, <2>2
<1>3. Body(lines, who, b.id) \subseteq After(lines, b.id)
  BY DEF Body
<1>4. {j \in Body(lines, who, b.id) : j <= u} = Body(lines, who, b.id)
  BY <1>2, <1>3
<1> QED BY <1>4 DEF PartlyFilled, Filled

LEMMA FillNothing ==
  ASSUME NEW lines, Len(lines) \in Nat, NEW b \in BlockSet, NEW i \in Nat, i <= Len(lines),
         PartlyFilled(lines, "blocks", b, i - 1), ~lines[i].empty, ~EndsLine(lines, i)
  PROVE  PartlyFilled(lines, "blocks", b, i)
<1>1. b.id \in Nat /\ b.id <= i - 1
  BY DEF PartlyFilled, BlockSet
<1> DEFINE S == Body(lines, "blocks", b.id)
<1>2. i \notin S /\ \A j \in S : j \in Nat
  BY <1>1 DEF Body, After
<1>3. {j \in S : j <= i} = {j \in S : j <= i - 1}
  BY <1>2
<1>4. \A k \in b.id..i : k = i \/ k \in b.id..(i - 1)
  BY <1>1
<1>5. \A k \in b.id..i : ~lines[k].empty
  BY <1>4 DEF PartlyFilled
<1> HIDE DEF S
<1>6. InOrder(b.body, {j \in S : j <= i})
  BY <1>3 DEF PartlyFilled, S
<1>7. b.ok /\ b.id >= 1 /\ b.id <= i /\ EndsLine(lines, b.id)
  BY <1>1 DEF PartlyFilled
<1> QED BY <1>5, <1>6, <1>7 DEF PartlyFilled, S

LEMMA FillOne ==
  ASSUME NEW lines, Len(lines) \in Nat, NEW who, NEW b \in BlockSet, NEW i \in Nat, i <= Len(lines),
         PartlyFilled(lines, who, b, i - 1), ~lines[i].empty, who = "messages" \/ EndsLine(lines, i)
  PROVE  /\ \A k \in DOMAIN b.body : b.body[k] # i
         /\ \A c \in BlockSet : c.id = b.id /\ c.ok = b.ok /\ c.body = Append(b.body, i)
              => PartlyFilled(lines, who, c, i)
<1> DEFINE S == Body(lines, who, b.id)
<1>1. b.id \in Nat /\ b.id <= i - 1 /\ b.id >= 1 /\ b.body \in Seq(Nat)
  BY DEF PartlyFilled, BlockSet
<1>3. \A k \in b.id..(i - 1) : ~lines[k].empty
  BY DEF PartlyFilled
<1>4. i \in S /\ \A j \in S : j \in Nat
  <2>1. i \in After(lines, b.id)
    BY <1>1, <1>3, AfterIs
  <2> QED BY <2>1, <1>1 DEF Body, After
<1>5. {j \in S : j <= i} = {j \in S : j <= i - 1} \cup {i}
  <2>1. \A j \in S : j <= i <=> (j <= i - 1 \/ j = i)
    BY <1>4
  <2>2. i \in S
    BY <1>4
  <2> HIDE DEF S
  <2> QED BY <2>1, <2>2
<1>6. \A k \in b.id..i : ~lines[k].empty
  <2>1. \A k \in b.id..i : k = i \/ k \in b.id..(i - 1)
    BY <1>1
  <2> QED BY <2>1, <1>3
<1>7. InOrder(b.body, {j \in S : j <= i - 1})
  BY DEF PartlyFilled
<1>8. \A j \in {j \in S : j <= i - 1} : j < i
  BY <1>4
<1> HIDE DEF S
<1>9. InOrder(Append(b.body, i), {j \in S : j <= i})
  BY <1>1, <1>5, <1>7, <1>8, InOrderAppend
<1>10. \A k \in DOMAIN b.body : b.body[k] # i
  <2>1. \A k \in DOMAIN b.body : b.body[k] \in {j \in S : j <= i - 1}
    BY <1>7 DEF InOrder, ToSet
  <2> QED BY <2>1, <1>8
<1>11. ASSUME NEW c \in BlockSet, c.id = b.id, c.ok = b.ok, c.body = Append(b.body, i)
       PROVE  PartlyFilled(lines, who, c, i)
  <2>1. c.ok /\ c.id >= 1 /\ c.id <= i /\ EndsLine(lines, c.id)
    BY <1>1, <1>11 DEF PartlyFilled
  <2>2. InOrder(c.body, {j \in Body(lines, who, c.id) : j <= i})
    BY <1>9, <1>11 DEF S
  <2>3. \A k \in c.id..i : ~lines[k].empty
    BY <1>6, <1>11
  <2> QED BY <2>1, <2>2, <2>3 DEF PartlyFilled
<1> QED BY <1>10, <1>11

\* A block begins without lines.
LEMMA FillNew ==
  ASSUME NEW lines, NEW who, NEW i \in Nat, i >= 1, EndsLine(lines, i)
  PROVE  PartlyFilled(lines, who, [id |-> i, body |-> <<>>, ok |-> TRUE], i)
<1> DEFINE b == [id |-> i, body |-> <<>>, ok |-> TRUE]
<1>1. {j \in Body(lines, who, i) : j <= i} = {}
  BY DEF Body, After
<1>2. InOrder(<<>>, {})
  BY DEF InOrder, ToSet
<1>3. \A k \in i..i : ~lines[k].empty
  <2>1. \A k \in i..i : k = i
    OBVIOUS
  <2> QED BY <2>1 DEF EndsLine
<1>4. b.id = i /\ b.body = <<>> /\ b.ok
  OBVIOUS
<1> HIDE DEF b
<1>5. PartlyFilled(lines, who, b, i)
  <2>1. b.ok /\ b.id >= 1 /\ b.id <= i /\ EndsLine(lines, b.id)
    BY <1>4
  <2>2. InOrder(b.body, {j \in Body(lines, who, b.id) : j <= i})
    BY <1>1, <1>2, <1>4
  <2>3. \A k \in b.id..i : ~lines[k].empty
    BY <1>3, <1>4
  <2> QED BY <2>1, <2>2, <2>3 DEF PartlyFilled
<1> QED BY <1>5 DEF b


(***************************************************************************)
(* Every step keeps the blocks as they are written.                        *)
(***************************************************************************)
LEMMA BlocksBegin == Init => BInv
<1> SUFFICES ASSUME Init PROVE Blocks /\ Read
  BY DEF BInv
<1>1. pc = "open" /\ blocks = <<>> /\ lineNo = 0 /\ Upto = 0 /\ ~Filling
  BY DEF Init, Upto, Filling
<1>2. Listed(file.lines, blocks, Upto)
  <2>1. {i \in IDs(file.lines) : i <= 0 /\ ~file.lines[i].odd} = {}
    BY DEF IDs
  <2>2. Ids(<<>>) = <<>>
    BY DEF Ids
  <2>3. InOrder(<<>>, {})
    BY DEF InOrder, ToSet
  <2> QED BY <1>1, <2>1, <2>2, <2>3 DEF Listed
<1>3. Blocks
  BY <1>1, <1>2 DEF Blocks
<1> QED BY <1>1, <1>3 DEF Read

\* What the two invariants say of a file with all its newlines that is still being read.
LEMMA InProper ==
  ASSUME IInv, BInv, Proper, pc # "fatal"
  PROVE  /\ Blocks /\ Read /\ file.ended /\ ProperlyJoined(file.lines)
         /\ Len(file.lines) \in Nat /\ N = Len(file.lines)
         /\ lineNo \in Nat /\ lineNo <= Len(file.lines) /\ lineNo = at - 1
         /\ blocks \in Seq(BlockSet) /\ Len(blocks) \in Nat
BY LineFacts DEF IInv, Typed, Place, BInv, Proper, N

LEMMA OpenBlocks == IInv /\ BInv /\ Open => BInv'
<1> SUFFICES ASSUME IInv, BInv, Open, Proper', pc' # "fatal" PROVE Blocks' /\ Read'
  BY DEF BInv
<1>1. Proper /\ pc = "open" /\ pc' = "loop" /\ UNCHANGED <<file, reader, lineNo, blocks>>
  BY DEF Open, Proper
<1>2. Blocks /\ Read
  BY <1>1, InProper
<1>3. Upto' = Upto /\ ~Filling' /\ ~Filling
  BY <1>1 DEF Upto, Filling
<1>4. Blocks'
  BY <1>1, <1>2, <1>3 DEF Blocks
<1>5. ~Pending(file.lines, 0) /\ ~Inside(file.lines, 0)
  BY DEF Pending, Inside
<1> QED BY <1>1, <1>2, <1>4, <1>5 DEF Read, Between

LEMMA LoopBlocks == IInv /\ BInv /\ Loop => BInv'
<1> SUFFICES ASSUME IInv, BInv, Loop, Proper', pc' # "fatal" PROVE Blocks' /\ Read'
  BY DEF BInv
<1>1. Proper /\ pc = "loop" /\ UNCHANGED <<file, reader, lineNo, blocks>>
  BY DEF Loop, Proper
<1>2. Blocks /\ Read /\ lineNo = at - 1 /\ lineNo \in Nat /\ N = Len(file.lines) /\ N \in Nat
      /\ lineNo <= Len(file.lines)
  BY <1>1, InProper
<1>3. \/ Eof /\ pc' = "end"
      \/ pc' = "terms" /\ caller' = "id" /\ line' = <<>>
  BY DEF Loop, BeginTerms
<1>4. Upto' = Upto /\ ~Filling' /\ ~Filling
  BY <1>1, <1>3 DEF Upto, Filling
<1>5. Blocks'
  BY <1>1, <1>2, <1>4 DEF Blocks
<1>6. CASE Eof /\ pc' = "end"
  <2>1. lineNo = Len(file.lines)
    BY <1>2, <1>6 DEF Eof, IInv, Typed
  <2> QED BY <1>1, <1>5, <1>6, <2>1 DEF Read
<1>7. CASE pc' = "terms" /\ caller' = "id" /\ line' = <<>>
  <2>1. ~Pending(file.lines, lineNo) /\ Between(file.lines, lineNo)
    BY <1>1, <1>2 DEF Read
  <2> QED BY <1>1, <1>5, <1>7, <2>1 DEF Read
<1> QED BY <1>3, <1>6, <1>7

\* An id that is right begins a block; a wrong one is the end of its paragraph.
LEMMA IDLineBlocks == IInv /\ BInv /\ IDLine => BInv'
<1> SUFFICES ASSUME IInv, BInv, IDLine, Proper', pc' # "fatal" PROVE Blocks' /\ Read'
  BY DEF BInv
<1>1. Proper /\ pc = "id" /\ UNCHANGED <<file, reader, lineNo, result>>
  BY DEF IDLine, Proper
<1> DEFINE lines == file.lines
<1>2. /\ Blocks /\ Read /\ lineNo \in Nat /\ Len(lines) \in Nat /\ lineNo <= Len(lines)
      /\ blocks \in Seq(BlockSet) /\ Len(blocks) \in Nat
  BY <1>1, InProper
<1>3. ~Filling
  BY <1>1 DEF Filling
<1>4. CASE ~result
  <2>1. pc' = "loop" /\ blocks' = blocks
    BY <1>4 DEF IDLine
  <2>2. Upto' = Upto /\ ~Filling'
    BY <1>1, <1>4, <2>1 DEF Upto, Filling
  <2>3. Blocks'
    BY <1>1, <1>2, <1>3, <2>1, <2>2 DEF Blocks
  <2>4. ~Pending(lines, lineNo) /\ Between(lines, lineNo)
    BY <1>1, <1>2, <1>4 DEF Read
  <2> QED BY <1>1, <2>1, <2>3, <2>4 DEF Read
<1>5. CASE result
  <2>1. /\ lineNo >= 1 /\ EndsLine(lines, lineNo) /\ ~Inside(lines, lineNo - 1)
    BY <1>1, <1>2, <1>5 DEF Read, IInv, Place
  <2>2. lineNo \in IDs(lines) /\ Inside(lines, lineNo) /\ ~Pending(lines, lineNo)
    BY <1>2, <2>1, IDsAre, InsideIs, PendingIs DEF EndsLine
  <2>3. Upto = lineNo - 1 /\ Listed(lines, blocks, lineNo - 1)
    BY <1>1, <1>2, <1>5 DEF Upto, Blocks
  <2>4. \A k \in 1..Len(blocks) : Filled(lines, reader, blocks[k])
    BY <1>2, <1>3 DEF Blocks
  <2>5. pc' \in {"skip", "text", "terms"}
    BY <1>5 DEF IDLine, BeginTerms
  <2>6. Upto' = lineNo
    BY <1>1, <2>5 DEF Upto
  <2>7. CASE lines[lineNo].odd
    <3>1. pc' = "skip" /\ blocks' = blocks
      BY <1>5, <2>7 DEF IDLine
    <3>2. Listed(lines, blocks, lineNo) /\ ~Filling'
      BY <1>2, <2>3, <2>7, <3>1, ListedNext DEF Filling
    <3>3. Blocks'
      BY <1>1, <2>4, <2>6, <3>1, <3>2 DEF Blocks
    <3> QED BY <1>1, <2>2, <3>1, <3>3 DEF Read
  <2>8. CASE ~lines[lineNo].odd
    <3>1. PICK ok \in BOOLEAN :
            /\ blocks' = Append(blocks, [id |-> lineNo, body |-> <<>>, ok |-> ok])
            /\ CASE ~ok -> pc' = "skip"
                 [] ok /\ reader = "messages" -> pc' = "text"
                 [] OTHER -> pc' = "terms" /\ caller' = "body" /\ line' = <<>>
      BY <1>5, <2>8 DEF IDLine, BeginTerms
    <3> DEFINE b == [id |-> lineNo, body |-> <<>>, ok |-> ok]
    <3>2. b \in BlockSet /\ b.id = lineNo /\ b.ok = ok
      BY <1>2 DEF BlockSet
    <3>3. blocks' = Append(blocks, b)
      BY <3>1
    <3>4. ok => PartlyFilled(lines, reader, b, lineNo)
      BY <1>2, <2>1, FillNew
    <3> HIDE DEF b
    <3>5. Listed(lines, blocks', lineNo)
      BY <1>2, <2>2, <2>3, <2>8, <3>2, <3>3, ListedAppend
    <3>6. Len(blocks') = Len(blocks) + 1 /\ blocks'[Len(blocks) + 1] = b
          /\ \A k \in 1..Len(blocks) : blocks'[k] = blocks[k]
      BY <1>2, <3>2, <3>3
    <3>7. Filling' <=> ok
      BY <3>1 DEF Filling
    <3>8. \A k \in 1..Len(blocks') : k < Len(blocks') \/ ~Filling' => Filled(lines, reader, blocks'[k])
      <4>1. \A k \in 1..Len(blocks') : k \in 1..Len(blocks) \/ k = Len(blocks) + 1
        BY <1>2, <3>6
      <4>2. ~ok => Filled(lines, reader, b)
        BY <3>2 DEF Filled
      <4> QED BY <1>2, <2>4, <3>6, <3>7, <4>1, <4>2
    <3>9. Filling' => reader = IF pc' = "text" THEN "messages" ELSE "blocks"
      BY <3>1, <3>7 DEF IInv, Typed, Readers
    <3>10. Blocks'
      BY <1>1, <2>6, <3>4, <3>5, <3>6, <3>7, <3>8, <3>9 DEF Blocks
    <3>11. Read'
      BY <1>1, <2>2, <3>1 DEF Read
    <3> QED BY <3>10, <3>11
  <2> QED BY <2>7, <2>8
<1> QED BY <1>4, <1>5


LEMMA PartlyInside ==
  ASSUME NEW lines, NEW who, NEW b \in BlockSet, NEW u \in Nat, PartlyFilled(lines, who, b, u)
  PROVE  Inside(lines, u)
<1>1. b.id \in 1..u
  BY DEF BlockSet, PartlyFilled
<1> QED BY <1>1 DEF PartlyFilled, Inside

\* A line is noted in the block that is being filled.
LEMMA NoteKeeps ==
  ASSUME NEW lines, Len(lines) \in Nat, NEW who, NEW list \in Seq(BlockSet), NEW i \in Nat,
         Len(list) >= 1, i >= 1, i <= Len(lines),
         Listed(lines, list, i - 1), PartlyFilled(lines, who, list[Len(list)], i - 1),
         \A k \in 1..Len(list) : k < Len(list) => Filled(lines, who, list[k]),
         ~lines[i].empty, who = "messages" \/ EndsLine(lines, i),
         NEW after \in Seq(BlockSet), Len(after) = Len(list),
         \A k \in 1..Len(list) : k < Len(list) => after[k] = list[k],
         after[Len(list)].id = list[Len(list)].id, after[Len(list)].ok = list[Len(list)].ok,
         after[Len(list)].body = Append(list[Len(list)].body, i)
  PROVE  /\ Listed(lines, after, i)
         /\ PartlyFilled(lines, who, after[Len(after)], i)
         /\ \A k \in 1..Len(after) : k < Len(after) => Filled(lines, who, after[k])
<1> DEFINE n == Len(list)
           b == list[n]
           c == after[n]
<1>1. n \in Nat /\ n \in 1..n /\ b \in BlockSet /\ c \in BlockSet
  OBVIOUS
<1>3. PartlyFilled(lines, who, c, i)
  <2>1. c.id = b.id /\ c.ok = b.ok /\ c.body = Append(b.body, i)
    OBVIOUS
  <2> HIDE DEF b, c
  <2>2. PartlyFilled(lines, who, b, i - 1)
    BY DEF b
  <2> QED BY <1>1, <2>1, <2>2, FillOne
<1>4. Inside(lines, i - 1)
  BY <1>1, PartlyInside
<1>5. Listed(lines, list, i)
  BY <1>4, IDsAre, ListedNext
<1>6. \A k \in 1..n : after[k].id = list[k].id
  <2>1. \A k \in 1..n : k < n \/ k = n
    BY <1>1
  <2> QED BY <2>1
<1>7. Listed(lines, after, i)
  BY <1>5, <1>6, ListedChange
<1>8. \A k \in 1..n : k < n => Filled(lines, who, after[k])
  OBVIOUS
<1> QED BY <1>3, <1>7, <1>8

LEMMA NotedIs ==
  ASSUME NEW i \in Nat, Len(blocks) >= 1, blocks \in Seq(BlockSet),
         \A k \in DOMAIN blocks[Len(blocks)].body : blocks[Len(blocks)].body[k] # i
  PROVE  \E after \in Seq(BlockSet) :
           /\ after = Noted(i) /\ Len(after) = Len(blocks)
           /\ \A k \in 1..Len(blocks) : k < Len(blocks) => after[k] = blocks[k]
           /\ after[Len(blocks)].id = blocks[Len(blocks)].id
           /\ after[Len(blocks)].ok = blocks[Len(blocks)].ok
           /\ after[Len(blocks)].body = Append(blocks[Len(blocks)].body, i)
<1> DEFINE n == Len(blocks)
           b == blocks[n]
           c == [b EXCEPT !.body = Append(@, i)]
           after == [blocks EXCEPT ![n] = c]
<1>1. n \in Nat /\ n \in 1..n /\ DOMAIN blocks = 1..n /\ b \in BlockSet /\ blocks # <<>>
  OBVIOUS
<1>2. b.body \in Seq(Nat)
  BY <1>1 DEF BlockSet
<1>3. b.body # <<>> => Len(b.body) \in DOMAIN b.body
  BY <1>2
<1>4. Noted(i) = after
  BY <1>3 DEF Noted, Last
<1>5. c \in BlockSet /\ c.id = b.id /\ c.ok = b.ok /\ c.body = Append(b.body, i)
  <2>1. Append(b.body, i) \in Seq(Nat)
    BY <1>2
  <2> QED BY <2>1, <1>1 DEF BlockSet
<1> HIDE DEF c
<1>6. after \in Seq(BlockSet) /\ Len(after) = n /\ after[n] = c
      /\ \A k \in 1..n : k < n => after[k] = blocks[k]
  <2>1. after[n] = c /\ \A k \in 1..n : k # n => after[k] = blocks[k]
    BY <1>1
  <2>3. Len(after) = n
    BY <1>1
  <2>2. after \in Seq(BlockSet)
    BY <1>1, <1>5
  <2> HIDE DEF after
  <2> QED BY <2>1, <2>2, <2>3, <1>1
<1> HIDE DEF after
<1> QED BY <1>4, <1>5, <1>6

LEMMA ConsumeLineBlocks == IInv /\ BInv /\ ConsumeLine => BInv'
<1> SUFFICES ASSUME IInv, BInv, ConsumeLine, Proper', pc' # "fatal" PROVE Blocks' /\ Read'
  BY DEF BInv
<1>1. Proper /\ pc = "body" /\ UNCHANGED <<file, reader, lineNo, result>>
  BY DEF ConsumeLine, Proper
<1> DEFINE lines == file.lines
           n == Len(blocks)
<1>2. /\ Blocks /\ Read /\ lineNo \in Nat /\ Len(lines) \in Nat /\ lineNo <= Len(lines)
      /\ blocks \in Seq(BlockSet) /\ n \in Nat /\ blocks # <<>>
  BY <1>1, InProper DEF IInv, Place
<1>3. CASE ~result
  <2>1. pc' = "loop" /\ blocks' = blocks
    BY <1>3 DEF ConsumeLine
  <2>2. Upto' = Upto /\ ~Filling' /\ ~Filling
    BY <1>1, <1>3, <2>1 DEF Upto, Filling
  <2>3. Blocks'
    BY <1>1, <1>2, <2>1, <2>2 DEF Blocks
  <2>4. ~Pending(lines, lineNo) /\ Between(lines, lineNo)
    BY <1>1, <1>2, <1>3 DEF Read
  <2> QED BY <1>1, <2>1, <2>3, <2>4 DEF Read
<1>4. CASE result
  <2>1. lineNo >= 1 /\ EndsLine(lines, lineNo) /\ Filling /\ Upto = lineNo - 1
    BY <1>1, <1>2, <1>4 DEF Read, IInv, Place, Filling, Upto
  <2>2. /\ Listed(lines, blocks, lineNo - 1)
        /\ \A k \in 1..n : k < n => Filled(lines, reader, blocks[k])
        /\ PartlyFilled(lines, reader, blocks[n], lineNo - 1) /\ reader = "blocks"
    BY <1>1, <1>2, <2>1 DEF Blocks
  <2>3. blocks[n] \in BlockSet /\ n \in 1..n
    BY <1>2
  <2>4. ~lines[lineNo].empty /\ ~Pending(lines, lineNo)
    BY <1>2, <2>1, PendingIs DEF EndsLine
  <2>5. Inside(lines, lineNo) /\ lineNo \notin IDs(lines)
    <3>1. Inside(lines, lineNo - 1)
      BY <1>2, <2>1, <2>2, <2>3, PartlyInside
    <3> QED BY <1>2, <2>1, <2>4, <3>1, InsideIs, IDsAre
  <2>6. CASE BeginTerms("body") /\ blocks' = Noted(lineNo)
    <3>1. pc' = "terms" /\ caller' = "body" /\ line' = <<>>
      BY <2>6 DEF BeginTerms
    <3>2. Filling' /\ Upto' = lineNo
      BY <1>1, <3>1 DEF Filling, Upto
    <3>3. \A k \in DOMAIN blocks[n].body : blocks[n].body[k] # lineNo
      BY <1>2, <2>1, <2>2, <2>3, <2>4, FillOne
    <3>4. PICK after \in Seq(BlockSet) :
            /\ after = blocks' /\ Len(after) = n
            /\ \A k \in 1..n : k < n => after[k] = blocks[k]
            /\ after[n].id = blocks[n].id /\ after[n].ok = blocks[n].ok
            /\ after[n].body = Append(blocks[n].body, lineNo)
      BY <1>2, <2>6, <3>3, NotedIs
    <3>5. /\ Len(after) = n
          /\ Listed(lines, after, lineNo) /\ PartlyFilled(lines, reader, after[Len(after)], lineNo)
          /\ \A k \in 1..Len(after) : k < Len(after) => Filled(lines, reader, after[k])
      <4>1. n >= 1 /\ lineNo \in Nat /\ lineNo <= Len(lines) /\ Len(lines) \in Nat
        BY <1>2
      <4> HIDE DEF lines
      <4> QED BY <1>2, <2>1, <2>2, <2>4, <3>4, <4>1, NoteKeeps
    <3>6. Blocks'
      BY <1>1, <2>2, <3>1, <3>2, <3>4, <3>5 DEF Blocks
    <3>7. Read'
      BY <1>1, <2>4, <3>1 DEF Read
    <3> QED BY <3>6, <3>7
  <2>7. CASE pc' = "skip" /\ blocks' = [blocks EXCEPT ![n].ok = FALSE]
    <3>1. ~Filling' /\ Upto' = lineNo
      BY <1>1, <2>7 DEF Filling, Upto
    <3> DEFINE c == [blocks[n] EXCEPT !.ok = FALSE]
    <3>2. blocks' = [blocks EXCEPT ![n] = c]
      BY <2>7
    <3>3. c \in BlockSet /\ c.id = blocks[n].id /\ ~c.ok
      BY <2>3 DEF BlockSet
    <3> HIDE DEF c
    <3>4. Len(blocks') = n /\ \A k \in 1..n : blocks'[k] = IF k = n THEN c ELSE blocks[k]
      BY <1>2, <3>2, <3>3
    <3>5. Listed(lines, blocks, lineNo)
      BY <1>2, <2>2, <2>5, ListedNext
    <3>6. Listed(lines, blocks', lineNo)
      <4>1. PICK after : after = blocks'
        OBVIOUS
      <4>2. after \in Seq(BlockSet) /\ Len(after) = n
        BY <1>2, <2>7, <4>1, RefusedType
      <4>3. \A k \in 1..n : after[k].id = blocks[k].id
        BY <3>3, <3>4, <4>1
      <4> QED BY <1>2, <3>5, <4>1, <4>2, <4>3, ListedChange
    <3>7. \A k \in 1..n : Filled(lines, reader, blocks'[k])
      <4>1. Filled(lines, reader, c)
        BY <3>3 DEF Filled
      <4> QED BY <1>2, <2>2, <3>4, <4>1
    <3>8. Blocks'
      BY <1>1, <3>1, <3>4, <3>6, <3>7 DEF Blocks
    <3>9. Read'
      BY <1>1, <2>5, <2>7 DEF Read
    <3> QED BY <3>8, <3>9
  <2> QED BY <1>4, <2>6, <2>7 DEF ConsumeLine
<1> QED BY <1>3, <1>4


\* The end of the file, or an empty line, is the end of the block that is being filled, and no
\* line before it is joined to what comes after.
LEMMA ParagraphEnds ==
  ASSUME IInv, BInv, Proper, pc \in {"text", "skip", "terms"}, NEW u \in Nat,
         \/ Eof /\ u = lineNo
         \/ ~Eof /\ u = at /\ file.lines[at].empty
  PROVE  /\ Listed(file.lines, blocks, u)
         /\ \A k \in 1..Len(blocks) : Filled(file.lines, reader, blocks[k])
         /\ ~Pending(file.lines, u) /\ Between(file.lines, u)
<1> DEFINE lines == file.lines
           n == Len(blocks)
<1>1. /\ Blocks /\ Read /\ lineNo \in Nat /\ Len(lines) \in Nat /\ lineNo <= Len(lines)
      /\ blocks \in Seq(BlockSet) /\ n \in Nat /\ lineNo = at - 1 /\ N = Len(lines)
      /\ ProperlyJoined(lines) /\ N >= 1 /\ at \in Nat
  BY InProper DEF IInv, Typed, Place
<1>2. Upto = lineNo /\ Listed(lines, blocks, lineNo)
  BY <1>1 DEF Upto, Blocks
<1>3. ASSUME Filling
      PROVE  /\ n \in 1..n /\ blocks[n] \in BlockSet
             /\ PartlyFilled(lines, reader, blocks[n], lineNo)
  <2>1. blocks # <<>>
    BY <1>3 DEF Filling, IInv, Place
  <2> QED BY <1>1, <1>2, <1>3, <2>1 DEF Blocks
<1>4. ASSUME lineNo >= Len(lines) \/ lines[lineNo + 1].empty
      PROVE  \A k \in 1..n : Filled(lines, reader, blocks[k])
  <2>1. CASE Filling
    <3>1. Filled(lines, reader, blocks[n])
      BY <1>1, <1>3, <1>4, <2>1, FilledAtEnd
    <3> QED BY <1>1, <3>1 DEF Blocks
  <2>2. CASE ~Filling
    BY <1>1, <2>2 DEF Blocks
  <2> QED BY <2>1, <2>2
<1>5. CASE Eof /\ u = lineNo
  <2>1. lineNo = Len(lines) /\ u \in 1..Len(lines)
    BY <1>1, <1>5 DEF Eof
  <2>2. ~lines[u].more
    BY <2>1, <1>5 DEF ProperlyJoined, InProper, Proper
  <2>3. ~Pending(lines, u)
    BY <1>1, <1>5, <2>1, <2>2, PendingIs
  <2> QED BY <1>2, <1>4, <1>5, <2>1, <2>3 DEF Between
<1>6. CASE ~Eof /\ u = at /\ file.lines[at].empty
  <2>1. at \in 1..Len(lines) /\ lineNo + 1 = at
    BY <1>1, <1>6 DEF Eof
  <2>2. ~lines[at].more
    BY <1>1, <1>6, <2>1, LineFacts DEF IInv, Typed
  <2>3. ~Pending(lines, at) /\ ~Inside(lines, at) /\ ~EndsLine(lines, at)
    BY <1>1, <1>6, <2>1, <2>2, PendingIs, InsideIs DEF EndsLine
  <2>4. at \notin IDs(lines)
    BY <1>1, <2>1, <2>3, IDsAre
  <2>5. Listed(lines, blocks, at)
    <3>1. Listed(lines, blocks, at - 1)
      BY <1>1, <1>2
    <3> QED BY <1>1, <2>4, <3>1, ListedNext
  <2> QED BY <1>4, <1>6, <2>1, <2>3, <2>5 DEF Between
<1> QED BY <1>5, <1>6

LEMMA GetLineBlocks == IInv /\ BInv /\ GetLine => BInv'
<1> SUFFICES ASSUME IInv, BInv, GetLine, Proper', pc' # "fatal" PROVE Blocks' /\ Read'
  BY DEF BInv
<1>1. Proper /\ pc \in {"text", "skip"} /\ UNCHANGED <<file, reader, result, caller, line>>
  BY DEF GetLine, Proper
<1> DEFINE lines == file.lines
           n == Len(blocks)
<1>2. /\ Blocks /\ Read /\ lineNo \in Nat /\ Len(lines) \in Nat /\ lineNo <= Len(lines)
      /\ blocks \in Seq(BlockSet) /\ n \in Nat /\ lineNo = at - 1 /\ N = Len(lines) /\ at \in Nat
      /\ file.ended
  BY <1>1, InProper DEF IInv, Typed
<1>3. ~Eof => lineNo' = at /\ at \in 1..Len(lines)
  BY <1>1, <1>2, AdvanceKeeps DEF GetLine, Eof
<1>4. CASE Eof \/ file.lines[at].empty
  <2>1. pc' = "loop" /\ blocks' = blocks /\ lineNo' = IF Eof THEN lineNo ELSE at
    BY <1>3, <1>4 DEF GetLine
  <2>2. PICK u \in Nat : u = lineNo'
    BY <1>2, <2>1
  <2>3. /\ Listed(lines, blocks, u) /\ ~Pending(lines, u) /\ Between(lines, u)
        /\ \A k \in 1..Len(blocks) : Filled(lines, reader, blocks[k])
    <3>1. (Eof /\ u = lineNo) \/ (~Eof /\ u = at /\ lines[at].empty)
      BY <1>4, <2>1, <2>2
    <3> QED BY <1>1, <3>1, ParagraphEnds
  <2>4. ~Filling' /\ Upto' = u
    BY <2>1, <2>2 DEF Filling, Upto
  <2>5. Blocks'
    BY <1>1, <2>1, <2>3, <2>4 DEF Blocks
  <2>6. Read'
    BY <1>1, <2>1, <2>2, <2>3 DEF Read
  <2> QED BY <2>5, <2>6
<1>5. CASE ~Eof /\ ~file.lines[at].empty
  <2>1. pc' = pc /\ lineNo' = at /\ at \in 1..Len(lines) /\ lineNo = at - 1
    BY <1>2, <1>3, <1>5 DEF GetLine
  <2>2. Upto = at - 1 /\ Upto' = at /\ (Filling <=> pc = "text") /\ (Filling' <=> pc = "text")
    BY <1>1, <1>2, <2>1 DEF Upto, Filling
  <2>3. Listed(lines, blocks, at - 1)
    BY <1>2, <2>2 DEF Blocks
  <2>4. CASE pc = "skip"
    <3>1. blocks' = blocks
      BY <2>4 DEF GetLine
    <3>2. Inside(lines, at - 1)
      BY <1>2, <2>1, <2>4 DEF Read
    <3>3. Inside(lines, at) /\ at \notin IDs(lines)
      BY <1>2, <1>5, <2>1, <3>2, InsideIs, IDsAre
    <3>4. Listed(lines, blocks, at)
      BY <1>2, <2>3, <3>3, ListedNext
    <3>5. Blocks'
      BY <1>1, <1>2, <2>1, <2>2, <2>4, <3>1, <3>4 DEF Blocks
    <3>6. Read'
      BY <1>1, <2>1, <2>4, <3>3 DEF Read
    <3> QED BY <3>5, <3>6
  <2>5. CASE pc = "text"
    <3>1. /\ PartlyFilled(lines, reader, blocks[n], at - 1) /\ reader = "messages"
          /\ \A k \in 1..n : k < n => Filled(lines, reader, blocks[k])
          /\ blocks # <<>>
      BY <1>2, <2>2, <2>5 DEF Blocks, IInv, Place
    <3>2. blocks[n] \in BlockSet
      BY <1>2, <3>1
    <3>3. \A k \in DOMAIN blocks[n].body : blocks[n].body[k] # at
      <4>1. at \in Nat /\ at <= Len(lines) /\ Len(lines) \in Nat /\ ~lines[at].empty
        BY <1>2, <1>5, <2>1
      <4>2. PartlyFilled(lines, "messages", blocks[n], at - 1)
        BY <3>1
      <4> HIDE DEF lines, n
      <4> QED BY <4>1, <4>2, <3>2, FillOne
    <3>4. PICK after \in Seq(BlockSet) :
            /\ after = blocks' /\ Len(after) = n
            /\ \A k \in 1..n : k < n => after[k] = blocks[k]
            /\ after[n].id = blocks[n].id /\ after[n].ok = blocks[n].ok
            /\ after[n].body = Append(blocks[n].body, at)
      <4>1. blocks' = Noted(at)
        BY <1>5, <2>1, <2>5 DEF GetLine
      <4> QED BY <1>2, <3>1, <3>3, <4>1, NotedIs
    <3>6. /\ Len(after) = n
          /\ Listed(lines, after, at) /\ PartlyFilled(lines, reader, after[Len(after)], at)
          /\ \A k \in 1..Len(after) : k < Len(after) => Filled(lines, reader, after[k])
      <4>1. n >= 1 /\ at \in Nat /\ at >= 1 /\ at <= Len(lines) /\ Len(lines) \in Nat
            /\ ~lines[at].empty
        BY <1>2, <1>5, <2>1, <3>1
      <4> HIDE DEF lines
      <4> QED BY <1>2, <2>3, <3>1, <3>4, <4>1, NoteKeeps
    <3>7. Blocks'
      BY <1>1, <2>1, <2>2, <2>5, <3>1, <3>4, <3>6 DEF Blocks
    <3>8. Read'
      BY <2>1, <2>5 DEF Read
    <3> QED BY <3>7, <3>8
  <2> QED BY <1>1, <2>4, <2>5
<1> QED BY <1>4, <1>5


\* The line that ends a GetLineTerms is one EndsLine knows, and the lines before it are comments
\* or joined to it.
LEMMA ReadTermsBlocks == IInv /\ BInv /\ ReadTerms => BInv'
<1> SUFFICES ASSUME IInv, BInv, ReadTerms, Proper', pc' # "fatal" PROVE Blocks' /\ Read'
  BY DEF BInv
<1>1. Proper /\ pc = "terms" /\ UNCHANGED <<file, reader, caller, blocks>>
  BY DEF ReadTerms, Proper
<1> DEFINE lines == file.lines
           n == Len(blocks)
<1>2. /\ Blocks /\ Read /\ lineNo \in Nat /\ Len(lines) \in Nat /\ lineNo <= Len(lines)
      /\ blocks \in Seq(BlockSet) /\ n \in Nat /\ lineNo = at - 1 /\ N = Len(lines) /\ at \in Nat
      /\ file.ended /\ caller \in {"id", "body"}
  BY <1>1, InProper DEF IInv, Typed
<1>3. ~Eof => lineNo' = at /\ at \in 1..Len(lines)
  BY <1>1, <1>2, AdvanceKeeps DEF ReadTerms, Eof
<1>4. Upto = lineNo /\ (Filling <=> caller = "body")
  BY <1>1 DEF Upto, Filling
<1>5. CASE Eof \/ file.lines[at].empty
  <2>1. pc' = caller /\ result' = FALSE /\ lineNo' = IF Eof THEN lineNo ELSE at
    BY <1>3, <1>5 DEF ReadTerms, Returns
  <2>2. PICK u \in Nat : u = lineNo'
    BY <1>2, <2>1
  <2>3. /\ Listed(lines, blocks, u) /\ ~Pending(lines, u) /\ Between(lines, u)
        /\ \A k \in 1..Len(blocks) : Filled(lines, reader, blocks[k])
    <3>1. (Eof /\ u = lineNo) \/ (~Eof /\ u = at /\ lines[at].empty)
      BY <1>5, <2>1, <2>2
    <3> QED BY <1>1, <3>1, ParagraphEnds
  <2>4. ~Filling' /\ Upto' = u
    BY <1>2, <2>1, <2>2 DEF Filling, Upto
  <2>5. Blocks'
    BY <1>1, <2>3, <2>4 DEF Blocks
  <2>6. Read'
    BY <1>1, <1>2, <2>1, <2>2, <2>3 DEF Read
  <2> QED BY <2>5, <2>6
<1>6. CASE ~Eof /\ ~file.lines[at].empty
  <2> DEFINE words == line \o lines[at].terms
  <2>1. lineNo' = at /\ at \in 1..Len(lines) /\ lineNo = at - 1 /\ at >= 1 /\ at <= Len(lines)
    BY <1>2, <1>3, <1>6
  <2>2. line \in Seq(Words) /\ lines[at].terms \in Seq(Words) /\ lines[at].more \in BOOLEAN
    BY <1>2, <2>1, LineFacts DEF IInv, Typed
  <2>3. words # <<>> <=> Pending(lines, at - 1) \/ lines[at].terms # <<>>
    <3>1. line # <<>> <=> Pending(lines, at - 1)
      BY <1>1, <1>2, <2>1 DEF Read
    <3>2. words # <<>> <=> line # <<>> \/ lines[at].terms # <<>>
      BY <2>2
    <3> QED BY <3>1, <3>2
  <2>4. line' # <<>> <=> words # <<>>
    <3>1. PICK G \in SUBSET Dangling(line \o file.lines[at].terms) :
            line' = [k \in DOMAIN (line \o file.lines[at].terms) |->
                       IF k \in G THEN "garbage" ELSE (line \o file.lines[at].terms)[k]]
      BY <1>6 DEF ReadTerms
    <3>2. capacity' = Grown(Capitals(line \o file.lines[at].terms)) /\ most' = most
      BY <1>6 DEF ReadTerms
    <3>3. line' \in Seq(Words) /\ Len(line') = Len(words)
      BY <1>2, <2>1, <3>1, <3>2, WordsKeep
    <3> QED BY <3>3, <2>2
  <2>5. IF lines[at].more \/ words = <<>> THEN pc' = "terms" /\ result' = result
                                         ELSE pc' = caller /\ result' = TRUE
    BY <1>1, <1>6 DEF ReadTerms, Returns
  <2>6. EndsLine(lines, at) <=> ~lines[at].more /\ words # <<>>
    BY <1>2, <1>6, <2>3, EndsLineIs
  <2>7. Pending(lines, at) <=> lines[at].more /\ words # <<>>
    BY <1>2, <2>1, <2>3, PendingIs
  <2>8. Listed(lines, blocks, at - 1) /\ (caller = "id" => ~Inside(lines, at - 1))
    BY <1>1, <1>2, <1>4, <2>1 DEF Blocks, Read, Between
  <2> HIDE DEF words
  <2>9. caller = "body" => /\ n \in 1..n /\ blocks[n] \in BlockSet /\ reader = "blocks"
                          /\ PartlyFilled(lines, "blocks", blocks[n], at - 1)
    <3>1. caller = "body" => blocks # <<>>
      BY <1>1 DEF IInv, Place
    <3>2. caller = "body" => reader = "blocks" /\ PartlyFilled(lines, reader, blocks[n], at - 1)
      BY <1>1, <1>2, <1>4, <2>1 DEF Blocks
    <3> QED BY <1>2, <3>1, <3>2
  <2>10. CASE lines[at].more \/ words = <<>>
    <3>1. pc' = "terms" /\ ~EndsLine(lines, at)
      BY <2>5, <2>6, <2>10
    <3>2. Upto' = at /\ (Filling' <=> caller = "body")
      BY <1>1, <2>1, <3>1 DEF Upto, Filling
    <3>3. Listed(lines, blocks, at)
      <4>1. at \notin IDs(lines)
        BY <1>2, <2>1, <3>1, IDsAre
      <4> QED BY <1>2, <2>8, <4>1, ListedNext
    <3>4. caller = "body" => PartlyFilled(lines, "blocks", blocks[n], at)
      BY <1>2, <1>6, <2>1, <2>9, <3>1, FillNothing
    <3>5. Blocks'
      BY <1>1, <1>2, <1>4, <2>9, <3>1, <3>2, <3>3, <3>4 DEF Blocks
    <3>6. line' # <<>> <=> Pending(lines, at)
      BY <2>4, <2>7, <2>10
    <3>7. caller = "id" => ~Inside(lines, at)
      BY <1>2, <2>1, <2>8, <3>1, InsideIs
    <3>8. Read'
      BY <1>1, <2>1, <3>1, <3>6, <3>7 DEF Read, Between
    <3> QED BY <3>5, <3>8
  <2>11. CASE ~(lines[at].more \/ words = <<>>)
    <3>1. pc' = caller /\ result' = TRUE /\ EndsLine(lines, at)
      BY <2>5, <2>6, <2>11
    <3>2. Upto' = at - 1 /\ (Filling' <=> caller = "body")
      BY <1>1, <1>2, <2>1, <3>1 DEF Upto, Filling
    <3>3. Blocks'
      BY <1>1, <1>2, <1>4, <2>8, <2>9, <3>1, <3>2 DEF Blocks
    <3>4. Read'
      BY <1>1, <1>2, <2>1, <2>8, <3>1 DEF Read
    <3> QED BY <3>3, <3>4
  <2> QED BY <2>10, <2>11
<1> QED BY <1>5, <1>6

LEMMA BlocksStep == IInv /\ BInv /\ [Next]_vars => BInv'
<1> SUFFICES ASSUME IInv, BInv, [Next]_vars PROVE BInv'
  OBVIOUS
<1>1. CASE UNCHANGED vars
  BY <1>1 DEF vars, BInv, Proper, Blocks, Read, Filling, Upto
<1>2. CASE Done
  BY <1>2, <1>1 DEF Done
<1> QED BY <1>1, <1>2, OpenBlocks, ReadTermsBlocks, LoopBlocks, IDLineBlocks, ConsumeLineBlocks,
           GetLineBlocks DEF Next, Reads

LEMMA EndWritten == IInv /\ BInv => BlocksAsWritten
<1> SUFFICES ASSUME IInv, BInv, pc = "end", ProperlyJoined(file.lines)
             PROVE  /\ InOrder(Ids(blocks), {i \in IDs(file.lines) : ~file.lines[i].odd})
                    /\ \A k \in DOMAIN blocks :
                         blocks[k].ok => InOrder(blocks[k].body, Body(file.lines, reader, blocks[k].id))
  BY DEF BlocksAsWritten, Ids
\* A last line without its newline is read again and again: such a file never comes to its end.
<1>1. Proper
  <2>1. file.ended
    BY LineFacts DEF IInv, Typed, Place
  <2> QED BY <2>1 DEF Proper
<1>2. /\ Blocks /\ Read /\ Len(file.lines) \in Nat /\ blocks \in Seq(BlockSet)
  BY <1>1, InProper
<1>3. Upto = Len(file.lines) /\ ~Filling
  BY <1>2 DEF Upto, Filling, Read
<1>4. {i \in IDs(file.lines) : i <= Len(file.lines) /\ ~file.lines[i].odd}
        = {i \in IDs(file.lines) : ~file.lines[i].odd}
  BY DEF IDs
<1>5. InOrder(Ids(blocks), {i \in IDs(file.lines) : ~file.lines[i].odd})
  <2>1. Listed(file.lines, blocks, Len(file.lines))
    BY <1>2, <1>3 DEF Blocks
  <2> QED BY <2>1, <1>4 DEF Listed
<1>6. \A k \in 1..Len(blocks) : Filled(file.lines, reader, blocks[k])
  BY <1>2, <1>3 DEF Blocks
<1> QED BY <1>2, <1>5, <1>6 DEF Filled

\* Once a file is read, each paragraph that starts with an id was handed on under it, in order,
\* and every one that was accepted with all of its lines: for files of any length, with comments,
\* empty lines and continued lines anywhere, and for both loops.
THEOREM ParagraphsAreBlocks == Spec => []BlocksAsWritten
<1>1. Init => IInv /\ BInv
  BY TypesBegin, BlocksBegin
<1>2. IInv /\ BInv /\ [Next]_vars => (IInv /\ BInv)'
  BY TypesStep, BlocksStep
<1>3. IInv /\ BInv => BlocksAsWritten
  BY EndWritten
<1> QED BY <1>1, <1>2, <1>3, PTL DEF Spec
==============================================================================
