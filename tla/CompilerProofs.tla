---------------------------- MODULE CompilerProofs ----------------------------
(***************************************************************************)
(* Theorems about Compiler, for any sources.                               *)
(*                                                                         *)
(* What a pass over blocks, words or lines does is a fold over a list, so  *)
(* a claim about one turn of the loop carries to its end (Rounds).  Each   *)
(* handler of a block takes a game to a Sound one: it Evolves the game, or *)
(* has Failed it, which an error records unless the log drops errors.      *)
(* RunInv says so of a run at every step.  Orderly says where the run is   *)
(* in the list of modules.  Referring says that what the game refers to is *)
(* there: a handler Extends a game whose references are right (Refs).      *)
(***************************************************************************)
EXTENDS CompilerInvariants, SequenceTheorems, FiniteSetTheorems, WellFoundedInduction, TLAPS

LEMMA LeastNumber ==
  ASSUME NEW S \in SUBSET Nat, S # {}
  PROVE  \E x \in S : \A y \in S : x <= y
<1>1. PICK x \in S : \A y \in S : ~(<<y, x>> \in OpToRel(<, Nat))
  BY NatLessThanWellFounded, WFMin
<1>2. \A y \in S : ~(y < x)
  BY <1>1 DEF OpToRel
<1> QED BY <1>2

LEMMA NatInduct ==
  ASSUME NEW S, 0 \in S, \A k \in Nat : k \in S => k + 1 \in S
  PROVE  \A k \in Nat : k \in S
<1> SUFFICES ASSUME NEW i \in Nat, i \notin S PROVE FALSE
  OBVIOUS
<1> DEFINE T == {k \in Nat : k \notin S}
<1>1. PICK k \in T : \A j \in T : k <= j
  BY LeastNumber
<1>2. k # 0 /\ k \in Nat
  OBVIOUS
<1>3. k - 1 \in Nat /\ k - 1 \notin T
  BY <1>1, <1>2
<1>4. k - 1 \in S /\ k - 1 + 1 = k
  BY <1>2, <1>3
<1> QED BY <1>2, <1>3, <1>4

LEMMA MaxIs ==
  ASSUME NEW k \in Nat, NEW s \in SUBSET (1..k), s # {}
  PROVE  Max(s) \in s /\ \A x \in s : x <= Max(s)
<1> DEFINE T == {k - x : x \in s}
<1>1. PICK least \in T : \A y \in T : least <= y
  <2>1. \A x \in s : k - x \in Nat
    OBVIOUS
  <2>2. T \in SUBSET Nat
    BY <2>1
  <2>3. T # {}
    <3>1. PICK x \in s : TRUE
      OBVIOUS
    <3>2. k - x \in T
      BY <3>1
    <3> QED BY <3>2
  <2> HIDE DEF T
  <2> QED BY <2>2, <2>3, LeastNumber
<1>2. PICK x \in s : least = k - x
  BY <1>1
<1>3. \A y \in s : y <= x
  <2> SUFFICES ASSUME NEW y \in s PROVE y <= x
    OBVIOUS
  <2>1. k - y \in T /\ x \in Nat /\ y \in Nat
    OBVIOUS
  <2>2. k - x <= k - y
    <3> HIDE DEF T
    <3> QED BY <1>1, <1>2, <2>1
  <2> QED BY <2>1, <2>2
<1>4. \E z \in s : \A y \in s : z >= y
  BY <1>3
<1> QED BY <1>4 DEF Max

-----------------------------------------------------------------------------
(***************************************************************************)
(* The loops of the compiler.  A loop is FoldLeft over a list; Round is    *)
(* what one round makes of what the rounds before have made.               *)
(***************************************************************************)
LEMMA FoldsExist ==
  ASSUME NEW loop, NEW base, NEW list, NEW len \in Nat, DOMAIN list = 1..len
  PROVE  \E h : Folds(loop, base, list, h)
<1> DEFINE Folding == {k \in Nat : \E h : \A s \in SUBSET (1..k) : h[s] = Folded(loop, base, list, h, s)}
<1>1. 0 \in Folding
  <2> DEFINE h == [s \in SUBSET (1..0) |-> base]
  <2>1. \A s \in SUBSET (1..0) : s = {}
    OBVIOUS
  <2>2. \A s \in SUBSET (1..0) : h[s] = Folded(loop, base, list, h, s)
    BY <2>1 DEF Folded
  <2> QED BY <2>2
<1>2. ASSUME NEW k \in Nat, k \in Folding
      PROVE  k + 1 \in Folding
  <2>1. PICK h : \A s \in SUBSET (1..k) : h[s] = Folded(loop, base, list, h, s)
    BY <1>2
  <2> DEFINE g0 == [s \in SUBSET (1..(k + 1)) |->
                      IF s \in SUBSET (1..k) THEN h[s] ELSE Round(loop, h[s \ {k + 1}], list[k + 1])]
  <2>2. ASSUME NEW s \in SUBSET (1..(k + 1))
        PROVE  g0[s] = Folded(loop, base, list, g0, s)
    <3>1. CASE s \in SUBSET (1..k)
      <4>1. CASE s = {}
        BY <2>1, <3>1, <4>1 DEF Folded
      <4>2. CASE s # {}
        <5>1. Max(s) \in s /\ s \ {Max(s)} \in SUBSET (1..k) /\ s \ {Max(s)} \in SUBSET (1..(k + 1))
          BY <3>1, <4>2, MaxIs
        <5>2. g0[s \ {Max(s)}] = h[s \ {Max(s)}] /\ g0[s] = h[s]
          BY <3>1, <5>1
        <5> HIDE DEF g0
        <5> QED BY <2>1, <3>1, <4>2, <5>2 DEF Folded
      <4> QED BY <4>1, <4>2
    <3>2. CASE s \notin SUBSET (1..k)
      <4>1. k + 1 \in s /\ s # {}
        BY <3>2
      <4>2. Max(s) = k + 1
        <5>1. k + 1 \in Nat
          OBVIOUS
        <5>2. Max(s) \in s /\ \A x \in s : x <= Max(s)
          BY <4>1, <5>1, MaxIs
        <5>3. Max(s) \in 1..(k + 1) /\ k + 1 <= Max(s)
          BY <4>1, <5>2
        <5> QED BY <5>3
      <4>3. s \ {k + 1} \in SUBSET (1..k) /\ s \ {k + 1} \in SUBSET (1..(k + 1))
        OBVIOUS
      <4>4. g0[s] = Round(loop, h[s \ {k + 1}], list[k + 1]) /\ g0[s \ {k + 1}] = h[s \ {k + 1}]
        BY <3>2, <4>3
      <4> HIDE DEF g0
      <4> QED BY <4>1, <4>2, <4>4 DEF Folded
    <3> QED BY <3>1, <3>2
  <2> HIDE DEF g0
  <2> QED BY <2>2
<1>3. \A k \in Nat : k \in Folding
  <2> HIDE DEF Folding
  <2> QED BY <1>1, <1>2, NatInduct
<1>4. PICK h : \A s \in SUBSET (1..len) : h[s] = Folded(loop, base, list, h, s)
  BY <1>3
<1> DEFINE f == [s \in SUBSET (1..len) |-> h[s]]
<1>5. ASSUME NEW s \in SUBSET (1..len)
      PROVE  f[s] = IF s = {} THEN base ELSE Round(loop, f[s \ {Max(s)}], list[Max(s)])
  <2>1. s \ {Max(s)} \in SUBSET (1..len)
    OBVIOUS
  <2>2. f[s \ {Max(s)}] = h[s \ {Max(s)}] /\ f[s] = h[s]
    BY <2>1
  <2> HIDE DEF f
  <2> QED BY <1>4, <2>2 DEF Folded
<1>6. f = [s \in SUBSET (1..len) |-> IF s = {} THEN base ELSE Round(loop, f[s \ {Max(s)}], list[Max(s)])]
  <2>1. f = [s \in SUBSET (1..len) |-> f[s]]
    OBVIOUS
  <2> HIDE DEF f
  <2> QED BY <1>5, <2>1
<1> HIDE DEF f
<1> QED BY <1>6 DEF Folds

LEMMA FoldHasRounds ==
  ASSUME NEW loop, NEW base, NEW list, IsList(list), NEW h, Folds(loop, base, list, h)
  PROVE  Rounds(loop, base, list, h[DOMAIN list])
<1> DEFINE len == Len(list)
           p == [i \in 0..len |-> h[1..i]]
<1>1. len \in Nat /\ DOMAIN list = 1..len
  BY DEF IsList
<1>2. \A s \in SUBSET (1..len) : h[s] = IF s = {} THEN base ELSE Round(loop, h[s \ {Max(s)}], list[Max(s)])
  BY <1>1 DEF Folds
<1>3. p[0] = base
  <2>1. 1..0 = {} /\ 1..0 \in SUBSET (1..len)
    BY <1>1
  <2>2. p[0] = h[1..0]
    BY <1>1
  <2> QED BY <1>2, <2>1, <2>2
<1>4. ASSUME NEW i \in 1..len
      PROVE  p[i] = Round(loop, p[i - 1], list[i])
  <2>1. 1..i \in SUBSET (1..len) /\ 1..i # {}
    BY <1>1
  <2>2. Max(1..i) = i
    <3>1. Max(1..i) \in 1..i /\ \A x \in 1..i : x <= Max(1..i)
      BY <1>1, <2>1, MaxIs
    <3> QED BY <1>1, <3>1
  <2>3. (1..i) \ {i} = 1..(i - 1)
    BY <1>1
  <2>4. p[i] = h[1..i] /\ p[i - 1] = h[1..(i - 1)]
    BY <1>1
  <2> HIDE DEF p
  <2> QED BY <1>2, <2>1, <2>2, <2>3, <2>4
<1>5. p[len] = h[DOMAIN list]
  BY <1>1
<1> HIDE DEF p
<1> QED BY <1>1, <1>3, <1>4, <1>5 DEF Rounds

\* What an operator that folds the list returns is the end of the rounds.
LEMMA FoldRounds ==
  ASSUME NEW loop, NEW base, NEW list, IsList(list), NEW result,
         \E f : result = f[DOMAIN list]
                /\ ((\E ff : Folds(loop, base, list, ff)) => Folds(loop, base, list, f))
  PROVE  Rounds(loop, base, list, result)
<1>1. Len(list) \in Nat /\ DOMAIN list = 1..Len(list)
  BY DEF IsList
<1>2. \E h : Folds(loop, base, list, h)
  BY <1>1, FoldsExist
<1>3. PICK f : result = f[DOMAIN list] /\ Folds(loop, base, list, f)
  BY <1>2
<1> QED BY <1>3, FoldHasRounds

LEMMA SyntaxWordsRounds ==
  ASSUME NEW v, NEW words, NEW known, IsList(words),
         NEW loop, loop.kind = "syntax_words", loop.known = known
  PROVE  Rounds(loop, v, words, SyntaxWords(v, words, known))
<1> DEFINE It(f) == f = [s \in SUBSET DOMAIN words |->
                           IF s = {} THEN v ELSE SyntaxWord(f[s \ {Max(s)}], words[Max(s)], known)]
<1>1. \A f : Folds(loop, v, words, f) <=> It(f)
  BY DEF Folds, Round
<1>2. \E f : SyntaxWords(v, words, known) = f[DOMAIN words] /\ ((\E ff : It(ff)) => It(f))
  BY DEF SyntaxWords, FoldLeft, MapThenFoldSet
<1> HIDE DEF It
<1> QED BY <1>1, <1>2, FoldRounds

LEMMA RoomWordsRounds ==
  ASSUME NEW a, NEW words, IsList(words),
         NEW loop, loop.kind = "room_words"
  PROVE  Rounds(loop, a, words, RoomWords(a, words))
<1> DEFINE It(f) == f = [s \in SUBSET DOMAIN words |->
                           IF s = {} THEN a ELSE RoomWord(f[s \ {Max(s)}], words[Max(s)])]
<1>1. \A f : Folds(loop, a, words, f) <=> It(f)
  BY DEF Folds, Round
<1>2. \E f : RoomWords(a, words) = f[DOMAIN words] /\ ((\E ff : It(ff)) => It(f))
  BY DEF RoomWords, FoldLeft, MapThenFoldSet
<1> HIDE DEF It
<1> QED BY <1>1, <1>2, FoldRounds

LEMMA DescribedRounds ==
  ASSUME NEW a, NEW desc, IsList(desc),
         NEW loop, loop.kind = "descriptions"
  PROVE  Rounds(loop, a, desc, Described(a, desc))
<1> DEFINE It(f) == f = [s \in SUBSET DOMAIN desc |->
                           IF s = {} THEN a ELSE DescribedBy(f[s \ {Max(s)}], desc[Max(s)])]
<1>1. \A f : Folds(loop, a, desc, f) <=> It(f)
  BY DEF Folds, Round
<1>2. \E f : Described(a, desc) = f[DOMAIN desc] /\ ((\E ff : It(ff)) => It(f))
  BY DEF Described, FoldLeft, MapThenFoldSet
<1> HIDE DEF It
<1> QED BY <1>1, <1>2, FoldRounds

LEMMA NpcWordsRounds ==
  ASSUME NEW a, NEW words, IsList(words),
         NEW loop, loop.kind = "npc_words"
  PROVE  Rounds(loop, a, words, NpcWords(a, words))
<1> DEFINE It(f) == f = [s \in SUBSET DOMAIN words |->
                           IF s = {} THEN a ELSE NpcWord(f[s \ {Max(s)}], words[Max(s)])]
<1>1. \A f : Folds(loop, a, words, f) <=> It(f)
  BY DEF Folds, Round
<1>2. \E f : NpcWords(a, words) = f[DOMAIN words] /\ ((\E ff : It(ff)) => It(f))
  BY DEF NpcWords, FoldLeft, MapThenFoldSet
<1> HIDE DEF It
<1> QED BY <1>1, <1>2, FoldRounds

LEMMA NpcTextLinesRounds ==
  ASSUME NEW a, NEW texts, IsList(texts),
         NEW loop, loop.kind = "npc_texts"
  PROVE  Rounds(loop, a, texts, NpcTextLines(a, texts))
<1> DEFINE It(f) == f = [s \in SUBSET DOMAIN texts |->
                           IF s = {} THEN a ELSE NpcText(f[s \ {Max(s)}], texts[Max(s)])]
<1>1. \A f : Folds(loop, a, texts, f) <=> It(f)
  BY DEF Folds, Round
<1>2. \E f : NpcTextLines(a, texts) = f[DOMAIN texts] /\ ((\E ff : It(ff)) => It(f))
  BY DEF NpcTextLines, FoldLeft, MapThenFoldSet
<1> HIDE DEF It
<1> QED BY <1>1, <1>2, FoldRounds

LEMMA ObjectWordsRounds ==
  ASSUME NEW a, NEW words, IsList(words),
         NEW loop, loop.kind = "object_words"
  PROVE  Rounds(loop, a, words, ObjectWords(a, words))
<1> DEFINE It(f) == f = [s \in SUBSET DOMAIN words |->
                           IF s = {} THEN a ELSE ObjectWord(f[s \ {Max(s)}], words[Max(s)])]
<1>1. \A f : Folds(loop, a, words, f) <=> It(f)
  BY DEF Folds, Round
<1>2. \E f : ObjectWords(a, words) = f[DOMAIN words] /\ ((\E ff : It(ff)) => It(f))
  BY DEF ObjectWords, FoldLeft, MapThenFoldSet
<1> HIDE DEF It
<1> QED BY <1>1, <1>2, FoldRounds

LEMMA ParseObjectStatesRounds ==
  ASSUME NEW a, NEW lines, IsList(lines),
         NEW loop, loop.kind = "object_states"
  PROVE  Rounds(loop, a, lines, parseObjectStates(a, lines))
<1> DEFINE It(f) == f = [s \in SUBSET DOMAIN lines |->
                           IF s = {} THEN a ELSE parseObjectState(f[s \ {Max(s)}], lines[Max(s)])]
<1>1. \A f : Folds(loop, a, lines, f) <=> It(f)
  BY DEF Folds, Round
<1>2. \E f : parseObjectStates(a, lines) = f[DOMAIN lines] /\ ((\E ff : It(ff)) => It(f))
  BY DEF parseObjectStates, FoldLeft, MapThenFoldSet
<1> HIDE DEF It
<1> QED BY <1>1, <1>2, FoldRounds

LEMMA CheckParametersRounds ==
  ASSUME NEW h, NEW words, NEW params, NEW inLang, IsList(params),
         NEW loop, loop.kind = "parameters", loop.inLang = inLang
  PROVE  Rounds(loop, Compiled(h, words, <<>>, TRUE), params, checkParameters(h, words, params, inLang))
<1> DEFINE It(f) == f = [s \in SUBSET DOMAIN params |->
                           IF s = {} THEN Compiled(h, words, <<>>, TRUE)
                           ELSE CheckNext(f[s \ {Max(s)}], params[Max(s)], inLang)]
<1>1. \A f : Folds(loop, Compiled(h, words, <<>>, TRUE), params, f) <=> It(f)
  BY DEF Folds, Round
<1>2. \E f : checkParameters(h, words, params, inLang) = f[DOMAIN params] /\ ((\E ff : It(ff)) => It(f))
  BY DEF checkParameters, FoldLeft, MapThenFoldSet
<1> HIDE DEF It
<1> QED BY <1>1, <1>2, FoldRounds

LEMMA RegisterTravelVerbsRounds ==
  ASSUME NEW h, NEW words, IsList(words),
         NEW loop, loop.kind = "travel_verbs"
  PROVE  Rounds(loop, h, words, registerTravelVerbs(h, words))
<1> DEFINE It(f) == f = [s \in SUBSET DOMAIN words |->
                           IF s = {} THEN h ELSE registerTravelVerb(f[s \ {Max(s)}], words[Max(s)])]
<1>1. \A f : Folds(loop, h, words, f) <=> It(f)
  BY DEF Folds, Round
<1>2. \E f : registerTravelVerbs(h, words) = f[DOMAIN words] /\ ((\E ff : It(ff)) => It(f))
  BY DEF registerTravelVerbs, FoldLeft, MapThenFoldSet
<1> HIDE DEF It
<1> QED BY <1>1, <1>2, FoldRounds

LEMMA VerbFlagsRounds ==
  ASSUME NEW a, NEW words, IsList(words),
         NEW loop, loop.kind = "verb_flags"
  PROVE  Rounds(loop, a, words, VerbFlags(a, words))
<1> DEFINE It(f) == f = [s \in SUBSET DOMAIN words |->
                           IF s = {} THEN a ELSE VerbFlag(f[s \ {Max(s)}], words[Max(s)])]
<1>1. \A f : Folds(loop, a, words, f) <=> It(f)
  BY DEF Folds, Round
<1>2. \E f : VerbFlags(a, words) = f[DOMAIN words] /\ ((\E ff : It(ff)) => It(f))
  BY DEF VerbFlags, FoldLeft, MapThenFoldSet
<1> HIDE DEF It
<1> QED BY <1>1, <1>2, FoldRounds

LEMMA SyntaxEntriesRounds ==
  ASSUME NEW a, NEW lines, IsList(lines),
         NEW loop, loop.kind = "syntax_entries"
  PROVE  Rounds(loop, a, lines, SyntaxEntries(a, lines))
<1> DEFINE It(f) == f = [s \in SUBSET DOMAIN lines |->
                           IF s = {} THEN a ELSE SyntaxEntry(f[s \ {Max(s)}], lines[Max(s)])]
<1>1. \A f : Folds(loop, a, lines, f) <=> It(f)
  BY DEF Folds, Round
<1>2. \E f : SyntaxEntries(a, lines) = f[DOMAIN lines] /\ ((\E ff : It(ff)) => It(f))
  BY DEF SyntaxEntries, FoldLeft, MapThenFoldSet
<1> HIDE DEF It
<1> QED BY <1>1, <1>2, FoldRounds

LEMMA SyntaxBlocksRounds ==
  ASSUME NEW h, NEW verbId, NEW syntaxes, IsList(syntaxes),
         NEW loop, loop.kind = "syntax_blocks", loop.verbId = verbId
  PROVE  Rounds(loop, h, syntaxes, SyntaxBlocks(h, verbId, syntaxes))
<1> DEFINE It(f) == f = [s \in SUBSET DOMAIN syntaxes |->
                           IF s = {} THEN h ELSE SyntaxBlock(f[s \ {Max(s)}], verbId, syntaxes[Max(s)])]
<1>1. \A f : Folds(loop, h, syntaxes, f) <=> It(f)
  BY DEF Folds, Round
<1>2. \E f : SyntaxBlocks(h, verbId, syntaxes) = f[DOMAIN syntaxes] /\ ((\E ff : It(ff)) => It(f))
  BY DEF SyntaxBlocks, FoldLeft, MapThenFoldSet
<1> HIDE DEF It
<1> QED BY <1>1, <1>2, FoldRounds

LEMMA TravelEntriesRounds ==
  ASSUME NEW a, NEW entries, NEW room, IsList(entries),
         NEW loop, loop.kind = "travel_entries", loop.room = room
  PROVE  Rounds(loop, a, entries, TravelEntries(a, entries, room))
<1> DEFINE It(f) == f = [s \in SUBSET DOMAIN entries |->
                           IF s = {} THEN a ELSE TravelEntry(f[s \ {Max(s)}], entries[Max(s)], room)]
<1>1. \A f : Folds(loop, a, entries, f) <=> It(f)
  BY DEF Folds, Round
<1>2. \E f : TravelEntries(a, entries, room) = f[DOMAIN entries] /\ ((\E ff : It(ff)) => It(f))
  BY DEF TravelEntries, FoldLeft, MapThenFoldSet
<1> HIDE DEF It
<1> QED BY <1>1, <1>2, FoldRounds

-----------------------------------------------------------------------------
(***************************************************************************)
(* Lists.                                                                  *)
(***************************************************************************)
LEMMA SeqIsList ==
  ASSUME NEW T, NEW x \in Seq(T)
  PROVE  IsList(x)
BY DEF ToSet, IsList

LEMMA ListParts ==
  ASSUME NEW x, IsList(x)
  PROVE  /\ Len(x) \in Nat /\ DOMAIN x = 1..Len(x)
         /\ x = [i \in 1..Len(x) |-> x[i]]
BY DEF IsList

LEMMA ListForm ==
  ASSUME NEW len \in Nat, NEW x, x = [i \in 1..len |-> x[i]]
  PROVE  IsList(x) /\ Len(x) = len
<1>1. x \in [1..len -> ToSet(x)]
  BY DEF ToSet
<1>2. x \in Seq(ToSet(x)) /\ Len(x) = len
  BY <1>1
<1> QED BY <1>2 DEF IsList

LEMMA EmptyList == IsList(<<>>) /\ Len(<<>>) = 0
BY DEF IsList, ToSet

LEMMA ListAppend ==
  ASSUME NEW x, IsList(x), NEW e
  PROVE  /\ IsList(Append(x, e)) /\ Len(Append(x, e)) = Len(x) + 1
         /\ \A i \in 1..Len(x) : Append(x, e)[i] = x[i]
         /\ Append(x, e)[Len(x) + 1] = e
<1> DEFINE T == ToSet(x) \cup {e}
<1>1. x \in Seq(T) /\ e \in T
  BY DEF IsList
<1> HIDE DEF T
<1>2. Append(x, e) \in Seq(T)
  BY <1>1
<1>3. IsList(Append(x, e))
  BY <1>2, SeqIsList
<1> QED BY <1>1, <1>3

LEMMA ListConcat ==
  ASSUME NEW x, IsList(x), NEW y, IsList(y)
  PROVE  /\ IsList(x \o y) /\ Len(x \o y) = Len(x) + Len(y)
         /\ DOMAIN (x \o y) = 1..(Len(x) + Len(y))
         /\ \A i \in 1..Len(x) : (x \o y)[i] = x[i]
         /\ \A i \in 1..Len(y) : (x \o y)[Len(x) + i] = y[i]
<1> DEFINE T == ToSet(x) \cup ToSet(y)
<1>1. x \in Seq(T) /\ y \in Seq(T)
  BY DEF IsList
<1> HIDE DEF T
<1>2. x \o y \in Seq(T)
  BY <1>1
<1>3. IsList(x \o y)
  BY <1>2, SeqIsList
<1>4. Len(x \o y) = Len(x) + Len(y) /\ DOMAIN (x \o y) = 1..(Len(x) + Len(y))
  BY <1>1, <1>2
<1> QED BY <1>1, <1>3, <1>4

LEMMA ListExcept ==
  ASSUME NEW x, IsList(x), NEW i, NEW e
  PROVE  IsList([x EXCEPT ![i] = e]) /\ Len([x EXCEPT ![i] = e]) = Len(x)
<1> DEFINE y == [x EXCEPT ![i] = e]
<1>1. y = [j \in 1..Len(x) |-> y[j]] /\ Len(x) \in Nat
  BY ListParts
<1> HIDE DEF y
<1>2. IsList(y) /\ Len(y) = Len(x)
  BY <1>1, ListForm
<1> QED BY <1>2 DEF y

LEMMA ListTail ==
  ASSUME NEW x, IsList(x), x # <<>>
  PROVE  IsList(Tail(x)) /\ Head(x) \in ToSet(x) /\ ToSet(Tail(x)) \subseteq ToSet(x)
<1>1. x \in Seq(ToSet(x))
  BY DEF IsList
<1>2. Tail(x) \in Seq(ToSet(x)) /\ Head(x) \in ToSet(x)
  BY <1>1
<1>3. ToSet(Tail(x)) \subseteq ToSet(x)
  BY <1>2 DEF ToSet
<1> QED BY <1>2, <1>3, SeqIsList

-----------------------------------------------------------------------------
(***************************************************************************)
(* The game as it is compiled.                                             *)
(***************************************************************************)
LEMMA SectionNames == ToSet(Sections) = TableNames
<1>1. DOMAIN Sections = {1, 2, 3, 4, 5, 6, 7, 8, 9, 10, 11, 12, 13}
  BY DEF Sections
<1>2. /\ Sections[1] = "string_index" /\ Sections[2] = "ranks" /\ Sections[3] = "rooms"
      /\ Sections[4] = "travel" /\ Sections[5] = "adjectives" /\ Sections[6] = "objects"
      /\ Sections[7] = "object_locations" /\ Sections[8] = "object_states"
      /\ Sections[9] = "synonyms" /\ Sections[10] = "verbs" /\ Sections[11] = "syntax_lines"
      /\ Sections[12] = "language_code" /\ Sections[13] = "npc_classes"
  BY DEF Sections
<1>3. ASSUME NEW i \in DOMAIN Sections
      PROVE  Sections[i] \in TableNames
  BY <1>1, <1>2 DEF TableNames
<1>4. ASSUME NEW s \in TableNames
      PROVE  s \in ToSet(Sections)
  BY <1>1, <1>2 DEF TableNames, ToSet
<1> QED BY <1>3, <1>4 DEF ToSet

LEMMA FailedStays ==
  ASSUME NEW h, IsGame(h), NEW k, NEW T, Evolves(h, k, T), Failed(h)
  PROVE  Failed(k)
BY DEF Failed, Evolves, IsGame

LEMMA EvolvesOn ==
  ASSUME NEW h, IsGame(h), NEW k, NEW T, Evolves(h, k, T), NEW S, NEW l, Evolves(k, l, S)
  PROVE  Evolves(h, l, T \cup S)
BY DEF Evolves, IsGame

LEMMA EvolvesMore ==
  ASSUME NEW h, NEW k, NEW T, Evolves(h, k, T), NEW S, T \subseteq S
  PROVE  Evolves(h, k, S)
BY DEF Evolves

LEMMA EvolvesNot ==
  ASSUME NEW h, IsGame(h), NEW T
  PROVE  Evolves(h, h, T)
BY DEF Evolves, IsGame

LEMMA ErrorsEvolve ==
  ASSUME NEW h, IsGame(h), NEW i \in Nat
  PROVE  Evolves(h, Errors(h, i), {}) /\ (i > 0 => Failed(Errors(h, i)))
BY DEF Evolves, IsGame, Errors, GameFields, Failed

LEMMA LogErrorEvolves ==
  ASSUME NEW h, IsGame(h)
  PROVE  Evolves(h, LogError(h), {}) /\ Failed(LogError(h))
BY ErrorsEvolve DEF LogError

LEMMA FateEvolves ==
  ASSUME NEW h, IsGame(h)
  PROVE  /\ Evolves(h, LogFatal(h), {}) /\ Failed(LogFatal(h))
         /\ Evolves(h, Crash(h), {}) /\ Failed(Crash(h))
BY DEF Evolves, IsGame, LogFatal, Crash, GameFields, Failed

LEMMA PushEvolves ==
  ASSUME NEW h, IsGame(h), NEW s \in TableNames, NEW e
  PROVE  /\ Evolves(h, push_back(h, s, e), {s})
         /\ push_back(h, s, e).tab[s] = Append(h.tab[s], e)
         /\ push_back(h, s, e).num[s] = h.num[s]
BY ListAppend DEF IsGame, Evolves, push_back, GameFields

LEMMA CountedEvolves ==
  ASSUME NEW h, IsGame(h), NEW s \in TableNames
  PROVE  /\ Evolves(h, Counted(h, s), {s})
         /\ Counted(h, s).tab[s] = h.tab[s]
         /\ Counted(h, s).num[s] = h.num[s] + 1
BY DEF Evolves, IsGame, Counted, GameFields

LEMMA IndexRange ==
  ASSUME NEW h, IsGame(h), NEW s \in TableNames, NEW id
  PROVE  IndexOfId(h, s, id) \in -1..(Len(h.tab[s]) - 1)
<1> DEFINE x == h.tab[s]
           Is == {i \in 1..Len(x) : x[i].id = id}
<1>1. IsList(x) /\ Len(x) \in Nat /\ DOMAIN x = 1..Len(x)
  BY ListParts DEF IsGame
<1>2. IndexOfId(h, s, id) = (IF Is = {} THEN 0 ELSE Min(Is)) - 1
  BY <1>1 DEF IndexOfId, SelectInSeq
<1>3. ASSUME Is # {}
      PROVE  Min(Is) \in 1..Len(x)
  <2>1. Is \in SUBSET Nat
    BY <1>1
  <2>2. PICK i \in Is : \A j \in Is : i <= j
    <3> HIDE DEF Is
    <3> QED BY <1>3, <2>1, LeastNumber
  <2>3. Min(Is) \in Is
    BY <2>2 DEF Min
  <2> QED BY <2>3
<1> HIDE DEF Is
<1> QED BY <1>1, <1>2, <1>3

LEMMA TextEvolves ==
  ASSUME NEW h, IsGame(h), NEW text
  PROVE  /\ Evolves(h, AddTextString(h, text), {"string_index"})
         /\ Evolves(h, RegisterTextString(h, text), {"string_index"})
<1>1. "string_index" \in TableNames
  BY DEF TableNames
<1>2. Evolves(h, AddTextString(h, text), {"string_index"})
  BY <1>1, PushEvolves DEF AddTextString
<1> DEFINE k == [h EXCEPT !.labels = Bind(@, text, Size(h, "string_index"))]
<1>3. Evolves(h, k, {})
  BY DEF Evolves, IsGame, GameFields
<1> HIDE DEF k
<1>4. Evolves(k, AddTextString(k, text), {"string_index"})
  BY <1>1, <1>3, PushEvolves DEF AddTextString, Evolves
<1>5. Evolves(h, AddTextString(k, text), {} \cup {"string_index"})
  BY <1>3, <1>4, EvolvesOn
<1>6. {} \cup {"string_index"} = {"string_index"}
  OBVIOUS
<1>7. Evolves(h, AddTextString(k, text), {"string_index"})
  BY <1>5, <1>6
<1> QED BY <1>2, <1>7, EvolvesNot DEF RegisterTextString, k

LEMMA TextArgument ==
  ASSUME NEW h, IsGame(h), NEW arg
  PROVE  Evolves(h, getTextString(h, arg).g, {"string_index"})
BY TextEvolves, EvolvesNot DEF getTextString

LEMMA MessageEvolves ==
  ASSUME NEW h, IsGame(h), NEW b, NEW allowed
  PROVE  Evolves(h, consumeMessage(h, b, allowed), {"string_index"})
BY TextEvolves, LogErrorEvolves, EvolvesMore DEF consumeMessage

-----------------------------------------------------------------------------
(***************************************************************************)
(* What is true of the tables as long as nothing has failed.               *)
(***************************************************************************)
LEMMA SideWhole ==
  ASSUME NEW h, IsGame(h), Whole(h), NEW k, Evolves(h, k, SideTables), Counts(k)
  PROVE  Whole(k)
<1>1. \A s \in {"verbs", "syntax_lines", "language_code", "rooms", "travel", "objects", "object_locations"} :
        k.tab[s] = h.tab[s]
  BY DEF Evolves, SideTables, TableNames
<1>2. k.roomIdx = h.roomIdx
  BY DEF Evolves
<1> QED BY <1>1, <1>2 DEF Whole, VerbsOwn, SyntaxOwn, RoomsOwn, ObjectsOwn

LEMMA SideSound ==
  ASSUME NEW h, IsGame(h), Sound(h), NEW k, Evolves(h, k, SideTables), Failed(k) \/ Counts(k)
  PROVE  Sound(k)
BY FailedStays, SideWhole DEF Evolves, SideTables, TableNames, Sound, VerbsCounted

LEMMA TextsSound ==
  ASSUME NEW h, IsGame(h), Sound(h), NEW k, Evolves(h, k, {"string_index"})
  PROVE  Sound(k)
<1>1. Evolves(h, k, SideTables)
  BY EvolvesMore DEF SideTables
<1>2. ASSUME Whole(h)
      PROVE  Counts(k)
  BY <1>2 DEF Whole, Counts, Evolves, TableNames
<1> QED BY <1>1, <1>2, SideSound, FailedStays DEF Sound

LEMMA OwnedAppend ==
  ASSUME NEW t, IsList(t), NEW e, NEW offset \in Nat, NEW count \in Nat, NEW owner,
         Owned(t, offset, count, owner)
  PROVE  /\ e.of # owner => Owned(Append(t, e), offset, count, owner)
         /\ e.of = owner /\ offset + count = Len(t) => Owned(Append(t, e), offset, count + 1, owner)
<1>1. Len(t) \in Nat /\ DOMAIN t = 1..Len(t)
  BY ListParts
<1>2. /\ DOMAIN Append(t, e) = 1..(Len(t) + 1)
      /\ \A i \in 1..Len(t) : Append(t, e)[i] = t[i]
      /\ Append(t, e)[Len(t) + 1] = e
  BY ListAppend, ListParts
<1> DEFINE l == Len(t)
           u == Append(t, e)
<1> HIDE DEF l, u
<1>3. {i \in DOMAIN u : u[i].of = owner} =
        {i \in DOMAIN t : t[i].of = owner} \cup (IF e.of = owner THEN {l + 1} ELSE {})
  BY <1>1, <1>2 DEF l, u
<1>4. ASSUME e.of = owner, offset + count = l
      PROVE  (offset + 1)..(offset + count) \cup {l + 1} = (offset + 1)..(offset + (count + 1))
  BY <1>4
<1> QED BY <1>3, <1>4 DEF Owned, l, u

LEMMA OwnedConcat ==
  ASSUME NEW t, IsList(t), NEW y, IsList(y), NEW offset \in Nat, NEW count \in Nat, NEW owner,
         Owned(t, offset, count, owner), NEW other, \A i \in DOMAIN y : y[i].of = other
  PROVE  /\ other # owner => Owned(t \o y, offset, count, owner)
         /\ other = owner /\ offset + count = Len(t) => Owned(t \o y, offset, count + Len(y), owner)
<1>1. Len(t) \in Nat /\ DOMAIN t = 1..Len(t) /\ Len(y) \in Nat /\ DOMAIN y = 1..Len(y)
  BY ListParts
<1>2. /\ DOMAIN (t \o y) = 1..(Len(t) + Len(y))
      /\ \A i \in 1..Len(t) : (t \o y)[i] = t[i]
      /\ \A i \in 1..Len(y) : (t \o y)[Len(t) + i] = y[i]
  BY ListConcat
<1> DEFINE l == Len(t)
           r == Len(y)
           u == t \o y
<1> HIDE DEF l, r, u
<1>3. \A i \in (l + 1)..(l + r) : u[i] = y[i - l] /\ i - l \in DOMAIN y
  <2> SUFFICES ASSUME NEW i \in (l + 1)..(l + r) PROVE u[i] = y[i - l] /\ i - l \in DOMAIN y
    OBVIOUS
  <2>1. i - l \in 1..r /\ l + (i - l) = i
    BY <1>1 DEF l, r
  <2> QED BY <1>1, <1>2, <2>1 DEF l, r, u
<1>4. {i \in DOMAIN u : u[i].of = owner} =
        {i \in DOMAIN t : t[i].of = owner} \cup (IF other = owner THEN (l + 1)..(l + r) ELSE {})
  BY <1>1, <1>2, <1>3 DEF l, r, u
<1>5. ASSUME other = owner, offset + count = l
      PROVE  (offset + 1)..(offset + count) \cup (l + 1)..(l + r) = (offset + 1)..(offset + (count + r))
  BY <1>1, <1>5 DEF r
<1> QED BY <1>4, <1>5 DEF Owned, l, r, u

LEMMA OwnedNone ==
  ASSUME NEW t, NEW count \in Nat, Belong(t, count), NEW owner \in Nat, owner >= count, NEW offset \in Nat
  PROVE  Owned(t, offset, 0, owner)
<1>1. {i \in DOMAIN t : t[i].of = owner} = {}
  BY DEF Belong
<1>2. (offset + 1)..(offset + 0) = {}
  OBVIOUS
<1> QED BY <1>1, <1>2 DEF Owned

\* An owner without entries finds none anywhere.
LEMMA OwnedNowhere ==
  ASSUME NEW t, NEW owner, NEW offset \in Nat, Owned(t, offset, 0, owner), NEW other \in Nat
  PROVE  Owned(t, other, 0, owner)
BY DEF Owned

LEMMA BelongMore ==
  ASSUME NEW t, NEW count \in Nat, Belong(t, count), NEW more \in Nat, more >= count
  PROVE  Belong(t, more)
BY DEF Belong

LEMMA BelongAppend ==
  ASSUME NEW t, IsList(t), NEW count \in Nat, Belong(t, count), NEW e, e.of \in 0..(count - 1)
  PROVE  Belong(Append(t, e), count)
BY ListParts, ListAppend DEF Belong

LEMMA BelongConcat ==
  ASSUME NEW t, IsList(t), NEW count \in Nat, Belong(t, count), NEW y, IsList(y), Belong(y, count)
  PROVE  Belong(t \o y, count)
<1>1. Len(t) \in Nat /\ DOMAIN t = 1..Len(t) /\ Len(y) \in Nat /\ DOMAIN y = 1..Len(y)
  BY ListParts
<1>2. DOMAIN (t \o y) = 1..(Len(t) + Len(y))
  BY ListConcat
<1> SUFFICES ASSUME NEW i \in DOMAIN (t \o y) PROVE (t \o y)[i].of \in 0..(count - 1)
  BY DEF Belong
<1>3. CASE i \in DOMAIN t
  BY <1>1, <1>3, ListConcat DEF Belong
<1>4. CASE i \notin DOMAIN t
  BY <1>1, <1>2, <1>4, ListConcat DEF Belong
<1> QED BY <1>3, <1>4

-----------------------------------------------------------------------------
(***************************************************************************)
(* What the rounds of each loop keep.                                      *)
(***************************************************************************)
\* What every round keeps holds after the last one.
LEMMA RoundsKeep ==
  ASSUME NEW loop, NEW base, NEW list, IsList(list), NEW result, Rounds(loop, base, list, result),
         Kept(loop, base),
         \A a : \A x \in ToSet(list) : Kept(loop, a) => Kept(loop, Round(loop, a, x))
  PROVE  Kept(loop, result)
<1>1. Len(list) \in Nat /\ DOMAIN list = 1..Len(list)
  BY ListParts
<1>2. PICK p : /\ p[0] = base
               /\ \A i \in DOMAIN list : p[i] = Round(loop, p[i - 1], list[i])
               /\ result = p[Len(list)]
  BY DEF Rounds
<1> DEFINE S == {k \in Nat : k <= Len(list) => Kept(loop, p[k])}
<1>3. 0 \in S
  BY <1>2
<1>4. ASSUME NEW k \in Nat, k \in S
      PROVE  k + 1 \in S
  <2> SUFFICES ASSUME k + 1 <= Len(list) PROVE Kept(loop, p[k + 1])
    OBVIOUS
  <2>1. k + 1 \in DOMAIN list /\ k <= Len(list) /\ (k + 1) - 1 = k
    BY <1>1
  <2>2. list[k + 1] \in ToSet(list)
    BY <2>1 DEF ToSet
  <2>3. Kept(loop, p[k])
    BY <1>4, <2>1
  <2>4. Kept(loop, Round(loop, p[k], list[k + 1]))
    BY <2>2, <2>3
  <2> QED BY <1>2, <2>1, <2>4
<1>5. \A k \in Nat : k \in S
  <2> HIDE DEF S
  <2> QED BY <1>3, <1>4, NatInduct
<1> QED BY <1>1, <1>2, <1>5

-----------------------------------------------------------------------------
(***************************************************************************)
(* Texts, rooms, ranks and NPC classes.                                    *)
(***************************************************************************)
LEMMA MessagesSound ==
  ASSUME NEW h, IsGame(h), Sound(h), NEW b
  PROVE  /\ IsGame(smsg_proc(h, b)) /\ Sound(smsg_proc(h, b))
         /\ IsGame(umsg_proc(h, b)) /\ Sound(umsg_proc(h, b))
<1>1. ASSUME NEW allowed
      PROVE  IsGame(consumeMessage(h, b, allowed)) /\ Sound(consumeMessage(h, b, allowed))
  BY MessageEvolves, TextsSound DEF Evolves
<1> QED BY <1>1 DEF smsg_proc, umsg_proc

LEMMA EvolvesSound ==
  ASSUME NEW h, IsGame(h), Sound(h), NEW k, Evolves(h, k, {})
  PROVE  IsGame(k) /\ Sound(k)
BY EvolvesMore, TextsSound DEF Evolves

LEMMA MessagesEndSound ==
  ASSUME NEW h, IsGame(h), Sound(h)
  PROVE  IsGame(smsg_end(h)) /\ Sound(smsg_end(h))
<1> DEFINE S == {i \in 1..NSMSGS : Sys(i) \notin DOMAIN h.labels}
<1>1. Cardinality(S) \in Nat
  <2>1. IsFiniteSet(1..NSMSGS)
    BY LimitsAssumption, FS_Interval
  <2>2. S \subseteq 1..NSMSGS
    OBVIOUS
  <2> HIDE DEF S
  <2> QED BY <2>1, <2>2, FS_Subset, FS_CardinalityType
<1> HIDE DEF S
<1>2. Evolves(h, Errors(h, Cardinality(S)), {})
  BY <1>1, ErrorsEvolve
<1> QED BY <1>2, EvolvesSound DEF smsg_end, S

LEMMA TitleSound ==
  ASSUME NEW h, IsGame(h), Sound(h), NEW b
  PROVE  IsGame(title_proc(h, b)) /\ Sound(title_proc(h, b))
<1>1. IsGame(LogFatal(h)) /\ Sound(LogFatal(h))
  BY FateEvolves, EvolvesSound
<1>2. IsGame(RegisterTextString(h, Sys(0))) /\ Sound(RegisterTextString(h, Sys(0)))
  BY TextEvolves, TextsSound DEF Evolves
<1> QED BY <1>1, <1>2 DEF title_proc

LEMMA RoomWordIs ==
  ASSUME NEW a, NEW w
  PROVE  \/ RoomWord(a, w) = a
         \/ RoomWord(a, w) = [a EXCEPT !.g = LogError(@)]
         \/ RoomWord(a, w) = [a EXCEPT !.g = LogError(@), !.stop = TRUE]
         \/ RoomWord(a, w) = [a EXCEPT !.g.dmoves = Bind(@, a.room.id, w.val)]
         \/ RoomWord(a, w) = [a EXCEPT !.room.flags = @ \cup ({w.val} \ {"light"})]
BY DEF RoomWord

LEMMA RoomWordKeeps ==
  ASSUME NEW h, IsGame(h), NEW a, RoomRead(h, a, {}), NEW w
  PROVE  RoomRead(h, RoomWord(a, w), {})
<1>1. IsGame(a.g) /\ Evolves(h, a.g, {})
  BY DEF RoomRead, Evolves
<1>2. Evolves(h, LogError(a.g), {})
  BY <1>1, LogErrorEvolves DEF Evolves, IsGame
<1>3. Evolves(h, [a.g EXCEPT !.dmoves = Bind(@, a.room.id, w.val)], {})
  <2>1. IsFiniteSet(DOMAIN Bind(a.g.dmoves, a.room.id, w.val))
    BY <1>1, FS_AddElement DEF Bind, IsGame
  <2> QED BY <1>1, <2>1 DEF Evolves, IsGame, GameFields
<1>4. RoomRead(h, [a EXCEPT !.g = LogError(@)], {})
  BY <1>2 DEF RoomRead
<1>5. RoomRead(h, [a EXCEPT !.g = LogError(@), !.stop = TRUE], {})
  BY <1>2 DEF RoomRead
<1>6. RoomRead(h, [a EXCEPT !.g.dmoves = Bind(@, a.room.id, w.val)], {})
  BY <1>3 DEF RoomRead
<1>7. RoomRead(h, [a EXCEPT !.room.flags = @ \cup ({w.val} \ {"light"})], {})
  BY DEF RoomRead, RoomFields
<1> QED BY <1>4, <1>5, <1>6, <1>7, RoomWordIs

LEMMA DescribedByKeeps ==
  ASSUME NEW h, IsGame(h), NEW a, RoomRead(h, a, {"string_index"}), NEW d \in {"shortDesc", "longDesc"}
  PROVE  RoomRead(h, DescribedBy(a, d), {"string_index"})
<1>1. IsGame(a.g) /\ Evolves(h, a.g, {"string_index"})
  BY DEF RoomRead, Evolves
<1>2. Evolves(h, AddTextString(a.g, a.room.id), {"string_index"})
  BY <1>1, TextEvolves DEF Evolves, IsGame
<1> QED BY <1>2 DEF RoomRead, RoomFields, DescribedBy

LEMMA RoomWordsKeep ==
  ASSUME NEW h, IsGame(h), NEW a, RoomRead(h, a, {}), NEW words, IsList(words),
         NEW desc \in Seq({"shortDesc", "longDesc"})
  PROVE  RoomRead(h, Described(RoomWords(a, words), desc), {"string_index"})
<1> DEFINE r == RoomWords(a, words)
           d == Described(r, desc)
<1>1. RoomRead(h, r, {})
  <2> DEFINE loop == [kind |-> "room_words", from |-> h]
  <2>1. Rounds(loop, a, words, r)
    BY RoomWordsRounds
  <2>2. \A x : Kept(loop, x) <=> RoomRead(h, x, {})
    BY DEF Kept
  <2>3. \A x, w : Round(loop, x, w) = RoomWord(x, w)
    BY DEF Round
  <2> HIDE DEF loop, r
  <2> QED BY <2>1, <2>2, <2>3, RoundsKeep, RoomWordKeeps
<1>2. RoomRead(h, r, {"string_index"})
  BY <1>1, EvolvesMore DEF RoomRead
<1> HIDE DEF r
<1>3. IsList(desc) /\ ToSet(desc) \subseteq {"shortDesc", "longDesc"}
  BY SeqIsList DEF ToSet
<1>4. RoomRead(h, d, {"string_index"})
  <2> DEFINE loop == [kind |-> "descriptions", from |-> h]
  <2>1. Rounds(loop, r, desc, d)
    BY <1>3, DescribedRounds
  <2>2. \A x : Kept(loop, x) <=> RoomRead(h, x, {"string_index"})
    BY DEF Kept
  <2>3. \A x, w : Round(loop, x, w) = DescribedBy(x, w)
    BY DEF Round
  <2> HIDE DEF loop, d
  <2>4. \A x : \A w \in ToSet(desc) : Kept(loop, x) => Kept(loop, Round(loop, x, w))
    BY <1>3, <2>2, <2>3, DescribedByKeeps
  <2> QED BY <1>2, <1>3, <2>1, <2>2, <2>4, RoundsKeep
<1> QED BY <1>4 DEF r

\* A table that gains an entry and is counted.
LEMMA PushCounted ==
  ASSUME NEW h, IsGame(h), NEW s \in TableNames, NEW e
  PROVE  /\ Evolves(h, Counted(push_back(h, s, e), s), {s})
         /\ Counted(push_back(h, s, e), s).tab[s] = Append(h.tab[s], e)
         /\ Counted(push_back(h, s, e), s).num[s] = h.num[s] + 1
         /\ CountKept(h, Counted(push_back(h, s, e), s), s)
<1> DEFINE k == push_back(h, s, e)
           l == Counted(k, s)
<1>1. Evolves(h, k, {s}) /\ k.tab[s] = Append(h.tab[s], e) /\ k.num[s] = h.num[s] /\ IsGame(k)
  BY PushEvolves DEF Evolves
<1> HIDE DEF k
<1>2. Evolves(k, l, {s}) /\ l.tab[s] = k.tab[s] /\ l.num[s] = k.num[s] + 1
  BY <1>1, CountedEvolves
<1> HIDE DEF l
<1>3. Evolves(h, l, {s})
  BY <1>1, <1>2 DEF Evolves, IsGame
<1>4. Len(Append(h.tab[s], e)) = Len(h.tab[s]) + 1
  BY ListAppend DEF IsGame
<1> QED BY <1>1, <1>2, <1>3, <1>4 DEF CountKept, k, l

LEMMA RoomSound ==
  ASSUME NEW h, IsGame(h), Sound(h), NEW b, IsBlock("rooms", b)
  PROVE  IsGame(room_proc(h, b)) /\ Sound(room_proc(h, b))
<1> DEFINE room == [id |-> b.id, flags |-> {}, dmove |-> -1, shortDesc |-> -1, longDesc |-> -1,
                    ttlines |-> 0, ttOffset |-> 0]
           a0 == [g |-> h, room |-> room, stop |-> FALSE]
           a == Described(RoomWords(a0, b.words), b.desc)
           k == [a.g EXCEPT !.roomIdx = Bind(@, b.id, Size(h, "rooms"))]
           l == Counted(push_back(k, "rooms", a.room), "rooms")
<1>1. RoomRead(h, a0, {})
  BY EvolvesNot DEF RoomRead, RoomFields
<1>2. IsList(b.words) /\ b.desc \in Seq({"shortDesc", "longDesc"})
  BY DEF IsBlock
<1>3. RoomRead(h, a, {"string_index"})
  <2> HIDE DEF a0
  <2> QED BY <1>1, <1>2, RoomWordsKeep
<1> HIDE DEF a
<1>4. /\ IsGame(a.g) /\ Evolves(h, a.g, {"string_index"}) /\ Sound(a.g)
      /\ DOMAIN a.room = RoomFields /\ a.room.ttlines = 0 /\ a.room.ttOffset = 0
  BY <1>3, TextsSound DEF RoomRead, Evolves
<1>5. /\ IsGame(k) /\ k.tab = a.g.tab /\ k.num = a.g.num /\ k.twice = a.g.twice
      /\ k.roomIdx = Bind(a.g.roomIdx, b.id, Size(h, "rooms"))
      /\ k.quiet = a.g.quiet /\ k.errors = a.g.errors /\ k.fate = a.g.fate
  BY <1>4 DEF IsGame, GameFields
<1> HIDE DEF k
<1>6. "rooms" \in TableNames
  BY DEF TableNames
<1>7. /\ Evolves(k, l, {"rooms"}) /\ l.tab["rooms"] = Append(k.tab["rooms"], a.room)
      /\ CountKept(k, l, "rooms") /\ IsGame(l)
  <2>1. /\ Evolves(k, l, {"rooms"}) /\ l.tab["rooms"] = Append(k.tab["rooms"], a.room)
        /\ CountKept(k, l, "rooms")
    <3>1. IsGame(k)
      BY <1>5
    <3>2. Evolves(k, l, {"rooms"})
      BY <1>6, <3>1, PushCounted
    <3>3. l.tab["rooms"] = Append(k.tab["rooms"], a.room)
      <4>1. \A e : Counted(push_back(k, "rooms", e), "rooms").tab["rooms"] = Append(k.tab["rooms"], e)
        BY <1>6, <3>1, PushCounted
      <4> QED BY <4>1
    <3>4. CountKept(k, l, "rooms")
      BY <1>6, <3>1, PushCounted
    <3> QED BY <3>2, <3>3, <3>4
  <2> QED BY <2>1 DEF Evolves
<1> HIDE DEF l
<1>8. ASSUME ~Failed(l)
      PROVE  Whole(l) /\ VerbsCounted(l)
  <2>1. ~Failed(a.g)
    BY <1>5, <1>7, <1>8 DEF Failed, Evolves, IsGame
  <2>2. Whole(a.g) /\ VerbsCounted(a.g)
    BY <1>4, <2>1 DEF Sound
  <2>3. \A s \in TableNames \ {"rooms"} : l.tab[s] = a.g.tab[s] /\ l.num[s] = a.g.num[s]
    BY <1>5, <1>7 DEF Evolves
  <2>4. Counts(l)
    BY <1>5, <1>7, <2>2, <2>3 DEF Counts, Whole, CountKept, TableNames
  <2>5. VerbsCounted(l)
    BY <1>5, <1>7, <2>2, <2>3 DEF VerbsCounted, Evolves, TableNames
  <2>6. VerbsOwn(l) /\ SyntaxOwn(l) /\ ObjectsOwn(l)
    BY <2>3, <2>2 DEF TableNames, Whole, VerbsOwn, SyntaxOwn, ObjectsOwn
  <2>7. RoomsOwn(l)
    <3> DEFINE t == a.g.tab["rooms"]
               u == l.tab["rooms"]
               w == a.g.tab["travel"]
    <3>1. IsList(t) /\ u = Append(t, a.room) /\ l.tab["travel"] = w /\ h.tab["rooms"] = t
      BY <1>4, <1>5, <1>7, <2>3 DEF IsGame, TableNames, Evolves
    <3>2. /\ Len(t) \in Nat /\ DOMAIN t = 1..Len(t) /\ DOMAIN u = 1..(Len(t) + 1) /\ Len(u) = Len(t) + 1
          /\ \A i \in 1..Len(t) : u[i] = t[i]
          /\ u[Len(t) + 1] = a.room
      BY <3>1, ListAppend, ListParts
    <3>3. Belong(w, Len(t)) /\ Belong(w, Len(t) + 1)
      BY <2>2, <3>2 DEF Whole, RoomsOwn, Belong
    <3>4. Owned(w, 0, 0, Len(t))
      BY <3>2, <3>3, OwnedNone
    <3>5. l.roomIdx = Bind(a.g.roomIdx, b.id, Len(t))
      BY <1>5, <1>7, <3>1 DEF Evolves, Size
    <3>6. \A name \in DOMAIN l.roomIdx : l.roomIdx[name] \in 0..(Len(u) - 1)
      <4>1. \A name \in DOMAIN a.g.roomIdx : a.g.roomIdx[name] \in 0..(Len(t) - 1)
        BY <2>2 DEF Whole, RoomsOwn
      <4> HIDE DEF t, u, w
      <4> QED BY <3>2, <3>5, <4>1 DEF Bind
    <3>7. ASSUME NEW i \in DOMAIN u
          PROVE  /\ DOMAIN u[i] = RoomFields
                 /\ u[i].ttlines \in Nat /\ u[i].ttOffset \in Nat
                 /\ Owned(w, u[i].ttOffset, u[i].ttlines, i - 1)
      <4>1. CASE i \in DOMAIN t
        <5>1. /\ DOMAIN t[i] = RoomFields
              /\ t[i].ttlines \in Nat /\ t[i].ttOffset \in Nat
              /\ Owned(w, t[i].ttOffset, t[i].ttlines, i - 1)
          BY <2>2, <4>1 DEF Whole, RoomsOwn
        <5>2. u[i] = t[i]
          BY <3>2, <4>1
        <5> HIDE DEF t, u, w
        <5> QED BY <5>1, <5>2
      <4>2. CASE i = Len(t) + 1
        <5>1. i - 1 = Len(t)
          BY <3>2, <4>2
        <5> HIDE DEF t, u, w
        <5> QED BY <1>4, <3>2, <3>4, <4>2, <5>1
      <4> HIDE DEF t, u, w
      <4> QED BY <3>2, <4>1, <4>2
    <3> QED BY <3>1, <3>2, <3>3, <3>6, <3>7 DEF RoomsOwn
  <2> QED BY <2>4, <2>5, <2>6, <2>7 DEF Whole
<1>9. room_proc(h, b) = l
  BY DEF room_proc, l, k, a
<1> QED BY <1>7, <1>8, <1>9 DEF Sound

\* The rooms keep their travel tables when the names after dmove= are looked up.
LEMMA RoomEndSound ==
  ASSUME NEW h, IsGame(h), Sound(h)
  PROVE  IsGame(room_end(h)) /\ Sound(room_end(h))
<1> DEFINE found == {rm \in DOMAIN h.dmoves : h.dmoves[rm] \in DOMAIN h.roomIdx}
           moved(i) == \E rm \in found : h.roomIdx[rm] = i
           target(i) == h.roomIdx[h.dmoves[h.tab["rooms"][i + 1].id]]
           t == h.tab["rooms"]
           u == [i \in DOMAIN t |-> IF moved(i - 1) THEN [t[i] EXCEPT !.dmove = target(i - 1)] ELSE t[i]]
           k == [h EXCEPT !.tab["rooms"] = u]
           lost == Cardinality(DOMAIN h.dmoves \ found)
<1>1. room_end(h) = Errors(k, lost)
  BY DEF room_end
<1>2. lost \in Nat
  BY FS_Subset, FS_CardinalityType DEF IsGame
<1> HIDE DEF lost
<1>3. IsList(t) /\ Len(t) \in Nat /\ DOMAIN t = 1..Len(t)
  BY ListParts DEF IsGame, TableNames
<1>4. IsList(u) /\ Len(u) = Len(t) /\ DOMAIN u = DOMAIN t
  <2>1. u = [i \in 1..Len(t) |-> u[i]]
    BY <1>3
  <2>2. DOMAIN u = DOMAIN t
    OBVIOUS
  <2> HIDE DEF u
  <2> QED BY <1>3, <2>1, <2>2, ListForm
<1>5. ASSUME Whole(h), NEW i \in DOMAIN t
      PROVE  /\ DOMAIN u[i] = DOMAIN t[i]
             /\ u[i].ttlines = t[i].ttlines /\ u[i].ttOffset = t[i].ttOffset
  <2>0. DOMAIN t[i] = RoomFields
    BY <1>5 DEF Whole, RoomsOwn
  <2> HIDE DEF moved, target, t
  <2>1. u[i] = t[i] \/ u[i] = [t[i] EXCEPT !.dmove = target(i - 1)]
    OBVIOUS
  <2> HIDE DEF u
  <2>2. PICK v : u[i] = t[i] \/ u[i] = [t[i] EXCEPT !.dmove = v]
    BY <2>1
  <2> QED BY <2>0, <2>2 DEF RoomFields
<1> HIDE DEF u
<1>6. /\ IsGame(k) /\ Evolves(h, k, {"rooms"})
      /\ k.tab["rooms"] = u /\ \A s \in TableNames \ {"rooms"} : k.tab[s] = h.tab[s]
      /\ k.num = h.num /\ k.twice = h.twice /\ k.roomIdx = h.roomIdx
  <2>1. /\ DOMAIN k = GameFields /\ DOMAIN k.tab = TableNames /\ k.num = h.num
        /\ k.tab["rooms"] = u /\ \A s \in TableNames \ {"rooms"} : k.tab[s] = h.tab[s]
        /\ k.errors = h.errors /\ k.quiet = h.quiet /\ k.dmoves = h.dmoves /\ k.fate = h.fate
        /\ k.twice = h.twice /\ k.roomIdx = h.roomIdx
    BY DEF IsGame, GameFields, TableNames
  <2> HIDE DEF k
  <2>2. IsGame(k)
    BY <1>4, <2>1 DEF IsGame
  <2> QED BY <2>1, <2>2 DEF Evolves, IsGame
<1> HIDE DEF k
<1>7. Sound(k)
  <2> SUFFICES ASSUME ~Failed(k) PROVE Whole(k) /\ VerbsCounted(k)
    BY DEF Sound
  <2>1. Whole(h) /\ VerbsCounted(h)
    BY <1>6, FailedStays DEF Sound
  <2>2. Counts(k)
    BY <1>4, <1>6, <2>1 DEF Counts, Whole
  <2>3. VerbsCounted(k) /\ VerbsOwn(k) /\ SyntaxOwn(k) /\ ObjectsOwn(k)
    BY <1>6, <2>1 DEF TableNames, Whole, VerbsOwn, SyntaxOwn, ObjectsOwn, VerbsCounted
  <2>4. RoomsOwn(k)
    <3> DEFINE w == h.tab["travel"]
    <3>1. k.tab["travel"] = w
      BY <1>6 DEF TableNames
    <3>2. \A i \in DOMAIN t : /\ DOMAIN t[i] = RoomFields
                              /\ t[i].ttlines \in Nat /\ t[i].ttOffset \in Nat
                              /\ Owned(w, t[i].ttOffset, t[i].ttlines, i - 1)
      BY <2>1 DEF Whole, RoomsOwn
    <3>3. Belong(w, Len(t)) /\ \A name \in DOMAIN h.roomIdx : h.roomIdx[name] \in 0..(Len(t) - 1)
      BY <2>1 DEF Whole, RoomsOwn
    <3> HIDE DEF t, w
    <3> QED BY <1>4, <1>5, <1>6, <2>1, <3>1, <3>2, <3>3 DEF RoomsOwn
  <2> QED BY <2>2, <2>3, <2>4 DEF Whole
<1>8. Evolves(k, Errors(k, lost), {})
  BY <1>2, <1>6, ErrorsEvolve
<1> QED BY <1>1, <1>6, <1>7, <1>8, EvolvesSound

LEMMA SidePushed ==
  ASSUME NEW h, IsGame(h), Sound(h), NEW s \in SideTables \ {"string_index", "synonyms"}, NEW e
  PROVE  IsGame(Counted(push_back(h, s, e), s)) /\ Sound(Counted(push_back(h, s, e), s))
<1> DEFINE k == Counted(push_back(h, s, e), s)
<1>1. s \in TableNames /\ s \notin {"string_index", "synonyms", "verbs"}
  BY DEF SideTables, TableNames
<1>2. Evolves(h, k, {s}) /\ CountKept(h, k, s)
  BY <1>1, PushCounted
<1> HIDE DEF k
<1>3. Evolves(h, k, SideTables)
  BY <1>2, EvolvesMore
<1>4. ASSUME Whole(h)
      PROVE  Counts(k)
  BY <1>1, <1>2, <1>4 DEF Whole, Counts, Evolves, CountKept
<1> QED BY <1>3, <1>4, SideSound, FailedStays DEF Sound, Evolves, k

LEMMA RankSound ==
  ASSUME NEW h, IsGame(h), Sound(h), NEW b
  PROVE  IsGame(rank_proc(h, b)) /\ Sound(rank_proc(h, b))
<1>1. \/ rank_proc(h, b) = Counted(push_back(h, "ranks", b.id), "ranks")
      \/ rank_proc(h, b) = LogFatal(h)
      \/ rank_proc(h, b) = LogError(h)
  BY DEF rank_proc
<1>2. "ranks" \in SideTables \ {"string_index", "synonyms"}
  BY DEF SideTables
<1>3. /\ IsGame(Counted(push_back(h, "ranks", b.id), "ranks"))
      /\ Sound(Counted(push_back(h, "ranks", b.id), "ranks"))
  BY <1>2, SidePushed
<1>4. IsGame(LogFatal(h)) /\ Sound(LogFatal(h)) /\ IsGame(LogError(h)) /\ Sound(LogError(h))
  BY FateEvolves, LogErrorEvolves, EvolvesSound
<1> QED BY <1>1, <1>3, <1>4

LEMMA NpcWordKeeps ==
  ASSUME NEW h, IsGame(h), NEW a, DOMAIN a = {"g", "npc"}, Evolves(h, a.g, {}), NEW w
  PROVE  DOMAIN NpcWord(a, w) = {"g", "npc"} /\ Evolves(h, NpcWord(a, w).g, {})
<1>1. \/ NpcWord(a, w) = [a EXCEPT !.npc.deadstate = w.val]
      \/ NpcWord(a, w) = [a EXCEPT !.npc.dmove = isRoomName(a.g, w.val)]
      \/ NpcWord(a, w) = [a EXCEPT !.g = LogError(@)]
  BY DEF NpcWord
<1>2. Evolves(h, LogError(a.g), {})
  BY LogErrorEvolves DEF Evolves, IsGame
<1> QED BY <1>1, <1>2

LEMMA NpcTextKeeps ==
  ASSUME NEW h, IsGame(h), NEW a, DOMAIN a = {"g", "npc", "ok"}, Evolves(h, a.g, {"string_index"}), NEW w
  PROVE  DOMAIN NpcText(a, w) = {"g", "npc", "ok"} /\ Evolves(h, NpcText(a, w).g, {"string_index"})
<1> DEFINE text == getTextString(a.g, w.arg)
<1>1. \/ NpcText(a, w) = a
      \/ NpcText(a, w) = [a EXCEPT !.ok = FALSE]
      \/ NpcText(a, w) = [a EXCEPT !.npc.texts = Append(@, -1)]
      \/ NpcText(a, w) = [g |-> text.g, ok |-> text.id # -1,
                          npc |-> [a.npc EXCEPT !.texts = Append(@, text.id)]]
  BY DEF NpcText
<1>2. Evolves(h, text.g, {"string_index"})
  BY TextArgument DEF Evolves, IsGame
<1> HIDE DEF text
<1> QED BY <1>1, <1>2

LEMMA SkipSound ==
  ASSUME NEW h, IsGame(h), Sound(h), NEW skip
  PROVE  IsGame([h EXCEPT !.skip = skip]) /\ Sound([h EXCEPT !.skip = skip])
BY EvolvesSound DEF Evolves, IsGame, GameFields

LEMMA NpcSound ==
  ASSUME NEW h, IsGame(h), Sound(h), NEW b, IsBlock("npcs", b)
  PROVE  IsGame(npc_proc(h, b)) /\ Sound(npc_proc(h, b))
<1> DEFINE named == consumeNpcIDLine(h, b)
           a0 == [g |-> named.g, npc |-> named.npc, ok |-> TRUE]
           a == NpcTextLines(a0, b.texts)
           ends == b.stats = "missing" \/ (b.stats = "ok" /\ a.ok)
<1>1. DOMAIN named = {"g", "npc"} /\ Evolves(h, named.g, {})
  <2> DEFINE npc == [id |-> b.id, deadstate |-> -1, dmove |-> -1, texts |-> <<>>]
             n0 == [g |-> h, npc |-> npc]
             loop == [kind |-> "npc_words", from |-> h]
  <2>1. Rounds(loop, n0, b.words, named)
    BY NpcWordsRounds DEF consumeNpcIDLine, IsBlock
  <2>2. \A x : Kept(loop, x) <=> (DOMAIN x = {"g", "npc"} /\ Evolves(h, x.g, {}))
    BY DEF Kept
  <2>3. \A x, w : Round(loop, x, w) = NpcWord(x, w)
    BY DEF Round
  <2>4. DOMAIN n0 = {"g", "npc"} /\ Evolves(h, n0.g, {})
    BY EvolvesNot
  <2>5. IsList(b.words)
    BY DEF IsBlock
  <2> HIDE DEF loop, n0, named
  <2>6. \A x : \A w \in ToSet(b.words) : Kept(loop, x) => Kept(loop, Round(loop, x, w))
    BY <2>2, <2>3, NpcWordKeeps
  <2> QED BY <2>1, <2>2, <2>4, <2>5, <2>6, RoundsKeep
<1> HIDE DEF named
<1>2. DOMAIN a = {"g", "npc", "ok"} /\ Evolves(h, a.g, {"string_index"})
  <2> DEFINE loop == [kind |-> "npc_texts", from |-> h]
  <2>1. Rounds(loop, a0, b.texts, a)
    BY NpcTextLinesRounds DEF IsBlock
  <2>2. \A x : Kept(loop, x) <=> (DOMAIN x = {"g", "npc", "ok"} /\ Evolves(h, x.g, {"string_index"}))
    BY DEF Kept
  <2>3. \A x, w : Round(loop, x, w) = NpcText(x, w)
    BY DEF Round
  <2>4. DOMAIN a0 = {"g", "npc", "ok"} /\ Evolves(h, a0.g, {"string_index"})
    BY <1>1, EvolvesMore
  <2>5. IsList(b.texts)
    BY DEF IsBlock
  <2> HIDE DEF loop, a0, a
  <2>6. \A x : \A w \in ToSet(b.texts) : Kept(loop, x) => Kept(loop, Round(loop, x, w))
    BY <2>2, <2>3, NpcTextKeeps
  <2> QED BY <2>1, <2>2, <2>4, <2>5, <2>6, RoundsKeep
<1> HIDE DEF a, ends
<1>3. IsGame(a.g) /\ Sound(a.g) /\ IsGame(named.g) /\ Sound(named.g)
  BY <1>1, <1>2, TextsSound, EvolvesSound DEF Evolves
<1>4. "npc_classes" \in SideTables \ {"string_index", "synonyms"}
  BY DEF SideTables
<1>5. /\ IsGame(Counted(push_back(a.g, "npc_classes", a.npc), "npc_classes"))
      /\ Sound(Counted(push_back(a.g, "npc_classes", a.npc), "npc_classes"))
  BY <1>3, <1>4, SidePushed
<1>6. ASSUME NEW k, IsGame(k), Sound(k)
      PROVE  IsGame([LogError(k) EXCEPT !.skip = ends]) /\ Sound([LogError(k) EXCEPT !.skip = ends])
  BY <1>6, LogErrorEvolves, EvolvesSound, SkipSound
<1>7. \/ npc_proc(h, b) = Counted(push_back(a.g, "npc_classes", a.npc), "npc_classes")
      \/ npc_proc(h, b) = [LogError(a.g) EXCEPT !.skip = ends]
      \/ npc_proc(h, b) = [LogError(named.g) EXCEPT !.skip = ends]
  BY DEF npc_proc, a, named, ends
<1> QED BY <1>3, <1>5, <1>6, <1>7

-----------------------------------------------------------------------------
(***************************************************************************)
(* Objects.                                                                *)
(***************************************************************************)
\* An evolution that goes on with an error, or a counted entry.
LEMMA ErrorEvolvesOn ==
  ASSUME NEW h, IsGame(h), NEW k, NEW T, Evolves(h, k, T)
  PROVE  Evolves(h, LogError(k), T) /\ Failed(LogError(k))
BY LogErrorEvolves DEF Evolves, IsGame

LEMMA PushEvolvesOn ==
  ASSUME NEW h, IsGame(h), NEW k, NEW T, Evolves(h, k, T), NEW s \in T \cap TableNames, NEW e
  PROVE  /\ Evolves(h, Counted(push_back(k, s, e), s), T)
         /\ CountKept(h, k, s) => CountKept(h, Counted(push_back(k, s, e), s), s)
<1> DEFINE l == Counted(push_back(k, s, e), s)
<1>1. IsGame(k) /\ Evolves(k, l, {s}) /\ CountKept(k, l, s)
  BY PushCounted DEF Evolves
<1> HIDE DEF l
<1>2. Evolves(h, l, T)
  BY <1>1 DEF Evolves, IsGame
<1> QED BY <1>1, <1>2 DEF CountKept, l

LEMMA ObjectWordIs ==
  ASSUME NEW a, NEW w
  PROVE  \/ ObjectWord(a, w) = a
         \/ ObjectWord(a, w) = [a EXCEPT !.obj.flags = @ \cup {w.val}]
         \/ ObjectWord(a, w) = processObjectAdj(a, w)
         \/ ObjectWord(a, w) = processObjectMob(a, w)
         \/ ObjectWord(a, w) = [a EXCEPT !.obj.state = w.val]
         \/ ObjectWord(a, w) = [a EXCEPT !.obj.contains = w.val]
         \/ ObjectWord(a, w) = [a EXCEPT !.obj.putto = w.val]
         \/ ObjectWord(a, w) = [a EXCEPT !.g = LogError(@)]
         \/ ObjectWord(a, w) = [a EXCEPT !.g = LogError(@), !.ok = FALSE]
BY DEF ObjectWord

LEMMA ObjectWordKeeps ==
  ASSUME NEW h, IsGame(h), NEW a, NEW offset, ObjectRead(a, offset, 0), WordsRead(h, a), NEW w
  PROVE  ObjectRead(ObjectWord(a, w), offset, 0) /\ WordsRead(h, ObjectWord(a, w))
<1>1. DOMAIN a = {"g", "obj", "ok"} /\ a.ok \in BOOLEAN /\ DOMAIN a.obj = ObjectFields
  BY DEF ObjectRead
<1>2. ASSUME NEW y, y \in {[a EXCEPT !.obj.flags = @ \cup {w.val}], [a EXCEPT !.obj.state = w.val],
                           [a EXCEPT !.obj.contains = w.val], [a EXCEPT !.obj.putto = w.val],
                           [a EXCEPT !.obj.npc = IndexOfId(a.g, "npc_classes", w.val)]}
      PROVE  ObjectRead(y, offset, 0) /\ WordsRead(h, y)
  <2>1. DOMAIN y = {"g", "obj", "ok"} /\ y.g = a.g /\ y.ok = a.ok
    BY <1>1, <1>2
  <2>2. DOMAIN y.obj = ObjectFields /\ y.obj.roomsOffset = a.obj.roomsOffset /\ y.obj.nrooms = a.obj.nrooms
    BY <1>1, <1>2 DEF ObjectFields
  <2> QED BY <2>1, <2>2 DEF ObjectRead, WordsRead
<1>3. Evolves(h, LogError(a.g), {"adjectives"}) /\ Failed(LogError(a.g)) /\ CountKept(h, LogError(a.g), "adjectives")
  <2>1. Evolves(h, a.g, {"adjectives"}) /\ CountKept(h, a.g, "adjectives")
    BY DEF WordsRead
  <2>2. IsGame(a.g) /\ Evolves(a.g, LogError(a.g), {})
    BY <2>1, LogErrorEvolves DEF Evolves
  <2>3. CountKept(h, LogError(a.g), "adjectives")
    BY <2>1, <2>2 DEF CountKept, Evolves, TableNames
  <2> QED BY <2>1, <2>3, ErrorEvolvesOn
<1>4. ASSUME NEW y, y \in {[a EXCEPT !.g = LogError(@)], [a EXCEPT !.g = LogError(@), !.ok = FALSE]}
      PROVE  ObjectRead(y, offset, 0) /\ WordsRead(h, y)
  BY <1>1, <1>4, <1>3 DEF ObjectRead, WordsRead
<1>5. ObjectRead(processObjectMob(a, w), offset, 0) /\ WordsRead(h, processObjectMob(a, w))
  BY <1>2, <1>4 DEF processObjectMob
<1>6. ObjectRead(processObjectAdj(a, w), offset, 0) /\ WordsRead(h, processObjectAdj(a, w))
  <2> DEFINE k == Counted(push_back(a.g, "adjectives", w.val.name), "adjectives")
             y == [a EXCEPT !.g = k]
  <2>1. Evolves(h, k, {"adjectives"}) /\ CountKept(h, k, "adjectives")
    BY PushEvolvesOn DEF TableNames, WordsRead
  <2>2. ~a.ok => Failed(k)
    <3>1. "adjectives" \in TableNames /\ IsGame(a.g)
      BY DEF TableNames, WordsRead, Evolves
    <3>2. Evolves(a.g, k, {"adjectives"})
      BY <3>1, PushCounted
    <3> HIDE DEF k
    <3> QED BY <3>1, <3>2, FailedStays DEF WordsRead
  <2>3. processObjectAdj(a, w) = y \/ processObjectAdj(a, w) = [a EXCEPT !.g = LogError(@)]
    BY DEF processObjectAdj
  <2> HIDE DEF k
  <2>4. DOMAIN y = {"g", "obj", "ok"} /\ y.g = k /\ y.ok = a.ok /\ y.obj = a.obj
    BY <1>1
  <2> HIDE DEF y
  <2>5. ObjectRead(y, offset, 0) /\ WordsRead(h, y)
    BY <2>1, <2>2, <2>4 DEF ObjectRead, WordsRead
  <2> QED BY <1>4, <2>3, <2>5
<1> QED BY <1>2, <1>4, <1>5, <1>6, ObjectWordIs

LEMMA StateLineIs ==
  ASSUME NEW a, NEW line
  PROVE  \/ parseObjectState(a, line) = [a EXCEPT !.g = LogError(@)]
         \/ parseObjectState(a, line) = [a EXCEPT !.g = LogError(getTextString(a.g, line.desc[1]).g)]
         \/ \E state : parseObjectState(a, line) = Stated(a, getTextString(a.g, line.desc[1]).g, state)
<1> DEFINE text == getTextString(a.g, line.desc[1])
           state == [description |-> text.id, flags |-> ToSet(line.flags), of |-> Size(a.g, "objects")]
<1>1. \/ parseObjectState(a, line) = [a EXCEPT !.g = LogError(@)]
      \/ parseObjectState(a, line) = [a EXCEPT !.g = LogError(text.g)]
      \/ parseObjectState(a, line) =
           [a EXCEPT !.g = Counted(push_back(text.g, "object_states", state), "object_states"),
                     !.obj.nstates = @ + 1]
  BY DEF parseObjectState
<1> HIDE DEF state
<1> QED BY <1>1 DEF Stated

LEMMA StateLineKeeps ==
  ASSUME NEW h, IsGame(h), NEW a, NEW offset, NEW nrooms, ObjectRead(a, offset, nrooms), StatesRead(h, a), NEW line
  PROVE  ObjectRead(parseObjectState(a, line), offset, nrooms) /\ StatesRead(h, parseObjectState(a, line))
<1> DEFINE text == getTextString(a.g, line.desc[1])
           T == {"string_index", "object_states"}
<1>1. /\ DOMAIN a = {"g", "obj", "ok"} /\ a.ok \in BOOLEAN /\ DOMAIN a.obj = ObjectFields
      /\ Evolves(h, a.g, T) /\ CountKept(h, a.g, "object_states") /\ IsGame(a.g)
  BY DEF ObjectRead, StatesRead, Evolves
<1>2. Evolves(h, text.g, T) /\ CountKept(h, text.g, "object_states") /\ IsGame(text.g)
  <2>1. Evolves(a.g, text.g, {"string_index"})
    BY <1>1, TextArgument
  <2> HIDE DEF text
  <2>2. Evolves(h, text.g, T)
    BY <1>1, <2>1 DEF Evolves, IsGame
  <2> QED BY <1>1, <2>1, <2>2 DEF CountKept, Evolves, TableNames
<1> HIDE DEF text, T
<1>3. ASSUME NEW k, Evolves(h, k, T), CountKept(h, k, "object_states"), IsGame(k)
      PROVE  Evolves(h, LogError(k), T) /\ CountKept(h, LogError(k), "object_states")
  BY <1>3, LogErrorEvolves, ErrorEvolvesOn DEF CountKept, Evolves, TableNames
<1>4. ASSUME NEW k, Evolves(h, k, T), CountKept(h, k, "object_states"), NEW y,
             DOMAIN y = {"g", "obj", "ok"}, y.g = k, y.ok = a.ok,
             DOMAIN y.obj = ObjectFields, y.obj.roomsOffset = offset, y.obj.nrooms = nrooms
      PROVE  ObjectRead(y, offset, nrooms) /\ StatesRead(h, y)
  BY <1>1, <1>4 DEF ObjectRead, StatesRead, T
<1>5. ASSUME NEW k, Evolves(h, k, T), CountKept(h, k, "object_states")
      PROVE  ObjectRead([a EXCEPT !.g = k], offset, nrooms) /\ StatesRead(h, [a EXCEPT !.g = k])
  <2> DEFINE y == [a EXCEPT !.g = k]
  <2>1. DOMAIN y = {"g", "obj", "ok"} /\ y.g = k /\ y.ok = a.ok /\ y.obj = a.obj
    BY <1>1
  <2> HIDE DEF y
  <2>2. ObjectRead(y, offset, nrooms) /\ StatesRead(h, y)
    BY <1>1, <1>4, <1>5, <2>1 DEF ObjectRead
  <2> QED BY <2>2 DEF y
<1>6. ASSUME NEW state
      PROVE  ObjectRead(Stated(a, text.g, state), offset, nrooms) /\ StatesRead(h, Stated(a, text.g, state))
  <2> DEFINE k == Counted(push_back(text.g, "object_states", state), "object_states")
             y == [a EXCEPT !.g = k, !.obj.nstates = @ + 1]
  <2>1. Evolves(h, k, T) /\ CountKept(h, k, "object_states")
    BY <1>2, PushEvolvesOn DEF TableNames, T
  <2> HIDE DEF k
  <2>2. DOMAIN y = {"g", "obj", "ok"} /\ y.g = k /\ y.ok = a.ok
    BY <1>1
  <2>3. DOMAIN y.obj = ObjectFields /\ y.obj.roomsOffset = offset /\ y.obj.nrooms = nrooms
    BY <1>1 DEF ObjectFields, ObjectRead
  <2> HIDE DEF y
  <2>4. ObjectRead(y, offset, nrooms) /\ StatesRead(h, y)
    BY <1>4, <2>1, <2>2, <2>3
  <2> QED BY <2>4 DEF y, k, Stated
<1>7. Evolves(h, LogError(a.g), T) /\ CountKept(h, LogError(a.g), "object_states")
  BY <1>1, <1>3
<1>8. Evolves(h, LogError(text.g), T) /\ CountKept(h, LogError(text.g), "object_states")
  BY <1>2, <1>3
<1>9. /\ ObjectRead([a EXCEPT !.g = LogError(@)], offset, nrooms) /\ StatesRead(h, [a EXCEPT !.g = LogError(@)])
      /\ ObjectRead([a EXCEPT !.g = LogError(text.g)], offset, nrooms)
      /\ StatesRead(h, [a EXCEPT !.g = LogError(text.g)])
  BY <1>5, <1>7, <1>8
<1> QED BY <1>6, <1>9, StateLineIs DEF text

LEMMA AscendingIsList ==
  ASSUME NEW S, IsFiniteSet(S)
  PROVE  IsList(Ascending(S)) /\ Len(Ascending(S)) = Cardinality(S)
<1>1. Cardinality(S) \in Nat
  BY FS_CardinalityType
<1> DEFINE next(i) == CHOOSE x \in S : Cardinality({y \in S : y < x}) = i - 1
<1>2. Ascending(S) = [i \in 1..Cardinality(S) |-> Ascending(S)[i]]
  <2>1. Ascending(S) = [i \in 1..Cardinality(S) |-> next(i)]
    BY DEF Ascending
  <2> HIDE DEF next
  <2> QED BY <2>1
<1> QED BY <1>1, <1>2, ListForm

\* The values of a list are finitely many, and so are its places.
LEMMA ListFinite ==
  ASSUME NEW x, IsList(x)
  PROVE  IsFiniteSet(DOMAIN x) /\ IsFiniteSet(ToSet(x))
<1>1. IsFiniteSet(DOMAIN x)
  BY ListParts, FS_Interval
<1>2. x \in Surjection(DOMAIN x, ToSet(x))
  BY ListParts DEF ToSet, Surjection
<1> QED BY <1>1, <1>2, FS_Surjection

LEMMA AppendedEvolves ==
  ASSUME NEW h, IsGame(h), NEW s \in TableNames, NEW list, IsList(list)
  PROVE  /\ Evolves(h, Appended(h, s, list), {s})
         /\ Appended(h, s, list).tab[s] = h.tab[s] \o list
         /\ CountKept(h, Appended(h, s, list), s)
<1> DEFINE k == Appended(h, s, list)
<1>1. /\ IsList(h.tab[s] \o list) /\ Len(h.tab[s] \o list) = Len(h.tab[s]) + Len(list)
      /\ Len(list) \in Nat
  BY ListConcat, ListParts DEF IsGame
<1>2. /\ DOMAIN k = GameFields /\ DOMAIN k.tab = TableNames /\ DOMAIN k.num = TableNames
      /\ k.tab[s] = h.tab[s] \o list /\ k.num[s] = h.num[s] + Len(list)
      /\ \A t \in TableNames \ {s} : k.tab[t] = h.tab[t] /\ k.num[t] = h.num[t]
      /\ k.errors = h.errors /\ k.quiet = h.quiet /\ k.dmoves = h.dmoves /\ k.fate = h.fate
      /\ k.twice = h.twice /\ k.roomIdx = h.roomIdx
  BY DEF IsGame, GameFields, Appended
<1> HIDE DEF k
<1>3. IsGame(k)
  <2>1. ASSUME NEW t \in TableNames
        PROVE  k.num[t] \in Nat /\ IsList(k.tab[t])
    <3>1. h.num[t] \in Nat /\ IsList(h.tab[t])
      BY DEF IsGame
    <3>2. CASE t = s
      <4>1. h.num[s] \in Nat
        BY <3>1, <3>2
      <4>2. k.num[s] \in Nat /\ IsList(k.tab[s])
        BY <1>1, <1>2, <4>1
      <4> QED BY <3>2, <4>2
    <3>3. CASE t # s
      BY <1>2, <3>1, <3>3
    <3> QED BY <3>2, <3>3
  <2> QED BY <1>2, <2>1 DEF IsGame
<1>4. Evolves(h, k, {s})
  BY <1>2, <1>3 DEF Evolves, IsGame
<1> QED BY <1>1, <1>2, <1>4 DEF CountKept, k

\* The object joins the places of those before it, or there is an error.
LEMMA ObjectRoomsAre ==
  ASSUME NEW a, IsGame(a.g), NEW names, IsList(names)
  PROVE  \/ \E i \in Nat \ {0} : processObjectRooms(a, names) = [a EXCEPT !.g = Errors(@, i), !.ok = FALSE]
         \/ \E entries :
              /\ IsList(entries) /\ \A i \in DOMAIN entries : entries[i].of = Len(a.g.tab["objects"])
              /\ StartsAt(a.g, names, entries)
              /\ processObjectRooms(a, names) =
                   [a EXCEPT !.g = Appended(@, "object_locations", entries), !.obj.nrooms = Len(entries)]
<1> DEFINE places == [i \in DOMAIN names |-> Location(a.g, names[i])]
           locations == Ascending(ToSet(places) \ {-1})
           unknown == Cardinality({i \in DOMAIN names : places[i] = -1})
           entries == [i \in DOMAIN locations |-> [place |-> locations[i], of |-> Size(a.g, "objects")]]
           problems == unknown + (IF locations = <<>> THEN 1 ELSE 0)
<1>1. IsList(places)
  <2>1. places = [i \in 1..Len(names) |-> places[i]] /\ Len(names) \in Nat
    BY ListParts
  <2> HIDE DEF places
  <2> QED BY <2>1, ListForm
<1>2. unknown \in Nat
  BY ListFinite, FS_Subset, FS_CardinalityType
<1>3. /\ IsList(locations) /\ Len(locations) = Cardinality(Starts(a.g, names))
      /\ locations = Ascending(Starts(a.g, names)) /\ IsFiniteSet(Starts(a.g, names))
  <2>1. ToSet(places) \ {-1} \subseteq ToSet(places) /\ IsFiniteSet(ToSet(places))
    BY <1>1, ListFinite
  <2>2. IsFiniteSet(Starts(a.g, names)) /\ locations = Ascending(Starts(a.g, names))
    BY <2>1, FS_Subset DEF Starts
  <2> HIDE DEF locations
  <2> QED BY <2>2, AscendingIsList
<1> HIDE DEF places, locations, unknown
<1>4. IsList(entries) /\ Len(entries) = Len(locations)
  <2>1. entries = [i \in 1..Len(locations) |-> entries[i]] /\ Len(locations) \in Nat
    BY <1>3, ListParts
  <2> HIDE DEF entries
  <2> QED BY <2>1, ListForm
<1>5. \A i \in DOMAIN entries : entries[i].of = Len(a.g.tab["objects"]) /\ entries[i].place = locations[i]
  BY DEF Size
<1>6. problems \in Nat
  BY <1>2
<1> HIDE DEF entries, problems
<1>7. processObjectRooms(a, names) =
        IF problems > 0 THEN [a EXCEPT !.g = Errors(@, problems), !.ok = FALSE]
        ELSE [a EXCEPT !.obj.nrooms = Len(locations),
                       !.g.tab["object_locations"] = @ \o entries,
                       !.g.num["object_locations"] = @ + Len(locations)]
  BY DEF processObjectRooms, problems, entries, locations, places, unknown
<1>8. [a EXCEPT !.obj.nrooms = Len(locations),
                !.g.tab["object_locations"] = @ \o entries,
                !.g.num["object_locations"] = @ + Len(locations)] =
      [a EXCEPT !.g = Appended(@, "object_locations", entries), !.obj.nrooms = Len(entries)]
  BY <1>4 DEF Appended
<1>9. CASE problems > 0
  <2>1. problems \in Nat \ {0} /\ processObjectRooms(a, names) = [a EXCEPT !.g = Errors(@, problems), !.ok = FALSE]
    BY <1>6, <1>7, <1>9
  <2> QED BY <2>1
<1>10. CASE ~(problems > 0)
  <2>1. processObjectRooms(a, names) =
          [a EXCEPT !.g = Appended(@, "object_locations", entries), !.obj.nrooms = Len(entries)]
    BY <1>7, <1>8, <1>10
  <2>2. StartsAt(a.g, names, entries)
    BY <1>3, <1>4, <1>5 DEF StartsAt
  <2> QED BY <1>4, <1>5, <2>1, <2>2
<1> QED BY <1>9, <1>10

\* The object that joins the table has the places that were appended for it.
LEMMA ObjectJoins ==
  ASSUME NEW objects, IsList(objects), NEW places, IsList(places), Belong(places, Len(objects)),
         \A i \in DOMAIN objects :
           /\ objects[i].nrooms \in Nat /\ objects[i].roomsOffset \in Nat
           /\ Owned(places, objects[i].roomsOffset, objects[i].nrooms, i - 1),
         NEW entries, IsList(entries), \A i \in DOMAIN entries : entries[i].of = Len(objects),
         NEW obj, obj.roomsOffset = Len(places), obj.nrooms = Len(entries)
  PROVE  /\ \A i \in DOMAIN Append(objects, obj) :
              /\ Append(objects, obj)[i].nrooms \in Nat /\ Append(objects, obj)[i].roomsOffset \in Nat
              /\ Owned(places \o entries, Append(objects, obj)[i].roomsOffset,
                       Append(objects, obj)[i].nrooms, i - 1)
         /\ Belong(places \o entries, Len(Append(objects, obj)))
<1> DEFINE u == Append(objects, obj)
           l == Len(objects)
<1>1. /\ l \in Nat /\ DOMAIN objects = 1..l /\ DOMAIN u = 1..(l + 1) /\ Len(u) = l + 1
      /\ \A i \in 1..l : u[i] = objects[i]
      /\ u[l + 1] = obj
      /\ Len(places) \in Nat /\ Len(entries) \in Nat /\ DOMAIN entries = 1..Len(entries)
  BY ListAppend, ListParts
<1> HIDE DEF u
<1>2. Owned(places, Len(places), 0, l)
  BY <1>1, OwnedNone
<1>3. Owned(places \o entries, Len(places), 0 + Len(entries), l)
  <2>1. 0 \in Nat /\ Len(places) + 0 = Len(places)
    BY <1>1
  <2> HIDE DEF l
  <2> QED BY <1>1, <1>2, <2>1, OwnedConcat DEF l
<1>4. \A i \in 1..l : Owned(places \o entries, objects[i].roomsOffset, objects[i].nrooms, i - 1)
  <2> SUFFICES ASSUME NEW i \in 1..l
               PROVE  Owned(places \o entries, objects[i].roomsOffset, objects[i].nrooms, i - 1)
    OBVIOUS
  <2>1. /\ objects[i].roomsOffset \in Nat /\ objects[i].nrooms \in Nat
        /\ Owned(places, objects[i].roomsOffset, objects[i].nrooms, i - 1)
    BY <1>1
  <2>2. l # i - 1
    BY <1>1
  <2> QED BY <2>1, <2>2, OwnedConcat
<1>5. Belong(places \o entries, l + 1)
  <2>1. Belong(places, l + 1)
    BY <1>1, BelongMore
  <2>2. Belong(entries, l + 1)
    BY <1>1 DEF Belong
  <2> QED BY <1>1, <2>1, <2>2, BelongConcat
<1>6. ASSUME NEW i \in DOMAIN u
      PROVE  /\ u[i].nrooms \in Nat /\ u[i].roomsOffset \in Nat
             /\ Owned(places \o entries, u[i].roomsOffset, u[i].nrooms, i - 1)
  <2>1. CASE i \in 1..l
    BY <1>1, <1>4, <2>1
  <2>2. CASE i = l + 1
    BY <1>1, <2>2, <1>3
  <2> QED BY <1>1, <2>1, <2>2
<1> QED BY <1>1, <1>5, <1>6 DEF u

\* The words of an object, and the lines of its states.
LEMMA ObjectWordsKeep ==
  ASSUME NEW h, IsGame(h), NEW b, IsBlock("objects", b),
         NEW a, a = ObjectWords([g |-> h, obj |-> NewObject(h, b), ok |-> TRUE], b.words)
  PROVE  ObjectRead(a, Len(h.tab["object_locations"]), 0) /\ WordsRead(h, a)
<1> DEFINE offset == Len(h.tab["object_locations"])
           a0 == [g |-> h, obj |-> NewObject(h, b), ok |-> TRUE]
           loop == [kind |-> "object_words", from |-> h, offset |-> offset]
<1>1. IsList(b.words)
  BY DEF IsBlock
<1>2. Rounds(loop, a0, b.words, a)
  BY <1>1, ObjectWordsRounds
<1>3. \A x : Kept(loop, x) <=> (ObjectRead(x, offset, 0) /\ WordsRead(h, x))
  BY DEF Kept
<1>4. \A x, w : Round(loop, x, w) = ObjectWord(x, w)
  BY DEF Round
<1>5. ObjectRead(a0, offset, 0) /\ WordsRead(h, a0)
  BY EvolvesNot DEF ObjectRead, WordsRead, CountKept, NewObject, ObjectFields, Size
<1> HIDE DEF loop, a0, offset
<1>6. \A x : \A w \in ToSet(b.words) : Kept(loop, x) => Kept(loop, Round(loop, x, w))
  BY <1>3, <1>4, ObjectWordKeeps
<1>7. Kept(loop, a)
  BY <1>1, <1>2, <1>3, <1>5, <1>6, RoundsKeep
<1> QED BY <1>3, <1>7 DEF offset

LEMMA StateLinesKeep ==
  ASSUME NEW h, IsGame(h), NEW a, NEW offset, NEW nrooms, ObjectRead(a, offset, nrooms), a.g = h,
         NEW lines, IsList(lines)
  PROVE  /\ ObjectRead(parseObjectStates(a, lines), offset, nrooms)
         /\ StatesRead(h, parseObjectStates(a, lines))
<1> DEFINE loop == [kind |-> "object_states", from |-> h, offset |-> offset, nrooms |-> nrooms]
           r == parseObjectStates(a, lines)
<1>1. Rounds(loop, a, lines, r)
  BY ParseObjectStatesRounds
<1>2. \A x : Kept(loop, x) <=> (ObjectRead(x, offset, nrooms) /\ StatesRead(h, x))
  BY DEF Kept
<1>3. \A x, w : Round(loop, x, w) = parseObjectState(x, w)
  BY DEF Round
<1>4. StatesRead(h, a)
  BY EvolvesNot DEF StatesRead, CountKept
<1> HIDE DEF loop, r
<1>5. \A x : \A w \in ToSet(lines) : Kept(loop, x) => Kept(loop, Round(loop, x, w))
  BY <1>2, <1>3, StateLineKeeps
<1>6. Kept(loop, r)
  BY <1>1, <1>2, <1>4, <1>5, RoundsKeep
<1> QED BY <1>2, <1>6 DEF r

LEMMA AdjectivesSound ==
  ASSUME NEW h, IsGame(h), Sound(h), NEW k, Evolves(h, k, {"adjectives"}), CountKept(h, k, "adjectives")
  PROVE  IsGame(k) /\ Sound(k)
<1>1. Evolves(h, k, SideTables)
  BY EvolvesMore DEF SideTables
<1>2. ASSUME Whole(h)
      PROVE  Counts(k)
  BY <1>2 DEF Whole, Counts, Evolves, CountKept, TableNames
<1> QED BY <1>1, <1>2, SideSound, FailedStays DEF Sound, Evolves

\* An object with its places and states.
LEMMA ObjectPushedSound ==
  ASSUME NEW h, IsGame(h), Sound(h), NEW entries, IsList(entries),
         \A i \in DOMAIN entries : entries[i].of = Len(h.tab["objects"]),
         NEW a, StatesRead(Appended(h, "object_locations", entries), a),
         ObjectRead(a, Len(h.tab["object_locations"]), Len(entries))
  PROVE  /\ IsGame(Counted(push_back(a.g, "objects", a.obj), "objects"))
         /\ Sound(Counted(push_back(a.g, "objects", a.obj), "objects"))
         /\ IsGame(LogError(a.g)) /\ Sound(LogError(a.g))
<1> DEFINE j == Appended(h, "object_locations", entries)
           k == a.g
           l == Counted(push_back(k, "objects", a.obj), "objects")
           places == h.tab["object_locations"]
           objects == h.tab["objects"]
<1>1. /\ Evolves(h, j, {"object_locations"}) /\ CountKept(h, j, "object_locations") /\ IsGame(j)
      /\ j.tab["object_locations"] = places \o entries
  <2>1. "object_locations" \in TableNames
    BY DEF TableNames
  <2>2. /\ Evolves(h, j, {"object_locations"}) /\ CountKept(h, j, "object_locations")
        /\ j.tab["object_locations"] = places \o entries
    BY <2>1, AppendedEvolves
  <2> QED BY <2>2 DEF Evolves
<1>2. /\ Evolves(j, k, {"string_index", "object_states"}) /\ CountKept(j, k, "object_states") /\ IsGame(k)
      /\ a.obj.roomsOffset = Len(places) /\ a.obj.nrooms = Len(entries)
  BY DEF StatesRead, ObjectRead, Evolves
<1> HIDE DEF j, k
<1>3. /\ Evolves(k, l, {"objects"}) /\ CountKept(k, l, "objects") /\ IsGame(l)
      /\ l.tab["objects"] = Append(k.tab["objects"], a.obj)
  <2>1. "objects" \in TableNames
    BY DEF TableNames
  <2>2. /\ Evolves(k, l, {"objects"}) /\ CountKept(k, l, "objects")
        /\ l.tab["objects"] = Append(k.tab["objects"], a.obj)
    <3>1. \A e : /\ Evolves(k, Counted(push_back(k, "objects", e), "objects"), {"objects"})
                 /\ CountKept(k, Counted(push_back(k, "objects", e), "objects"), "objects")
                 /\ Counted(push_back(k, "objects", e), "objects").tab["objects"] = Append(k.tab["objects"], e)
      BY <1>2, <2>1, PushCounted
    <3> QED BY <3>1
  <2> QED BY <2>2 DEF Evolves
<1> HIDE DEF l
<1>4. ASSUME ~Failed(l)
      PROVE  Whole(l) /\ VerbsCounted(l)
  <2>1. Whole(h) /\ VerbsCounted(h)
    <3>1. ~Failed(k)
      BY <1>2, <1>3, <1>4, FailedStays
    <3>2. ~Failed(j)
      BY <1>1, <1>2, <3>1, FailedStays
    <3>3. ~Failed(h)
      BY <1>1, <3>2, FailedStays
    <3> QED BY <3>3 DEF Sound
  <2>2. \A s \in TableNames \ {"string_index", "object_states", "object_locations", "objects"} :
          l.tab[s] = h.tab[s] /\ l.num[s] = h.num[s]
    BY <1>1, <1>2, <1>3 DEF Evolves
  <2>3. /\ l.tab["object_locations"] = places \o entries
        /\ l.tab["objects"] = Append(objects, a.obj)
    BY <1>1, <1>2, <1>3 DEF Evolves, TableNames
  <2>4. Counts(l)
    <3>1. \A s \in {"object_states", "object_locations", "objects"} : h.num[s] = Len(h.tab[s])
      BY <2>1 DEF Whole, Counts, TableNames
    <3>2. j.num["object_locations"] = Len(j.tab["object_locations"])
      BY <1>1, <3>1 DEF CountKept
    <3>3. l.num["object_locations"] = Len(l.tab["object_locations"])
      BY <1>2, <1>3, <3>2 DEF Evolves, TableNames
    <3>4. j.num["object_states"] = Len(j.tab["object_states"])
      BY <1>1, <3>1 DEF Evolves, TableNames
    <3>5. k.num["object_states"] = Len(k.tab["object_states"])
      BY <1>2, <3>4 DEF CountKept
    <3>6. l.num["object_states"] = Len(l.tab["object_states"])
      BY <1>3, <3>5 DEF Evolves, TableNames
    <3>7. k.num["objects"] = Len(k.tab["objects"])
      BY <1>1, <1>2, <3>1 DEF Evolves, TableNames
    <3>8. l.num["objects"] = Len(l.tab["objects"])
      BY <1>3, <3>7 DEF CountKept
    <3> QED BY <2>1, <2>2, <3>3, <3>6, <3>8 DEF Counts, Whole
  <2>5. VerbsCounted(l) /\ VerbsOwn(l) /\ SyntaxOwn(l) /\ RoomsOwn(l)
    BY <1>1, <1>2, <1>3, <2>2, <2>1 DEF TableNames, Evolves, Whole, VerbsOwn, SyntaxOwn, RoomsOwn,
       VerbsCounted
  <2>6. ObjectsOwn(l)
    <3>1. IsList(objects) /\ IsList(places)
      BY DEF IsGame, TableNames
    <3>2. /\ Belong(places, Len(objects))
          /\ \A i \in DOMAIN objects :
               /\ objects[i].nrooms \in Nat /\ objects[i].roomsOffset \in Nat
               /\ Owned(places, objects[i].roomsOffset, objects[i].nrooms, i - 1)
      BY <2>1 DEF Whole, ObjectsOwn
    <3> HIDE DEF objects, places
    <3>3. \A i \in DOMAIN entries : entries[i].of = Len(objects)
      BY DEF objects
    <3>4. /\ \A i \in DOMAIN Append(objects, a.obj) :
               /\ Append(objects, a.obj)[i].nrooms \in Nat /\ Append(objects, a.obj)[i].roomsOffset \in Nat
               /\ Owned(places \o entries, Append(objects, a.obj)[i].roomsOffset,
                        Append(objects, a.obj)[i].nrooms, i - 1)
          /\ Belong(places \o entries, Len(Append(objects, a.obj)))
      BY <3>1, <3>2, <3>3, ObjectJoins, <1>2
    <3> QED BY <2>3, <3>4 DEF ObjectsOwn
  <2> QED BY <2>1, <2>4, <2>5, <2>6 DEF Whole
<1>5. IsGame(LogError(k)) /\ Sound(LogError(k))
  BY <1>2, LogErrorEvolves DEF Evolves, Sound
<1> QED BY <1>3, <1>4, <1>5 DEF Sound, l, k

LEMMA ObjectSound ==
  ASSUME NEW h, IsGame(h), Sound(h), NEW b, IsBlock("objects", b)
  PROVE  IsGame(objs_proc(h, b)) /\ Sound(objs_proc(h, b))
<1> DEFINE a == ObjectWords([g |-> h, obj |-> NewObject(h, b), ok |-> TRUE], b.words)
           placed == processObjectRooms(a, b.rooms)
           stated == parseObjectStates(placed, b.states)
           offset == Len(h.tab["object_locations"])
<1>1. ObjectRead(a, offset, 0) /\ WordsRead(h, a)
  BY ObjectWordsKeep
<1> HIDE DEF a
<1>2. /\ IsGame(a.g) /\ Sound(a.g) /\ Evolves(h, a.g, {"adjectives"}) /\ IsList(b.rooms) /\ IsList(b.states)
      /\ DOMAIN a = {"g", "obj", "ok"} /\ DOMAIN a.obj = ObjectFields
  BY <1>1, AdjectivesSound DEF WordsRead, IsBlock, ObjectRead
<1>3. \/ objs_proc(h, b) = a.g
      \/ objs_proc(h, b) = [LogError(a.g) EXCEPT !.skip = TRUE]
      \/ a.ok /\ ~placed.ok /\ objs_proc(h, b) = placed.g
      \/ placed.ok /\ objs_proc(h, b) \in {LogError(stated.g), Counted(push_back(stated.g, "objects", stated.obj), "objects")}
  <2> DEFINE p == IF a.ok THEN placed ELSE a
             q == parseObjectStates(p, b.states)
  <2>1. objs_proc(h, b) =
          CASE ~a.ok -> a.g
            [] a.ok /\ b.rooms = <<>> -> [LogError(a.g) EXCEPT !.skip = TRUE]
            [] a.ok /\ b.rooms # <<>> /\ ~p.ok -> p.g
            [] p.ok /\ q.obj.state >= q.obj.nstates -> LogError(q.g)
            [] OTHER -> Counted(push_back(q.g, "objects", q.obj), "objects")
    BY DEF objs_proc, a
  <2>2. p.ok => a.ok
    OBVIOUS
  <2>3. a.ok => p = placed /\ q = stated
    OBVIOUS
  <2> HIDE DEF p, q, placed, stated
  <2>4. \/ objs_proc(h, b) = a.g
        \/ objs_proc(h, b) = [LogError(a.g) EXCEPT !.skip = TRUE]
        \/ a.ok /\ ~p.ok /\ objs_proc(h, b) = p.g
        \/ p.ok /\ objs_proc(h, b) \in {LogError(q.g), Counted(push_back(q.g, "objects", q.obj), "objects")}
    BY <2>1
  <2> QED BY <2>2, <2>3, <2>4
<1>4. IsGame([LogError(a.g) EXCEPT !.skip = TRUE]) /\ Sound([LogError(a.g) EXCEPT !.skip = TRUE])
  BY <1>2, LogErrorEvolves, EvolvesSound, SkipSound
<1>5. \/ ~placed.ok /\ \E i \in Nat : placed.g = Errors(a.g, i)
      \/ \E entries :
           /\ IsList(entries) /\ \A i \in DOMAIN entries : entries[i].of = Len(a.g.tab["objects"])
           /\ placed.g = Appended(a.g, "object_locations", entries) /\ placed.ok = a.ok
           /\ ObjectRead(placed, offset, Len(entries))
  <2>1. CASE \E i \in Nat \ {0} : placed = [a EXCEPT !.g = Errors(@, i), !.ok = FALSE]
    <3>1. PICK i \in Nat \ {0} : placed = [a EXCEPT !.g = Errors(@, i), !.ok = FALSE]
      BY <2>1
    <3> HIDE DEF placed
    <3> QED BY <1>2, <3>1
  <2>2. CASE \E entries :
               /\ IsList(entries) /\ \A i \in DOMAIN entries : entries[i].of = Len(a.g.tab["objects"])
               /\ placed = [a EXCEPT !.g = Appended(@, "object_locations", entries), !.obj.nrooms = Len(entries)]
    <3>1. PICK entries :
               /\ IsList(entries) /\ \A i \in DOMAIN entries : entries[i].of = Len(a.g.tab["objects"])
               /\ placed = [a EXCEPT !.g = Appended(@, "object_locations", entries), !.obj.nrooms = Len(entries)]
      BY <2>2
    <3> HIDE DEF placed
    <3>2. DOMAIN placed = {"g", "obj", "ok"} /\ placed.g = Appended(a.g, "object_locations", entries) /\ placed.ok = a.ok
      BY <1>2, <3>1
    <3>3. DOMAIN placed.obj = ObjectFields /\ placed.obj.roomsOffset = a.obj.roomsOffset /\ placed.obj.nrooms = Len(entries)
      BY <1>2, <3>1 DEF ObjectFields
    <3>4. ObjectRead(placed, offset, Len(entries))
      BY <1>1, <3>2, <3>3 DEF ObjectRead
    <3> QED BY <3>1, <3>2, <3>4
  <2>3. \/ \E i \in Nat \ {0} : placed = [a EXCEPT !.g = Errors(@, i), !.ok = FALSE]
        \/ \E entries :
             /\ IsList(entries) /\ \A i \in DOMAIN entries : entries[i].of = Len(a.g.tab["objects"])
             /\ StartsAt(a.g, b.rooms, entries)
             /\ placed = [a EXCEPT !.g = Appended(@, "object_locations", entries), !.obj.nrooms = Len(entries)]
    BY <1>2, ObjectRoomsAre
  <2> HIDE DEF placed
  <2> QED BY <2>1, <2>2, <2>3
<1> HIDE DEF placed
<1>6. ASSUME NEW i \in Nat, placed.g = Errors(a.g, i)
      PROVE  IsGame(placed.g) /\ Sound(placed.g)
  BY <1>2, <1>6, ErrorsEvolve, EvolvesSound
<1>7. ASSUME NEW entries, IsList(entries), \A i \in DOMAIN entries : entries[i].of = Len(a.g.tab["objects"]),
             placed.g = Appended(a.g, "object_locations", entries), ObjectRead(placed, offset, Len(entries))
      PROVE  /\ IsGame(Counted(push_back(stated.g, "objects", stated.obj), "objects"))
             /\ Sound(Counted(push_back(stated.g, "objects", stated.obj), "objects"))
             /\ IsGame(LogError(stated.g)) /\ Sound(LogError(stated.g))
  <2>1. IsGame(placed.g)
    BY <1>2, <1>7, AppendedEvolves DEF Evolves, TableNames
  <2>2. ObjectRead(stated, offset, Len(entries)) /\ StatesRead(placed.g, stated)
    BY <1>2, <1>7, <2>1, StateLinesKeep
  <2>3. a.g.tab["object_locations"] = h.tab["object_locations"]
    BY <1>2 DEF Evolves, TableNames
  <2> HIDE DEF stated
  <2> QED BY <1>2, <1>7, <2>2, <2>3, ObjectPushedSound
<1> HIDE DEF stated
<1>8. placed.ok => ~(~placed.ok /\ \E i \in Nat : placed.g = Errors(a.g, i))
  OBVIOUS
<1>9. CASE ~placed.ok /\ \E i \in Nat : placed.g = Errors(a.g, i)
  BY <1>2, <1>3, <1>4, <1>6, <1>9
<1>10. CASE \E entries :
           /\ IsList(entries) /\ \A i \in DOMAIN entries : entries[i].of = Len(a.g.tab["objects"])
           /\ placed.g = Appended(a.g, "object_locations", entries) /\ placed.ok = a.ok
           /\ ObjectRead(placed, offset, Len(entries))
  <2>1. /\ IsGame(Counted(push_back(stated.g, "objects", stated.obj), "objects"))
        /\ Sound(Counted(push_back(stated.g, "objects", stated.obj), "objects"))
        /\ IsGame(LogError(stated.g)) /\ Sound(LogError(stated.g))
    BY <1>7, <1>10
  <2>2. placed.ok = a.ok
    BY <1>10
  <2>3. objs_proc(h, b) \in {a.g, [LogError(a.g) EXCEPT !.skip = TRUE], LogError(stated.g),
                            Counted(push_back(stated.g, "objects", stated.obj), "objects")}
    BY <1>3, <2>2
  <2> QED BY <1>2, <1>4, <2>1, <2>3
<1> QED BY <1>5, <1>9, <1>10

-----------------------------------------------------------------------------
(***************************************************************************)
(* Lines of conditions and actions.                                        *)
(***************************************************************************)
\* Whatever an operation is, its parameters are a list.
LEMMA ParametersAreLists ==
  ASSUME NEW table, \A row \in table : IsList(row.kinds), NEW op \in DOMAIN Parameters(table)
  PROVE  IsList(Parameters(table)[op])
<1>1. op \in UNION {row.names : row \in table}
  BY DEF Parameters
<1>2. \E row \in table : op \in row.names
  BY <1>1
<1> DEFINE r == CHOOSE row \in table : op \in row.names
<1>3. r \in table
  BY <1>2
<1>4. Parameters(table)[op] = r.kinds
  BY <1>1 DEF Parameters
<1> HIDE DEF r
<1> QED BY <1>3, <1>4

LEMMA RowsAreLists ==
  /\ \A names : IsList(Bare(names).kinds)
  /\ \A k1, names : IsList(One(k1, names).kinds)
  /\ \A k1, k2, names : IsList(Many(<<k1, k2>>, names).kinds)
  /\ \A k1, k2, k3, names : IsList(Many(<<k1, k2, k3>>, names).kinds)
<1>1. \A k1 : IsList(<<k1>>)
  <2> SUFFICES ASSUME NEW k1 PROVE IsList(<<k1>>)
    OBVIOUS
  <2>1. <<k1>> \in Seq({k1})
    OBVIOUS
  <2> QED BY <2>1, SeqIsList
<1>2. \A k1, k2 : IsList(<<k1, k2>>)
  <2> SUFFICES ASSUME NEW k1, NEW k2 PROVE IsList(<<k1, k2>>)
    OBVIOUS
  <2>1. <<k1, k2>> \in Seq({k1, k2})
    OBVIOUS
  <2> QED BY <2>1, SeqIsList
<1>3. \A k1, k2, k3 : IsList(<<k1, k2, k3>>)
  <2> SUFFICES ASSUME NEW k1, NEW k2, NEW k3 PROVE IsList(<<k1, k2, k3>>)
    OBVIOUS
  <2>1. <<k1, k2, k3>> \in Seq({k1, k2, k3})
    OBVIOUS
  <2> QED BY <2>1, SeqIsList
<1> QED BY <1>1, <1>2, <1>3, EmptyList DEF Bare, One, Many

LEMMA OperationsTakeLists ==
  /\ \A op \in DOMAIN actions : IsList(actions[op])
  /\ \A op \in DOMAIN conditions : IsList(conditions[op])
<1>1. \A op \in DOMAIN actions : IsList(actions[op])
  BY RowsAreLists, ParametersAreLists DEF actionRows, actions
<1>2. \A op \in DOMAIN conditions : IsList(conditions[op])
  BY RowsAreLists, ParametersAreLists DEF conditionRows, conditions
<1> QED BY <1>1, <1>2

LEMMA LiteralIs ==
  ASSUME NEW h, NEW arg, NEW kind
  PROVE  /\ Literal(h, arg, kind) = [g |-> Literal(h, arg, kind).g, value |-> Literal(h, arg, kind).value]
         /\ Literal(h, arg, kind).g \in {h, LogError(h), getTextString(h, arg).g}
BY DEF Literal

\* A parameter that is refused is an error.
LEMMA ParameterEvolves ==
  ASSUME NEW h, IsGame(h), NEW arg, NEW kind
  PROVE  /\ Evolves(h, checkParameter(h, arg, kind).g, {"string_index"})
         /\ checkParameter(h, arg, kind).value = Refused => Failed(checkParameter(h, arg, kind).g)
<1>1. ASSUME NEW k, Evolves(h, k, {"string_index"}), NEW value
      PROVE  /\ Evolves(h, badParameter([g |-> k, value |-> value]).g, {"string_index"})
             /\ badParameter([g |-> k, value |-> value]).value = Refused
                  => Failed(badParameter([g |-> k, value |-> value]).g)
  BY <1>1, ErrorEvolvesOn DEF badParameter
<1>2. \E k, value : /\ Evolves(h, k, {"string_index"})
                    /\ checkParameter(h, arg, kind) = badParameter([g |-> k, value |-> value])
  <2>1. Evolves(h, h, {"string_index"}) /\ Evolves(h, LogError(h), {"string_index"})
    BY EvolvesNot, LogErrorEvolves, EvolvesMore
  <2>2. Evolves(h, getTextString(h, arg).g, {"string_index"})
    BY TextArgument
  <2>3. \/ checkParameter(h, arg, kind) = badParameter(Literal(h, arg, kind))
        \/ \E value : checkParameter(h, arg, kind) = badParameter([g |-> h, value |-> value])
    BY DEF checkParameter
  <2> QED BY <2>1, <2>2, <2>3, LiteralIs
<1> QED BY <1>1, <1>2

LEMMA CheckNextKeeps ==
  ASSUME NEW h, IsGame(h), NEW a, ParametersRead(h, a), NEW kind, NEW inLang \in BOOLEAN
  PROVE  ParametersRead(h, CheckNext(a, kind, inLang))
<1>1. Evolves(h, a.g, {"string_index"}) /\ IsGame(a.g)
  BY DEF ParametersRead, Evolves
<1>2. ASSUME NEW k, Evolves(a.g, k, {"string_index"})
      PROVE  Evolves(h, k, {"string_index"})
  BY <1>1, <1>2 DEF Evolves, IsGame
<1>3. ParametersRead(h, Missing(a, kind, inLang))
  <2>1. Evolves(a.g, LogError(a.g), {"string_index"}) /\ Failed(LogError(a.g)) /\ IsGame(LogError(a.g))
    BY <1>1, LogErrorEvolves, EvolvesMore DEF Evolves
  <2>2. Evolves(LogError(a.g), Crash(LogError(a.g)), {}) /\ Failed(Crash(LogError(a.g)))
    BY <2>1, FateEvolves
  <2>3. Evolves(a.g, Crash(LogError(a.g)), {"string_index"})
    BY <1>1, <2>1, <2>2 DEF Evolves, IsGame
  <2>4. Evolves(a.g, Errors(a.g, 2), {"string_index"}) /\ Failed(Errors(a.g, 2))
    BY <1>1, ErrorsEvolve, EvolvesMore
  <2>5. ASSUME NEW r, NEW r1, NEW r2, NEW r3, NEW r4,
               r = CASE ~inLang -> r1 [] kind = "number" -> r2 [] kind = "onoff" -> r3 [] OTHER -> r4
        PROVE  r \in {r1, r2, r3, r4}
    BY <2>5
  <2>6. ASSUME NEW k, NEW args, NEW ok, Evolves(h, k, {"string_index"}), Failed(k)
        PROVE  ParametersRead(h, Compiled(k, <<>>, args, ok))
    BY <2>6 DEF ParametersRead, Compiled
  <2>7. \/ Missing(a, kind, inLang) = Compiled(LogError(a.g), <<>>, a.args, FALSE)
        \/ Missing(a, kind, inLang) = Compiled(Crash(LogError(a.g)), <<>>, a.args, FALSE)
        \/ Missing(a, kind, inLang) = Compiled(LogError(a.g), <<>>, Append(a.args, <<kind, FALSE>>), TRUE)
        \/ Missing(a, kind, inLang) = Compiled(Errors(a.g, 2), <<>>, a.args, FALSE)
    <3> DEFINE r1 == Compiled(LogError(a.g), <<>>, a.args, FALSE)
               r2 == Compiled(Crash(LogError(a.g)), <<>>, a.args, FALSE)
               r3 == Compiled(LogError(a.g), <<>>, Append(a.args, <<kind, FALSE>>), TRUE)
               r4 == Compiled(Errors(a.g, 2), <<>>, a.args, FALSE)
    <3> HIDE DEF r1, r2, r3, r4
    <3>1. Missing(a, kind, inLang) =
            CASE ~inLang -> r1 [] kind = "number" -> r2 [] kind = "onoff" -> r3 [] OTHER -> r4
      BY DEF Missing, r1, r2, r3, r4
    <3>2. Missing(a, kind, inLang) \in {r1, r2, r3, r4}
      BY <2>5, <3>1
    <3> QED BY <3>2 DEF r1, r2, r3, r4
  <2>8. /\ Evolves(h, LogError(a.g), {"string_index"}) /\ Evolves(h, Crash(LogError(a.g)), {"string_index"})
        /\ Evolves(h, Errors(a.g, 2), {"string_index"})
    BY <1>2, <2>1, <2>3, <2>4
  <2> QED BY <2>1, <2>2, <2>4, <2>6, <2>7, <2>8
<1>4. ASSUME NEW arg, NEW rest
      PROVE  ParametersRead(h, Checked(a, rest, checkParameter(a.g, arg, kind)))
  <2> DEFINE r == checkParameter(a.g, arg, kind)
  <2>1. Evolves(h, r.g, {"string_index"}) /\ (r.value = Refused => Failed(r.g))
    BY <1>1, <1>2, ParameterEvolves
  <2> HIDE DEF r
  <2> QED BY <2>1 DEF ParametersRead, Checked, Compiled, r
<1>5. \/ CheckNext(a, kind, inLang) = a
      \/ CheckNext(a, kind, inLang) = Missing(a, kind, inLang)
      \/ \E arg, rest : CheckNext(a, kind, inLang) = Checked(a, rest, checkParameter(a.g, arg, kind))
  BY DEF CheckNext
<1> QED BY <1>3, <1>4, <1>5

LEMMA ParametersKeep ==
  ASSUME NEW h, IsGame(h), NEW words, NEW params, IsList(params), NEW inLang \in BOOLEAN
  PROVE  ParametersRead(h, checkParameters(h, words, params, inLang))
<1> DEFINE loop == [kind |-> "parameters", from |-> h, inLang |-> inLang]
           base == Compiled(h, words, <<>>, TRUE)
           r == checkParameters(h, words, params, inLang)
<1>1. Rounds(loop, base, params, r)
  BY CheckParametersRounds
<1>2. \A x : Kept(loop, x) <=> ParametersRead(h, x)
  BY DEF Kept, ParametersRead
<1>3. \A x, w : Round(loop, x, w) = CheckNext(x, w, inLang)
  BY DEF Round
<1>4. ParametersRead(h, base)
  BY EvolvesNot DEF ParametersRead, Compiled
<1> HIDE DEF loop, base, r
<1>5. \A x : \A w \in ToSet(params) : Kept(loop, x) => Kept(loop, Round(loop, x, w))
  BY <1>2, <1>3, CheckNextKeeps
<1>6. Kept(loop, r)
  BY <1>1, <1>2, <1>4, <1>5, RoundsKeep
<1> QED BY <1>2, <1>6 DEF r

LEMMA LinesCome ==
  ASSUME NEW h, IsGame(h), NEW k, Evolves(h, k, {"string_index"})
  PROVE  /\ Failed(k) => Coming(h, NoLine(k))
         /\ Coming(h, NoLine(LogError(k)))
         /\ \A not, condition, action : Coming(h, Line(k, not, condition, action))
         /\ \A not, condition, name : Coming(h, GotoRoom(k, not, condition, name))
<1>1. Failed(k) => Coming(h, NoLine(k))
  BY EmptyList DEF Coming, NoLine
<1>2. Coming(h, NoLine(LogError(k)))
  BY EmptyList, ErrorEvolvesOn DEF Coming, NoLine
<1>3. ASSUME NEW e
      PROVE  IsList(<<e>>) /\ Len(<<e>>) = 1
  <2>1. <<e>> \in Seq({e})
    OBVIOUS
  <2> QED BY <2>1, SeqIsList
<1>4. ASSUME NEW not, NEW condition, NEW action
      PROVE  Coming(h, Line(k, not, condition, action))
  <2> DEFINE e == [not |-> not, condition |-> condition, action |-> action]
  <2>1. Line(k, not, condition, action) = [g |-> k, lines |-> <<e>>]
    BY DEF Line
  <2> HIDE DEF e
  <2> QED BY <1>3, <2>1 DEF Coming
<1> QED BY <1>1, <1>2, <1>4 DEF GotoRoom

LEMMA ActingComes ==
  ASSUME NEW h, IsGame(h), NEW a, ParametersRead(h, a), NEW not, NEW condition, NEW op
  PROVE  /\ Coming(h, Acting(a, not, condition, op))
         /\ Coming(h, TravelActing(a, condition, op))
<1>1. ~a.ok => Coming(h, NoLine(a.g))
  BY LinesCome DEF ParametersRead
<1>2. Coming(h, NoLine(LogError(a.g))) /\ \A n1, c1, a1 : Coming(h, Line(a.g, n1, c1, a1))
  BY LinesCome DEF ParametersRead
<1>3. Coming(h, Acting(a, not, condition, op))
  BY <1>1, <1>2 DEF Acting
<1>4. Coming(h, TravelActing(a, condition, op))
  <2> DEFINE line == Line(a.g, FALSE, condition, Operation(op, a.args))
  <2>1. TravelActing(a, condition, op) =
          CASE ~a.ok -> NoLine(a.g) [] a.rest # <<>> -> NoLine(LogError(a.g)) [] OTHER -> line
    BY DEF TravelActing
  <2>2. Coming(h, line)
    BY <1>2
  <2> HIDE DEF line
  <2> QED BY <1>1, <1>2, <2>1, <2>2
<1> QED BY <1>3, <1>4

\* A game that has come from another.
LEMMA ComesOn ==
  ASSUME NEW h, IsGame(h), NEW k, Evolves(h, k, {"string_index"}), NEW r, Coming(k, r)
  PROVE  Coming(h, r)
BY DEF Coming, Evolves, IsGame

LEMMA ActionComes ==
  ASSUME NEW h, IsGame(h), NEW not, NEW condition, NEW words, words[1].name \in DOMAIN actions
  PROVE  Coming(h, ActionLine(h, not, condition, words))
BY OperationsTakeLists, ParametersKeep, ActingComes DEF ActionLine

LEMMA AfterConditionComes ==
  ASSUME NEW h, IsGame(h), NEW not, NEW condition, NEW words
  PROVE  Coming(h, AfterCondition(h, not, condition, words))
<1>1. Evolves(h, h, {"string_index"})
  BY EvolvesNot
<1>2. \/ AfterCondition(h, not, condition, words) = NoLine(LogError(h))
      \/ /\ words[1].name \in DOMAIN actions
         /\ AfterCondition(h, not, condition, words) = ActionLine(h, not, condition, words)
      \/ AfterCondition(h, not, condition, words) = GotoRoom(h, not, condition, words[1].name)
  BY DEF AfterCondition
<1> QED BY <1>1, <1>2, LinesCome, ActionComes

LEMMA ConditionComes ==
  ASSUME NEW h, IsGame(h), NEW not, NEW words, words[1].name \in DOMAIN conditions
  PROVE  Coming(h, ConditionLine(h, not, words))
<1> DEFINE op == words[1].name
           a == checkParameters(h, Tail(words), conditions[op], TRUE)
<1>1. ParametersRead(h, a)
  BY OperationsTakeLists, ParametersKeep
<1> HIDE DEF a
<1>2. Evolves(h, a.g, {"string_index"}) /\ IsGame(a.g)
  BY <1>1 DEF ParametersRead, Evolves
<1>3. ~a.ok => Coming(h, NoLine(a.g))
  BY <1>1, LinesCome DEF ParametersRead
<1>4. Coming(h, NoLine(LogError(a.g))) /\ \A n1, c1, a1 : Coming(h, Line(a.g, n1, c1, a1))
  BY <1>2, LinesCome
<1>5. \A n1, c1, w1 : Coming(h, AfterCondition(a.g, n1, c1, w1))
  BY <1>2, AfterConditionComes, ComesOn
<1>6. \/ ~a.ok /\ Conditional(a, not, op) = NoLine(a.g)
      \/ Conditional(a, not, op) = NoLine(LogError(a.g))
      \/ Conditional(a, not, op) = Line(a.g, not, Always, Unset(op, actions[op]))
      \/ Conditional(a, not, op) =
           AfterCondition(a.g, not, Operation(op, a.args), Leading(a.rest, PreActionWords))
  BY DEF Conditional
<1>7. ConditionLine(h, not, words) = Conditional(a, not, op)
  BY DEF ConditionLine, a
<1> QED BY <1>3, <1>4, <1>5, <1>6, <1>7

LEMMA LanguageLineComes ==
  ASSUME NEW h, IsGame(h), NEW words
  PROVE  Coming(h, langLine(h, words))
<1>1. Evolves(h, h, {"string_index"})
  BY EvolvesNot
<1>2. \E rest, not :
        \/ langLine(h, words) = NoLine(LogError(h))
        \/ langLine(h, words) = Line(h, not, Always, Operation("endparse", <<>>))
        \/ rest[1].name \in DOMAIN conditions /\ langLine(h, words) = ConditionLine(h, not, rest)
        \/ rest[1].name \in DOMAIN actions /\ langLine(h, words) = ActionLine(h, not, Always, rest)
        \/ langLine(h, words) = GotoRoom(h, not, Always, rest[1].name)
  <2> DEFINE rest == Leading(words, PreConditionWords \cup Negations)
             negations == SelectSeq(SubSeq(words, 1, Len(words) - Len(rest)), LAMBDA w : w.name \in Negations)
             not == Len(negations) % 2 = 1
  <2>1. langLine(h, words) =
          CASE rest = <<>> -> NoLine(LogError(h))
            [] rest[1].name = ALWAYSEP -> Line(h, not, Always, Operation("endparse", <<>>))
            [] rest[1].name \in DOMAIN conditions -> ConditionLine(h, not, rest)
            [] rest[1].name \in DOMAIN actions -> ActionLine(h, not, Always, rest)
            [] isRoomName(h, rest[1].name) # -1 -> GotoRoom(h, not, Always, rest[1].name)
            [] OTHER -> NoLine(LogError(h))
    BY DEF langLine
  <2> HIDE DEF rest, not, negations
  <2>2. \/ langLine(h, words) = NoLine(LogError(h))
        \/ langLine(h, words) = Line(h, not, Always, Operation("endparse", <<>>))
        \/ rest[1].name \in DOMAIN conditions /\ langLine(h, words) = ConditionLine(h, not, rest)
        \/ rest[1].name \in DOMAIN actions /\ langLine(h, words) = ActionLine(h, not, Always, rest)
        \/ langLine(h, words) = GotoRoom(h, not, Always, rest[1].name)
    BY <2>1
  <2> QED BY <2>2
<1> QED BY <1>1, <1>2, LinesCome, ConditionComes, ActionComes

LEMMA TravelActionComes ==
  ASSUME NEW h, IsGame(h), NEW condition, NEW words
  PROVE  Coming(h, TravelAction(h, condition, words))
<1> DEFINE op == words[1].name
           a == checkParameters(h, Tail(words), actions[op], FALSE)
<1>1. Evolves(h, h, {"string_index"})
  BY EvolvesNot
<1>2. op \in DOMAIN actions => ParametersRead(h, a)
  BY OperationsTakeLists, ParametersKeep
<1> HIDE DEF a
<1> DEFINE there == GotoRoom(h, FALSE, condition, op)
<1>3. TravelAction(h, condition, words) =
        CASE words = <<>> -> NoLine(LogError(h))
          [] isRoomName(h, op) # -1 -> there
          [] op \notin DOMAIN actions \/ op = "travel" -> NoLine(LogError(h))
          [] OTHER -> TravelActing(a, condition, op)
  BY DEF TravelAction, a
<1>4. Coming(h, there)
  BY <1>1, LinesCome
<1> HIDE DEF there
<1>5. Coming(h, NoLine(LogError(h))) /\ (op \in DOMAIN actions => Coming(h, TravelActing(a, condition, op)))
  BY <1>1, <1>2, LinesCome, ActingComes
<1> QED BY <1>3, <1>4, <1>5

LEMMA TravelLineComes ==
  ASSUME NEW h, IsGame(h), NEW line
  PROVE  Coming(h, processTravelCnALine(h, line))
<1> DEFINE words == Leading(line, PreConditionWords \cup {"is"} \cup Negations)
           op == words[1].name
           a == checkParameters(h, Tail(words), conditions[op], FALSE)
<1>1. Evolves(h, h, {"string_index"})
  BY EvolvesNot
<1>2. op \in DOMAIN conditions => ParametersRead(h, a)
  BY OperationsTakeLists, ParametersKeep
<1> HIDE DEF a, words
<1>3. ASSUME op \in DOMAIN conditions
      PROVE  Coming(h, TravelConditional(a, op))
  <2>1. Evolves(h, a.g, {"string_index"}) /\ IsGame(a.g)
    BY <1>2, <1>3 DEF ParametersRead, Evolves
  <2>2. ~a.ok => Coming(h, NoLine(a.g))
    BY <1>2, <1>3, LinesCome DEF ParametersRead
  <2>3. \A c1, w1 : Coming(h, TravelAction(a.g, c1, w1))
    BY <2>1, TravelActionComes, ComesOn
  <2> QED BY <2>2, <2>3 DEF TravelConditional
<1> DEFINE end == Line(h, FALSE, Always, Operation("endparse", <<>>))
<1>4. processTravelCnALine(h, line) =
        CASE words = <<>> -> NoLine(LogError(h))
          [] op = ALWAYSEP -> end
          [] op \notin DOMAIN conditions -> TravelAction(h, Always, Leading(words, TravelPreActionWords))
          [] OTHER -> TravelConditional(a, op)
  BY DEF processTravelCnALine, a, words
<1>5. Coming(h, end)
  BY <1>1, LinesCome
<1> HIDE DEF end
<1>6. Coming(h, NoLine(LogError(h))) /\ Coming(h, TravelAction(h, Always, Leading(words, TravelPreActionWords)))
  BY <1>1, LinesCome, TravelActionComes
<1> QED BY <1>3, <1>4, <1>5, <1>6

-----------------------------------------------------------------------------
(***************************************************************************)
(* Syntax lines and the lines under them.                                  *)
(***************************************************************************)
LEMMA PlaceKeeps ==
  ASSUME NEW v, LineRead(v), NEW t, NEW value
  PROVE  LineRead(Place(v, t, value)) /\ LineRead(Problem(v)) /\ LineRead([Problem(v) EXCEPT !.done = TRUE])
<1>1. LineRead(Problem(v)) /\ LineRead([Problem(v) EXCEPT !.done = TRUE])
  BY DEF LineRead, Problem
<1>2. ASSUME NEW j
      PROVE  LineRead([v EXCEPT !.wtype[j] = t, !.slot[j] = value])
  BY DEF LineRead
<1>3. \/ Place(v, t, value) = Problem(v)
      \/ \E j : Place(v, t, value) = [v EXCEPT !.wtype[j] = t, !.slot[j] = value]
  BY DEF Place
<1> QED BY <1>1, <1>2, <1>3

LEMMA SyntaxWordKeeps ==
  ASSUME NEW v, LineRead(v), NEW w, NEW known
  PROVE  LineRead(SyntaxWord(v, w, known))
BY PlaceKeeps DEF SyntaxWord

LEMMA SyntaxLineReads ==
  ASSUME NEW words, IsList(words), NEW known
  PROVE  SyntaxLine(words, known).errors \in Nat
<1> DEFINE loop == [kind |-> "syntax_words", known |-> known]
           base == setslots("none")
           r == SyntaxWords(base, words, known)
<1>1. LineRead(setslots("any")) /\ LineRead(base)
  BY DEF LineRead, setslots
<1> HIDE DEF base
<1>2. Rounds(loop, base, words, r)
  BY SyntaxWordsRounds
<1>3. \A x : Kept(loop, x) <=> LineRead(x)
  BY DEF Kept
<1>4. \A x, w : Round(loop, x, w) = SyntaxWord(x, w, known)
  BY DEF Round
<1> HIDE DEF loop, r
<1>5. \A x : \A w \in ToSet(words) : Kept(loop, x) => Kept(loop, Round(loop, x, w))
  BY <1>3, <1>4, SyntaxWordKeeps
<1>6. Kept(loop, r)
  BY <1>1, <1>2, <1>3, <1>5, RoundsKeep
<1>7. LineRead(r)
  BY <1>3, <1>6
<1>8. LineRead(SyntaxLine(words, known))
  BY <1>1, <1>7 DEF SyntaxLine, r, base
<1> QED BY <1>8 DEF LineRead

\* One line more under the syntax line that is being compiled.
LEMMA LineJoins ==
  ASSUME NEW h, IsGame(h), NEW slot, InSyntax(h, slot), NEW lines, IsList(lines), Len(lines) = 1,
         \A i \in DOMAIN lines : lines[i].of = Len(h.tab["syntax_lines"]),
         NEW k, k.tab["syntax_lines"] = h.tab["syntax_lines"],
         k.tab["language_code"] = h.tab["language_code"] \o lines,
         NEW more, more.ents = slot.ents + 1, more.lineOffset = slot.lineOffset
  PROVE  InSyntax(k, more)
<1> DEFINE syntax == h.tab["syntax_lines"]
           code == h.tab["language_code"]
           owner == Len(syntax)
<1>1. /\ IsList(syntax) /\ IsList(code) /\ Len(syntax) \in Nat /\ Len(code) \in Nat
      /\ DOMAIN syntax = 1..Len(syntax)
  BY ListParts DEF IsGame, TableNames
<1>2. /\ slot.ents \in Nat /\ slot.lineOffset \in Nat /\ slot.lineOffset + slot.ents = Len(code)
      /\ Owned(code, slot.lineOffset, slot.ents, owner)
      /\ \A i \in DOMAIN syntax :
           /\ syntax[i].ents \in Nat /\ syntax[i].lineOffset \in Nat
           /\ Owned(code, syntax[i].lineOffset, syntax[i].ents, i - 1)
      /\ Belong(code, owner + 1)
  BY DEF InSyntax
<1>4. \A i \in DOMAIN lines : lines[i].of = owner
  OBVIOUS
<1> HIDE DEF syntax, code, owner
<1>3. Len(code \o lines) = Len(code) + 1
  <2>1. Len(code \o lines) = Len(code) + Len(lines)
    BY <1>1, ListConcat, Zenon
  <2> QED BY <2>1
<1>5. Owned(code \o lines, slot.lineOffset, slot.ents + 1, owner)
  BY <1>1, <1>2, <1>4, OwnedConcat
<1>6. \A i \in DOMAIN syntax : Owned(code \o lines, syntax[i].lineOffset, syntax[i].ents, i - 1)
  <2> SUFFICES ASSUME NEW i \in DOMAIN syntax
               PROVE  Owned(code \o lines, syntax[i].lineOffset, syntax[i].ents, i - 1)
    OBVIOUS
  <2>1. /\ syntax[i].ents \in Nat /\ syntax[i].lineOffset \in Nat
        /\ Owned(code, syntax[i].lineOffset, syntax[i].ents, i - 1)
    BY <1>2
  <2>2. owner # i - 1
    BY <1>1 DEF owner
  <2> QED BY <1>1, <1>4, <2>1, <2>2, OwnedConcat
<1>7. Belong(code \o lines, owner + 1)
  <2>1. Belong(lines, owner + 1) /\ owner + 1 \in Nat
    BY <1>1, <1>4 DEF Belong, owner
  <2> QED BY <1>1, <1>2, <2>1, BelongConcat
<1>8. /\ k.tab["syntax_lines"] = syntax /\ k.tab["language_code"] = code \o lines /\ owner = Len(syntax)
  BY DEF syntax, code, owner
<1>9. more.ents \in Nat /\ more.lineOffset \in Nat /\ more.lineOffset + more.ents = Len(code) + 1
  BY <1>1, <1>2
<1> QED BY <1>2, <1>3, <1>5, <1>6, <1>7, <1>8, <1>9 DEF InSyntax

LEMMA CodedIs ==
  ASSUME NEW r
  PROVE  \E lines :
           /\ \A i \in DOMAIN r.lines : lines[i].of = Len(r.g.tab["syntax_lines"])
           /\ lines = [i \in DOMAIN r.lines |-> lines[i]]
           /\ Coded(r) = Appended(r.g, "language_code", lines)
<1> DEFINE lines == [i \in DOMAIN r.lines |-> CodeLine(r.lines[i], Size(r.g, "syntax_lines"))]
<1>1. Coded(r) = Appended(r.g, "language_code", lines)
  BY DEF Coded, Appended
<1>2. \A i \in DOMAIN r.lines : lines[i].of = Len(r.g.tab["syntax_lines"])
  BY DEF CodeLine, Size
<1>3. lines = [i \in DOMAIN r.lines |-> lines[i]]
  OBVIOUS
<1> HIDE DEF lines
<1> QED BY <1>1, <1>2, <1>3

LEMMA SyntaxEntryKeeps ==
  ASSUME NEW h, IsGame(h), NEW a, NEW slot, SyntaxRead(h, a, slot), NEW words
  PROVE  SyntaxRead(h, SyntaxEntry(a, words), slot)
<1> DEFINE r == langLine(a.g, words)
           y == [slot |-> [a.slot EXCEPT !.ents = @ + 1], g |-> Coded(r)]
           T == {"string_index", "language_code"}
<1>1. /\ Evolves(h, a.g, T) /\ IsGame(a.g) /\ CountKept(h, a.g, "language_code")
      /\ DOMAIN a.slot = SlotFields /\ a.slot.of = slot.of
      /\ Failed(a.g) \/ InSyntax(a.g, a.slot)
  BY DEF SyntaxRead, Evolves
<1>2. /\ Evolves(a.g, r.g, {"string_index"}) /\ IsGame(r.g) /\ IsList(r.lines)
      /\ Len(r.lines) = 1 \/ Failed(r.g)
  BY <1>1, LanguageLineComes DEF Coming, Evolves
<1>3. SyntaxEntry(a, words) \in {a, y}
  BY DEF SyntaxEntry
<1> HIDE DEF r
<1>4. PICK lines :
        /\ \A i \in DOMAIN r.lines : lines[i].of = Len(r.g.tab["syntax_lines"])
        /\ lines = [i \in DOMAIN r.lines |-> lines[i]]
        /\ Coded(r) = Appended(r.g, "language_code", lines)
  BY CodedIs
<1>5. IsList(lines) /\ Len(lines) = Len(r.lines) /\ DOMAIN lines = DOMAIN r.lines
  <2>1. Len(r.lines) \in Nat /\ DOMAIN r.lines = 1..Len(r.lines)
    BY <1>2, ListParts
  <2>2. lines = [i \in 1..Len(r.lines) |-> lines[i]]
    BY <1>4, <2>1
  <2> QED BY <2>1, <2>2, ListForm
<1> DEFINE k == Appended(r.g, "language_code", lines)
<1>6. /\ Evolves(r.g, k, {"language_code"}) /\ CountKept(r.g, k, "language_code")
      /\ k.tab["language_code"] = r.g.tab["language_code"] \o lines /\ IsGame(k)
  <2>1. "language_code" \in TableNames
    BY DEF TableNames
  <2>2. /\ Evolves(r.g, k, {"language_code"}) /\ CountKept(r.g, k, "language_code")
        /\ k.tab["language_code"] = r.g.tab["language_code"] \o lines
    BY <1>2, <1>5, <2>1, AppendedEvolves
  <2> QED BY <2>2 DEF Evolves
<1> HIDE DEF k
<1>7. Evolves(h, k, T)
  BY <1>1, <1>2, <1>6 DEF Evolves, IsGame
<1>8. CountKept(h, k, "language_code")
  BY <1>1, <1>2, <1>6 DEF CountKept, Evolves, TableNames
<1>9. ASSUME NEW more, more.ents = a.slot.ents + 1, more.lineOffset = a.slot.lineOffset
      PROVE  Failed(k) \/ InSyntax(k, more)
  <2> SUFFICES ASSUME ~Failed(k) PROVE InSyntax(k, more)
    OBVIOUS
  <2>1. ~Failed(r.g) /\ ~Failed(a.g)
    BY <1>1, <1>2, <1>6, FailedStays
  <2>2. /\ r.g.tab["language_code"] = a.g.tab["language_code"]
        /\ r.g.tab["syntax_lines"] = a.g.tab["syntax_lines"]
        /\ k.tab["syntax_lines"] = a.g.tab["syntax_lines"]
    BY <1>2, <1>6 DEF Evolves, TableNames
  <2>3. InSyntax(a.g, a.slot) /\ Len(lines) = 1
    BY <1>1, <1>2, <1>5, <2>1
  <2>4. \A i \in DOMAIN lines : lines[i].of = Len(a.g.tab["syntax_lines"])
    BY <1>4, <1>5, <2>2
  <2>5. k.tab["language_code"] = a.g.tab["language_code"] \o lines
    BY <1>6, <2>2
  <2> QED BY <1>1, <1>5, <1>9, <2>2, <2>3, <2>4, <2>5, LineJoins
<1>10. SyntaxRead(h, y, slot)
  <2>1. /\ DOMAIN y = {"g", "slot"} /\ y.g = k /\ DOMAIN y.slot = SlotFields
        /\ y.slot.of = a.slot.of /\ y.slot.ents = a.slot.ents + 1 /\ y.slot.lineOffset = a.slot.lineOffset
    BY <1>1, <1>4 DEF SlotFields, k
  <2>2. Failed(y.g) \/ InSyntax(y.g, y.slot)
    BY <1>9, <2>1
  <2> HIDE DEF y
  <2> QED BY <1>1, <1>7, <1>8, <2>1, <2>2 DEF SyntaxRead
<1> QED BY <1>3, <1>10

\* The syntax line that joins the table has the lines that were compiled for it.
LEMMA SyntaxJoins ==
  ASSUME NEW h, IsGame(h), NEW slot, InSyntax(h, slot), NEW k,
         k.tab["syntax_lines"] = Append(h.tab["syntax_lines"], slot),
         k.tab["language_code"] = h.tab["language_code"]
  PROVE  SyntaxOwn(k)
<1> DEFINE syntax == h.tab["syntax_lines"]
           code == h.tab["language_code"]
           u == Append(syntax, slot)
<1>1. /\ IsList(syntax) /\ IsList(code)
  BY DEF IsGame, TableNames
<1>2. /\ slot.ents \in Nat /\ slot.lineOffset \in Nat
      /\ Owned(code, slot.lineOffset, slot.ents, Len(syntax))
      /\ \A i \in DOMAIN syntax :
           /\ syntax[i].ents \in Nat /\ syntax[i].lineOffset \in Nat
           /\ Owned(code, syntax[i].lineOffset, syntax[i].ents, i - 1)
      /\ Belong(code, Len(syntax) + 1)
  BY DEF InSyntax
<1>3. k.tab["syntax_lines"] = u /\ k.tab["language_code"] = code
  OBVIOUS
<1> HIDE DEF syntax, code, u
<1>4. /\ Len(syntax) \in Nat /\ DOMAIN syntax = 1..Len(syntax)
      /\ DOMAIN u = 1..(Len(syntax) + 1) /\ Len(u) = Len(syntax) + 1
      /\ \A i \in 1..Len(syntax) : u[i] = syntax[i]
      /\ u[Len(syntax) + 1] = slot
  BY <1>1, ListAppend, ListParts DEF u
<1>5. ASSUME NEW i \in DOMAIN u
      PROVE  /\ u[i].ents \in Nat /\ u[i].lineOffset \in Nat
             /\ Owned(code, u[i].lineOffset, u[i].ents, i - 1)
  <2>1. CASE i \in DOMAIN syntax
    BY <1>2, <1>4, <2>1
  <2>2. CASE i = Len(syntax) + 1
    BY <1>4, <2>2, <1>2
  <2> QED BY <1>4, <2>1, <2>2
<1> QED BY <1>2, <1>3, <1>4, <1>5 DEF SyntaxOwn

LEMMA VerbGrows ==
  ASSUME NEW verbs, IsList(verbs), NEW syntax, IsList(syntax), NEW verbId \in 0..(Len(verbs) - 1),
         \A i \in DOMAIN verbs :
           /\ DOMAIN verbs[i] = VerbFields /\ verbs[i].ents \in Nat /\ verbs[i].slotOffset \in Nat
           /\ Owned(syntax, verbs[i].slotOffset, verbs[i].ents, i - 1),
         verbs[verbId + 1].slotOffset + verbs[verbId + 1].ents = Len(syntax),
         NEW slot, slot.of = verbId
  PROVE  /\ \A i \in DOMAIN Grown(verbs, verbId) :
              /\ DOMAIN Grown(verbs, verbId)[i] = VerbFields
              /\ Grown(verbs, verbId)[i].ents \in Nat /\ Grown(verbs, verbId)[i].slotOffset \in Nat
              /\ Owned(Append(syntax, slot), Grown(verbs, verbId)[i].slotOffset,
                       Grown(verbs, verbId)[i].ents, i - 1)
         /\ Grown(verbs, verbId)[verbId + 1].slotOffset + Grown(verbs, verbId)[verbId + 1].ents
              = Len(Append(syntax, slot))
<1> DEFINE j == verbId + 1
           u == Grown(verbs, verbId)
<1>1. /\ Len(verbs) \in Nat /\ DOMAIN verbs = 1..Len(verbs) /\ DOMAIN u = DOMAIN verbs
      /\ j \in DOMAIN verbs /\ j - 1 = verbId
  <2>1. Len(verbs) \in Nat /\ DOMAIN verbs = 1..Len(verbs)
    BY ListParts
  <2>2. DOMAIN u = DOMAIN verbs
    BY DEF Grown
  <2>3. j \in 1..Len(verbs) /\ j - 1 = verbId
    BY <2>1
  <2> QED BY <2>1, <2>2, <2>3
<1>2. /\ DOMAIN u[j] = VerbFields /\ u[j].ents = verbs[j].ents + 1 /\ u[j].slotOffset = verbs[j].slotOffset
      /\ \A i \in DOMAIN verbs : i # j => u[i] = verbs[i]
  <2>1. u = [verbs EXCEPT ![j] = [verbs[j] EXCEPT !.ents = verbs[j].ents + 1]] /\ DOMAIN verbs[j] = VerbFields
    BY <1>1 DEF Grown
  <2> HIDE DEF j, u
  <2>2. u[j] = [verbs[j] EXCEPT !.ents = verbs[j].ents + 1]
    BY <1>1, <2>1
  <2>3. /\ DOMAIN u[j] = VerbFields /\ u[j].ents = verbs[j].ents + 1 /\ u[j].slotOffset = verbs[j].slotOffset
    BY <2>1, <2>2 DEF VerbFields
  <2>4. \A i \in DOMAIN verbs : i # j => u[i] = verbs[i]
    BY <1>1, <2>1
  <2> QED BY <2>3, <2>4
<1>3. verbs[j].ents \in Nat /\ verbs[j].slotOffset \in Nat
      /\ Owned(syntax, verbs[j].slotOffset, verbs[j].ents, verbId)
      /\ verbs[j].slotOffset + verbs[j].ents = Len(syntax)
  BY <1>1
<1>4. Len(Append(syntax, slot)) = Len(syntax) + 1 /\ Len(syntax) \in Nat
  BY ListAppend, ListParts
<1> HIDE DEF j, u
<1>5. Owned(Append(syntax, slot), verbs[j].slotOffset, verbs[j].ents + 1, verbId)
  BY <1>3, OwnedAppend
<1>6. ASSUME NEW i \in DOMAIN u
      PROVE  /\ DOMAIN u[i] = VerbFields /\ u[i].ents \in Nat /\ u[i].slotOffset \in Nat
             /\ Owned(Append(syntax, slot), u[i].slotOffset, u[i].ents, i - 1)
  <2>1. CASE i = j
    BY <1>1, <1>2, <1>3, <1>5, <2>1
  <2>2. CASE i # j
    <3>1. /\ DOMAIN verbs[i] = VerbFields /\ verbs[i].ents \in Nat /\ verbs[i].slotOffset \in Nat
          /\ Owned(syntax, verbs[i].slotOffset, verbs[i].ents, i - 1) /\ u[i] = verbs[i]
      BY <1>1, <1>2, <2>2
    <3>2. slot.of # i - 1
      BY <1>1, <2>2 DEF j
    <3>3. Owned(Append(syntax, slot), verbs[i].slotOffset, verbs[i].ents, i - 1)
      BY <3>1, <3>2, OwnedAppend
    <3> QED BY <3>1, <3>3
  <2> QED BY <2>1, <2>2
<1>7. u[j].slotOffset + u[j].ents = Len(Append(syntax, slot))
  <2>1. verbs[j].slotOffset + (verbs[j].ents + 1) = Len(syntax) + 1
    <3>1. \A x, y, z \in Nat : x + y = z => x + (y + 1) = z + 1
      OBVIOUS
    <3> QED BY <1>3, <1>4, <3>1
  <2> QED BY <1>2, <1>4, <2>1
<1> QED BY <1>6, <1>7 DEF j, u

LEMMA EditedEvolves ==
  ASSUME NEW h, IsGame(h), NEW s \in TableNames, NEW t, IsList(t)
  PROVE  /\ Evolves(h, Edited(h, s, t), {s})
         /\ Edited(h, s, t).tab[s] = t /\ Edited(h, s, t).num = h.num /\ Edited(h, s, t).twice = h.twice
<1> DEFINE k == Edited(h, s, t)
<1>1. /\ DOMAIN k = GameFields /\ DOMAIN k.tab = TableNames /\ k.num = h.num
      /\ k.tab[s] = t /\ \A r \in TableNames \ {s} : k.tab[r] = h.tab[r]
      /\ k.errors = h.errors /\ k.quiet = h.quiet /\ k.dmoves = h.dmoves /\ k.fate = h.fate
      /\ k.twice = h.twice /\ k.roomIdx = h.roomIdx
  BY DEF IsGame, GameFields, Edited
<1> HIDE DEF k
<1>2. IsGame(k)
  <2>1. ASSUME NEW r \in TableNames
        PROVE  k.num[r] \in Nat /\ IsList(k.tab[r])
    BY <1>1 DEF IsGame
  <2> QED BY <1>1, <2>1 DEF IsGame
<1> QED BY <1>1, <1>2 DEF Evolves, IsGame, k

LEMMA EntriesKeep ==
  ASSUME NEW h, IsGame(h), NEW slot, DOMAIN slot = SlotFields, Failed(h) \/ InSyntax(h, slot),
         NEW lines, IsList(lines)
  PROVE  SyntaxRead(h, SyntaxEntries([g |-> h, slot |-> slot], lines), slot)
<1> DEFINE loop == [kind |-> "syntax_entries", from |-> h, slot |-> slot]
           base == [g |-> h, slot |-> slot]
           r == SyntaxEntries(base, lines)
<1>1. Rounds(loop, base, lines, r)
  BY SyntaxEntriesRounds
<1>2. \A x : Kept(loop, x) <=> SyntaxRead(h, x, slot)
  BY DEF Kept
<1>3. \A x, w : Round(loop, x, w) = SyntaxEntry(x, w)
  BY DEF Round
<1>4. SyntaxRead(h, base, slot)
  BY EvolvesNot DEF SyntaxRead, CountKept
<1> HIDE DEF loop, base, r
<1>5. \A x : \A w \in ToSet(lines) : Kept(loop, x) => Kept(loop, Round(loop, x, w))
  BY <1>2, <1>3, SyntaxEntryKeeps
<1>6. Kept(loop, r)
  BY <1>1, <1>2, <1>4, <1>5, RoundsKeep
<1> QED BY <1>2, <1>6 DEF r, base

\* A syntax line with the lines under it.
LEMMA SyntaxBlockKeeps ==
  ASSUME NEW h, NEW verbId, VerbRead(h, verbId), NEW s, IsList(s.words), IsList(s.lines)
  PROVE  VerbRead(SyntaxBlock(h, verbId, s), verbId)
<1> DEFINE v == SyntaxLine(s.words, {w \in ToSet(s.words) : KnownTag(h, w.type, w.tag)})
           slot == [wtype |-> v.wtype, slot |-> v.slot, ents |-> 0, of |-> verbId,
                    lineOffset |-> Size(h, "language_code")]
           verbs == h.tab["verbs"]
           grown == Grown(verbs, verbId)
           begun == [Errors(h, v.errors) EXCEPT !.tab["verbs"][verbId + 1].ents = @ + 1, !.vbslot = v]
           a == SyntaxEntries([g |-> begun, slot |-> slot], s.lines)
<1>1. IsGame(h) /\ (Failed(h) \/ (Whole(h) /\ InVerb(h, verbId)))
  BY DEF VerbRead
<1>2. SyntaxBlock(h, verbId, s) = EndSyntax(a)
  BY DEF SyntaxBlock
<1>3. v.errors \in Nat
  BY SyntaxLineReads
<1>4. DOMAIN slot = SlotFields /\ slot.of = verbId /\ slot.ents = 0 /\ slot.lineOffset = Len(h.tab["language_code"])
  BY DEF SlotFields, Size
<1> HIDE DEF v, slot
<1>5. /\ Evolves(h, begun, {"verbs"}) /\ IsGame(begun)
      /\ begun.tab["verbs"] = grown /\ begun.num = h.num /\ begun.twice = h.twice
  <2> DEFINE e == Errors(h, v.errors)
             d == Edited(e, "verbs", grown)
  <2>1. Evolves(h, e, {}) /\ e.tab = h.tab /\ e.num = h.num /\ e.twice = h.twice /\ IsGame(e)
    <3>1. Evolves(h, e, {})
      BY <1>1, <1>3, ErrorsEvolve
    <3>2. e.tab = h.tab /\ e.num = h.num /\ e.twice = h.twice
      BY <1>1 DEF Errors, IsGame, GameFields
    <3> QED BY <3>1, <3>2 DEF Evolves
  <2> HIDE DEF e
  <2>2. IsList(grown) /\ "verbs" \in TableNames
    BY <1>1, ListExcept DEF IsGame, TableNames, Grown
  <2>3. begun = [d EXCEPT !.vbslot = v]
    BY <2>1 DEF e, Edited, Grown
  <2> HIDE DEF grown
  <2>4. Evolves(e, d, {"verbs"}) /\ d.tab["verbs"] = grown /\ d.num = e.num /\ d.twice = e.twice /\ IsGame(d)
    <3>1. Evolves(e, d, {"verbs"}) /\ d.tab["verbs"] = grown /\ d.num = e.num /\ d.twice = e.twice
      BY <2>1, <2>2, EditedEvolves
    <3> QED BY <3>1 DEF Evolves
  <2> HIDE DEF d, begun
  <2>5. Evolves(d, begun, {}) /\ begun.tab = d.tab /\ begun.num = d.num /\ begun.twice = d.twice
    BY <2>3, <2>4 DEF Evolves, IsGame, GameFields
  <2>6. Evolves(h, begun, {"verbs"})
    BY <1>1, <2>1, <2>4, <2>5 DEF Evolves, IsGame
  <2> QED BY <2>1, <2>4, <2>5, <2>6 DEF Evolves
<1> HIDE DEF begun, grown
<1>6. \A r \in TableNames \ {"verbs"} : begun.tab[r] = h.tab[r] /\ begun.num[r] = h.num[r]
  BY <1>5 DEF Evolves
<1>7. Failed(begun) \/ (Whole(h) /\ InVerb(h, verbId) /\ InSyntax(begun, slot))
  <2> SUFFICES ASSUME ~Failed(begun) PROVE Whole(h) /\ InVerb(h, verbId) /\ InSyntax(begun, slot)
    OBVIOUS
  <2>1. Whole(h) /\ InVerb(h, verbId)
    BY <1>1, <1>5, FailedStays
  <2> DEFINE syntax == h.tab["syntax_lines"]
             code == h.tab["language_code"]
  <2>2. begun.tab["syntax_lines"] = syntax /\ begun.tab["language_code"] = code
    BY <1>6 DEF TableNames
  <2>3. IsList(syntax) /\ IsList(code)
    BY <1>1 DEF IsGame, TableNames
  <2>4. /\ \A i \in DOMAIN syntax :
             /\ syntax[i].ents \in Nat /\ syntax[i].lineOffset \in Nat
             /\ Owned(code, syntax[i].lineOffset, syntax[i].ents, i - 1)
        /\ Belong(code, Len(syntax))
    BY <2>1 DEF Whole, SyntaxOwn
  <2>5. slot.lineOffset = Len(code)
    BY <1>4
  <2> HIDE DEF syntax, code
  <2>6. Len(syntax) \in Nat /\ Len(code) \in Nat
    BY <2>3, ListParts
  <2>7. Owned(code, Len(code), 0, Len(syntax)) /\ Belong(code, Len(syntax) + 1)
    BY <2>4, <2>6, OwnedNone, BelongMore
  <2>8. InSyntax(begun, slot)
    BY <1>4, <2>2, <2>4, <2>5, <2>6, <2>7 DEF InSyntax
  <2> QED BY <2>1, <2>8
<1>8. SyntaxRead(begun, a, slot)
  BY <1>4, <1>5, <1>7, EntriesKeep
<1> HIDE DEF a
<1>9. /\ Evolves(begun, a.g, {"string_index", "language_code"}) /\ IsGame(a.g)
      /\ CountKept(begun, a.g, "language_code") /\ a.slot.of = verbId
      /\ Failed(a.g) \/ InSyntax(a.g, a.slot)
  BY <1>4, <1>8 DEF SyntaxRead, Evolves
<1> DEFINE l == Counted(push_back(a.g, "syntax_lines", a.slot), "syntax_lines")
<1>10. /\ Evolves(a.g, l, {"syntax_lines"}) /\ CountKept(a.g, l, "syntax_lines") /\ IsGame(l)
       /\ l.tab["syntax_lines"] = Append(a.g.tab["syntax_lines"], a.slot)
  <2>1. "syntax_lines" \in TableNames
    BY DEF TableNames
  <2>2. \A e : /\ Evolves(a.g, Counted(push_back(a.g, "syntax_lines", e), "syntax_lines"), {"syntax_lines"})
               /\ CountKept(a.g, Counted(push_back(a.g, "syntax_lines", e), "syntax_lines"), "syntax_lines")
               /\ Counted(push_back(a.g, "syntax_lines", e), "syntax_lines").tab["syntax_lines"]
                    = Append(a.g.tab["syntax_lines"], e)
    BY <1>9, <2>1, PushCounted
  <2> QED BY <2>2 DEF Evolves
<1>11. EndSyntax(a) = l \/ (EndSyntax(a) = a.g /\ Failed(a.g))
  BY DEF EndSyntax, Failed
<1> HIDE DEF l
<1>12. ASSUME ~Failed(l)
       PROVE  Whole(l) /\ InVerb(l, verbId)
  <2>1. ~Failed(a.g) /\ ~Failed(begun)
    BY <1>5, <1>9, <1>10, <1>12, FailedStays
  <2>2. Whole(h) /\ InVerb(h, verbId)
    BY <1>7, <2>1
  <2> DEFINE syntax == h.tab["syntax_lines"]
  <2>3. l.tab["syntax_lines"] = Append(syntax, a.slot) /\ l.tab["verbs"] = grown /\ l.num["verbs"] = h.num["verbs"]
    BY <1>5, <1>6, <1>9, <1>10 DEF Evolves, TableNames
  <2>4. \A r \in TableNames \ {"verbs", "string_index", "language_code", "syntax_lines"} :
          l.tab[r] = h.tab[r] /\ l.num[r] = h.num[r]
    BY <1>6, <1>9, <1>10 DEF Evolves
  <2>5. Counts(l)
    <3>1. h.num["language_code"] = Len(h.tab["language_code"]) /\ h.num["syntax_lines"] = Len(h.tab["syntax_lines"])
      BY <2>2 DEF Whole, Counts, TableNames
    <3>2. begun.num["language_code"] = Len(begun.tab["language_code"])
      BY <1>6, <3>1 DEF TableNames
    <3>3. a.g.num["language_code"] = Len(a.g.tab["language_code"])
      BY <1>9, <3>2 DEF CountKept
    <3>4. l.num["language_code"] = Len(l.tab["language_code"])
      BY <1>10, <3>3 DEF Evolves, TableNames
    <3>5. a.g.num["syntax_lines"] = Len(a.g.tab["syntax_lines"])
      BY <1>6, <1>9, <3>1 DEF Evolves, TableNames
    <3>6. l.num["syntax_lines"] = Len(l.tab["syntax_lines"])
      BY <1>10, <3>5 DEF CountKept
    <3> QED BY <2>2, <2>4, <3>4, <3>6 DEF Counts, Whole
  <2>6. SyntaxOwn(l)
    <3>1. InSyntax(a.g, a.slot)
      BY <1>9, <2>1
    <3>2. l.tab["language_code"] = a.g.tab["language_code"]
      BY <1>10 DEF Evolves, TableNames
    <3> QED BY <1>9, <1>10, <3>1, <3>2, SyntaxJoins
  <2>7. RoomsOwn(l) /\ ObjectsOwn(l)
    <3>1. \A r \in {"rooms", "travel", "objects", "object_locations"} : l.tab[r] = h.tab[r]
      BY <2>4 DEF TableNames
    <3>2. l.roomIdx = h.roomIdx
      BY <1>5, <1>9, <1>10 DEF Evolves
    <3> QED BY <2>2, <3>1, <3>2 DEF Whole, RoomsOwn, ObjectsOwn
  <2>8. IsList(verbs) /\ IsList(syntax)
    BY <1>1 DEF IsGame, TableNames
  <2>9. /\ \A i \in DOMAIN verbs :
             /\ DOMAIN verbs[i] = VerbFields /\ verbs[i].ents \in Nat /\ verbs[i].slotOffset \in Nat
             /\ Owned(syntax, verbs[i].slotOffset, verbs[i].ents, i - 1)
        /\ Belong(syntax, Len(verbs))
    BY <2>2 DEF Whole, VerbsOwn
  <2>10. /\ verbId \in 0..(Len(verbs) - 1)
         /\ verbs[verbId + 1].slotOffset + verbs[verbId + 1].ents = Len(syntax)
         /\ h.twice \/ h.num["verbs"] + 1 = Len(verbs)
    BY <2>2 DEF InVerb
  <2> HIDE DEF verbs, syntax
  <2>11. grown = Grown(verbs, verbId) /\ IsList(grown) /\ Len(grown) = Len(verbs)
    BY <2>8, ListExcept DEF grown, verbs, Grown
  <2>12. /\ \A i \in DOMAIN grown :
              /\ DOMAIN grown[i] = VerbFields /\ grown[i].ents \in Nat /\ grown[i].slotOffset \in Nat
              /\ Owned(Append(syntax, a.slot), grown[i].slotOffset, grown[i].ents, i - 1)
         /\ grown[verbId + 1].slotOffset + grown[verbId + 1].ents = Len(Append(syntax, a.slot))
    <3>1. \A e : e.of = verbId =>
            /\ \A i \in DOMAIN grown :
                 /\ DOMAIN grown[i] = VerbFields /\ grown[i].ents \in Nat /\ grown[i].slotOffset \in Nat
                 /\ Owned(Append(syntax, e), grown[i].slotOffset, grown[i].ents, i - 1)
            /\ grown[verbId + 1].slotOffset + grown[verbId + 1].ents = Len(Append(syntax, e))
      <4>1. verbs[verbId + 1].slotOffset + verbs[verbId + 1].ents = Len(syntax)
        BY <2>10
      <4>2. verbId \in 0..(Len(verbs) - 1)
        BY <2>10
      <4>3. \A i \in DOMAIN verbs :
              /\ DOMAIN verbs[i] = VerbFields /\ verbs[i].ents \in Nat /\ verbs[i].slotOffset \in Nat
              /\ Owned(syntax, verbs[i].slotOffset, verbs[i].ents, i - 1)
        BY <2>9
      <4>4. \A e : e.of = verbId =>
              /\ \A i \in DOMAIN Grown(verbs, verbId) :
                   /\ DOMAIN Grown(verbs, verbId)[i] = VerbFields
                   /\ Grown(verbs, verbId)[i].ents \in Nat /\ Grown(verbs, verbId)[i].slotOffset \in Nat
                   /\ Owned(Append(syntax, e), Grown(verbs, verbId)[i].slotOffset,
                            Grown(verbs, verbId)[i].ents, i - 1)
              /\ Grown(verbs, verbId)[verbId + 1].slotOffset + Grown(verbs, verbId)[verbId + 1].ents
                   = Len(Append(syntax, e))
        BY <2>8, <4>1, <4>2, <4>3, VerbGrows
      <4> HIDE DEF grown
      <4> QED BY <2>11, <4>4
    <3> QED BY <1>9, <3>1
  <2>13. Belong(Append(syntax, a.slot), Len(verbs))
    <3>1. Len(verbs) \in Nat
      BY <2>8, ListParts
    <3>2. \A e : e.of = verbId => Belong(Append(syntax, e), Len(verbs))
      BY <2>8, <2>9, <2>10, <3>1, BelongAppend
    <3> QED BY <1>9, <3>2
  <2>14. VerbsOwn(l)
    BY <2>3, <2>11, <2>12, <2>13 DEF VerbsOwn
  <2>15. InVerb(l, verbId)
    BY <1>5, <1>9, <1>10, <2>3, <2>10, <2>11, <2>12 DEF Evolves, InVerb
  <2> QED BY <2>5, <2>6, <2>7, <2>14, <2>15 DEF Whole
<1> QED BY <1>2, <1>9, <1>10, <1>11, <1>12 DEF VerbRead

-----------------------------------------------------------------------------
(***************************************************************************)
(* Verbs.                                                                  *)
(***************************************************************************)
LEMMA SyntaxBlocksKeep ==
  ASSUME NEW h, NEW verbId, VerbRead(h, verbId), NEW syntaxes, IsList(syntaxes),
         \A s \in ToSet(syntaxes) : IsList(s.words) /\ IsList(s.lines)
  PROVE  VerbRead(SyntaxBlocks(h, verbId, syntaxes), verbId)
<1> DEFINE loop == [kind |-> "syntax_blocks", verbId |-> verbId]
           r == SyntaxBlocks(h, verbId, syntaxes)
<1>1. Rounds(loop, h, syntaxes, r)
  BY SyntaxBlocksRounds
<1>2. \A x : Kept(loop, x) <=> VerbRead(x, verbId)
  BY DEF Kept
<1>3. \A x, s : Round(loop, x, s) = SyntaxBlock(x, verbId, s)
  BY DEF Round
<1> HIDE DEF loop, r
<1>4. \A x : \A s \in ToSet(syntaxes) : Kept(loop, x) => Kept(loop, Round(loop, x, s))
  BY <1>2, <1>3, SyntaxBlockKeeps
<1>5. Kept(loop, r)
  BY <1>1, <1>2, <1>4, RoundsKeep
<1> QED BY <1>2, <1>5 DEF r

\* A new verb has none.
LEMMA VerbJoins ==
  ASSUME NEW verbs, IsList(verbs), NEW syntax, Belong(syntax, Len(verbs)), VerbsHave(verbs, syntax),
         NEW id, NEW flags
  PROVE  /\ VerbsHave(Append(verbs, NewVerb(id, flags)), syntax)
         /\ Append(verbs, NewVerb(id, flags))[Len(verbs) + 1].ents = 0
<1> DEFINE verb == NewVerb(id, flags)
           u == Append(verbs, verb)
<1>1. DOMAIN verb = VerbFields /\ verb.ents = 0 /\ verb.slotOffset = 0
  BY DEF NewVerb, VerbFields
<1> HIDE DEF verb
<1>2. /\ Len(verbs) \in Nat /\ DOMAIN verbs = 1..Len(verbs) /\ DOMAIN u = 1..(Len(verbs) + 1)
      /\ \A i \in 1..Len(verbs) : u[i] = verbs[i]
      /\ u[Len(verbs) + 1] = verb
  BY ListAppend, ListParts
<1> HIDE DEF u
<1>3. Owned(syntax, 0, 0, Len(verbs))
  BY <1>2, OwnedNone
<1>4. ASSUME NEW i \in DOMAIN u
      PROVE  /\ DOMAIN u[i] = VerbFields /\ u[i].ents \in Nat /\ u[i].slotOffset \in Nat
             /\ Owned(syntax, u[i].slotOffset, u[i].ents, i - 1)
  <2>1. CASE i \in DOMAIN verbs
    BY <1>2, <2>1 DEF VerbsHave
  <2>2. CASE i = Len(verbs) + 1
    BY <1>2, <2>2, <1>1, <1>3
  <2> QED BY <1>2, <2>1, <2>2
<1> QED BY <1>1, <1>2, <1>4 DEF VerbsHave, u, verb

LEMMA VerbStarts ==
  ASSUME NEW verbs, IsList(verbs), NEW syntax, VerbsHave(verbs, syntax),
         NEW verbId \in 0..(Len(verbs) - 1), verbs[verbId + 1].ents = 0, NEW offset \in Nat
  PROVE  /\ VerbsHave(Started(verbs, verbId, offset), syntax)
         /\ Started(verbs, verbId, offset)[verbId + 1].slotOffset = offset
         /\ Started(verbs, verbId, offset)[verbId + 1].ents = 0
<1> DEFINE j == verbId + 1
           u == Started(verbs, verbId, offset)
<1>1. /\ DOMAIN verbs = 1..Len(verbs) /\ DOMAIN u = DOMAIN verbs /\ j \in DOMAIN verbs /\ j - 1 = verbId
  <2>1. Len(verbs) \in Nat /\ DOMAIN verbs = 1..Len(verbs)
    BY ListParts
  <2>2. DOMAIN u = DOMAIN verbs
    BY DEF Started
  <2>3. j \in 1..Len(verbs) /\ j - 1 = verbId
    BY <2>1
  <2> QED BY <2>1, <2>2, <2>3
<1>2. u = [verbs EXCEPT ![j] = [verbs[j] EXCEPT !.slotOffset = offset]] /\ DOMAIN verbs[j] = VerbFields
  BY <1>1 DEF Started, VerbsHave
<1>3. verbs[j].ents = 0
  OBVIOUS
<1> HIDE DEF j, u
<1>4. u[j] = [verbs[j] EXCEPT !.slotOffset = offset]
  BY <1>1, <1>2
<1>5. DOMAIN u[j] = VerbFields /\ u[j].ents = 0 /\ u[j].slotOffset = offset
  BY <1>2, <1>3, <1>4 DEF VerbFields
<1>6. \A i \in DOMAIN verbs : i # j => u[i] = verbs[i]
  BY <1>1, <1>2
<1>7. Owned(syntax, offset, 0, verbId)
  BY <1>1, <1>3, OwnedNowhere DEF VerbsHave
<1>8. ASSUME NEW i \in DOMAIN u
      PROVE  /\ DOMAIN u[i] = VerbFields /\ u[i].ents \in Nat /\ u[i].slotOffset \in Nat
             /\ Owned(syntax, u[i].slotOffset, u[i].ents, i - 1)
  <2>1. CASE i = j
    BY <1>1, <1>5, <1>7, <2>1
  <2>2. CASE i # j
    BY <1>1, <1>6, <2>2 DEF VerbsHave
  <2> QED BY <2>1, <2>2
<1> QED BY <1>5, <1>8 DEF VerbsHave, u, j

LEMMA VerbFlagged ==
  ASSUME NEW verbs, IsList(verbs), NEW syntax, VerbsHave(verbs, syntax), NEW verbId, NEW flags
  PROVE  /\ VerbsHave(Flagged(verbs, verbId, flags), syntax)
         /\ \A i \in DOMAIN verbs : /\ Flagged(verbs, verbId, flags)[i].ents = verbs[i].ents
                                    /\ Flagged(verbs, verbId, flags)[i].slotOffset = verbs[i].slotOffset
<1> DEFINE u == Flagged(verbs, verbId, flags)
<1>1. DOMAIN u = DOMAIN verbs
  BY DEF Flagged
<1>2. ASSUME NEW i \in DOMAIN verbs
      PROVE  /\ DOMAIN u[i] = VerbFields /\ u[i].ents = verbs[i].ents /\ u[i].slotOffset = verbs[i].slotOffset
  <2>1. u[i] = verbs[i] \/ u[i] = [verbs[i] EXCEPT !.flags = flags]
    BY DEF Flagged
  <2>2. DOMAIN verbs[i] = VerbFields
    BY DEF VerbsHave
  <2> HIDE DEF u
  <2> QED BY <2>1, <2>2 DEF VerbFields
<1> HIDE DEF u
<1>3. VerbsHave(u, syntax)
  BY <1>1, <1>2 DEF VerbsHave
<1> QED BY <1>2, <1>3 DEF u

\* The game when only its verbs are other ones.
LEMMA VerbsWhole ==
  ASSUME NEW h, IsGame(h), Whole(h), NEW k, Evolves(h, k, {"verbs"}),
         VerbsHave(k.tab["verbs"], h.tab["syntax_lines"]), Len(k.tab["verbs"]) >= Len(h.tab["verbs"])
  PROVE  Whole(k)
<1>1. \A s \in TableNames \ {"verbs"} : k.tab[s] = h.tab[s] /\ k.num[s] = h.num[s]
  BY DEF Evolves
<1>2. Counts(k)
  BY <1>1 DEF Counts, Whole
<1>3. /\ \A s \in {"syntax_lines", "language_code", "rooms", "travel", "objects", "object_locations"} :
           k.tab[s] = h.tab[s]
      /\ k.roomIdx = h.roomIdx
  BY <1>1 DEF TableNames, Evolves
<1>4. SyntaxOwn(k) /\ RoomsOwn(k) /\ ObjectsOwn(k)
  BY <1>3 DEF Whole, SyntaxOwn, RoomsOwn, ObjectsOwn
<1>5. VerbsOwn(k)
  <2>1. IsList(k.tab["verbs"]) /\ IsList(h.tab["verbs"])
    BY DEF Evolves, IsGame, TableNames
  <2>2. Len(k.tab["verbs"]) \in Nat /\ Len(h.tab["verbs"]) \in Nat
    BY <2>1, ListParts
  <2>3. Belong(h.tab["syntax_lines"], Len(h.tab["verbs"]))
    BY DEF Whole, VerbsOwn
  <2>4. Belong(k.tab["syntax_lines"], Len(k.tab["verbs"]))
    BY <1>3, <2>2, <2>3, BelongMore
  <2> QED BY <1>3, <2>4 DEF VerbsOwn, VerbsHave
<1> QED BY <1>2, <1>4, <1>5 DEF Whole

LEMMA TravelVerbSound ==
  ASSUME NEW h, IsGame(h), Sound(h), NEW word
  PROVE  IsGame(registerTravelVerb(h, word)) /\ Sound(registerTravelVerb(h, word))
<1> DEFINE verbs == h.tab["verbs"]
           extant == IsVerb(h, word)
           added == Counted(push_back(h, "verbs", NewVerb(word, VB_TRAVEL)), "verbs")
           marked == [h EXCEPT !.tab["verbs"][extant + 1].flags = @ + VB_TRAVEL]
<1>1. "verbs" \in TableNames /\ IsList(verbs) /\ Len(verbs) \in Nat
  BY ListParts DEF IsGame, TableNames
<1>2. Whole(h) => VerbsHave(verbs, h.tab["syntax_lines"]) /\ Belong(h.tab["syntax_lines"], Len(verbs))
  BY DEF Whole, VerbsOwn, VerbsHave
<1>3. IsGame(added) /\ Sound(added)
  <2>1. /\ Evolves(h, added, {"verbs"}) /\ CountKept(h, added, "verbs") /\ IsGame(added)
        /\ added.tab["verbs"] = Append(verbs, NewVerb(word, VB_TRAVEL))
    BY <1>1, PushCounted DEF Evolves
  <2> HIDE DEF added
  <2>2. ASSUME ~Failed(added)
        PROVE  Whole(added) /\ VerbsCounted(added)
    <3>1. Whole(h) /\ VerbsCounted(h)
      BY <2>1, <2>2, FailedStays DEF Sound
    <3>2. VerbsHave(added.tab["verbs"], h.tab["syntax_lines"])
      BY <1>1, <1>2, <2>1, <3>1, VerbJoins
    <3>3. Len(added.tab["verbs"]) >= Len(verbs)
      BY <1>1, <2>1, ListAppend
    <3>4. VerbsCounted(added)
      BY <2>1, <3>1 DEF VerbsCounted, CountKept, Evolves
    <3> QED BY <2>1, <3>1, <3>2, <3>3, <3>4, VerbsWhole
  <2> QED BY <2>1, <2>2 DEF Sound
<1>4. IsGame(marked) /\ Sound(marked)
  <2> DEFINE flags == verbs[extant + 1].flags + VB_TRAVEL
             u == Flagged(verbs, extant, flags)
  <2>1. marked = Edited(h, "verbs", u)
    BY DEF Edited, Flagged
  <2>2. IsList(u) /\ Len(u) = Len(verbs)
    BY <1>1, ListExcept DEF Flagged
  <2>3. Whole(h) => VerbsHave(u, h.tab["syntax_lines"])
    BY <1>1, <1>2, VerbFlagged
  <2> HIDE DEF u, marked
  <2>4. /\ Evolves(h, marked, {"verbs"}) /\ marked.tab["verbs"] = u /\ marked.num = h.num
        /\ marked.twice = h.twice /\ IsGame(marked)
    BY <1>1, <2>1, <2>2, EditedEvolves DEF Evolves
  <2>5. ASSUME ~Failed(marked)
        PROVE  Whole(marked) /\ VerbsCounted(marked)
    <3>1. Whole(h) /\ VerbsCounted(h)
      BY <2>4, <2>5, FailedStays DEF Sound
    <3>2. Len(marked.tab["verbs"]) >= Len(verbs)
      BY <1>1, <2>2, <2>4
    <3>3. VerbsCounted(marked)
      BY <2>2, <2>4, <3>1 DEF VerbsCounted
    <3> QED BY <2>3, <2>4, <3>1, <3>2, <3>3, VerbsWhole
  <2> QED BY <2>4, <2>5 DEF Sound
<1>5. IsGame(LogError(h)) /\ Sound(LogError(h))
  BY LogErrorEvolves, EvolvesSound
<1>6. registerTravelVerb(h, word) \in {added, marked, LogError(h)}
  BY DEF registerTravelVerb
<1> QED BY <1>3, <1>4, <1>5, <1>6

LEMMA TravelVerbsSound ==
  ASSUME NEW h, IsGame(h), Sound(h), NEW words, IsList(words)
  PROVE  IsGame(registerTravelVerbs(h, words)) /\ Sound(registerTravelVerbs(h, words))
<1> DEFINE loop == [kind |-> "travel_verbs"]
           r == registerTravelVerbs(h, words)
<1>1. Rounds(loop, h, words, r)
  BY RegisterTravelVerbsRounds
<1>2. \A x : Kept(loop, x) <=> (IsGame(x) /\ Sound(x))
  BY DEF Kept
<1>3. \A x, w : Round(loop, x, w) = registerTravelVerb(x, w)
  BY DEF Round
<1> HIDE DEF loop, r
<1>4. \A x : \A w \in ToSet(words) : Kept(loop, x) => Kept(loop, Round(loop, x, w))
  BY <1>2, <1>3, TravelVerbSound
<1>5. Kept(loop, r)
  BY <1>1, <1>2, <1>4, RoundsKeep
<1> QED BY <1>2, <1>5 DEF r

\* A verb without syntax lines begins where the next ones will be.
LEMMA StartedReads ==
  ASSUME NEW h, IsGame(h), NEW verbId,
         Failed(h) \/ (/\ Whole(h) /\ verbId \in 0..(Len(h.tab["verbs"]) - 1)
                       /\ h.tab["verbs"][verbId + 1].ents = 0
                       /\ h.twice \/ h.num["verbs"] + 1 = Len(h.tab["verbs"]))
  PROVE  VerbRead(Edited(h, "verbs", Started(h.tab["verbs"], verbId, Size(h, "syntax_lines"))), verbId)
<1> DEFINE verbs == h.tab["verbs"]
           syntax == h.tab["syntax_lines"]
           u == Started(verbs, verbId, Size(h, "syntax_lines"))
           k == Edited(h, "verbs", u)
<1>1. "verbs" \in TableNames /\ IsList(verbs) /\ IsList(syntax) /\ Len(syntax) \in Nat
  BY ListParts DEF IsGame, TableNames
<1>2. IsList(u) /\ Len(u) = Len(verbs)
  BY <1>1, ListExcept DEF Started
<1>3. Size(h, "syntax_lines") = Len(syntax)
  BY DEF Size
<1> HIDE DEF u
<1>4. /\ Evolves(h, k, {"verbs"}) /\ k.tab["verbs"] = u /\ k.num = h.num /\ k.twice = h.twice /\ IsGame(k)
  BY <1>1, <1>2, EditedEvolves DEF Evolves
<1> HIDE DEF k
<1>5. k.tab["syntax_lines"] = syntax
  BY <1>4 DEF Evolves, TableNames
<1>6. ASSUME ~Failed(k)
      PROVE  Whole(k) /\ InVerb(k, verbId)
  <2>1. /\ Whole(h) /\ verbId \in 0..(Len(verbs) - 1) /\ verbs[verbId + 1].ents = 0
        /\ h.twice \/ h.num["verbs"] + 1 = Len(verbs)
    BY <1>4, <1>6, FailedStays
  <2>2. VerbsHave(verbs, syntax)
    BY <2>1 DEF Whole, VerbsOwn, VerbsHave
  <2> HIDE DEF verbs, syntax
  <2>3. VerbsHave(u, syntax) /\ u[verbId + 1].slotOffset = Len(syntax) /\ u[verbId + 1].ents = 0
    BY <1>1, <1>3, <2>1, <2>2, VerbStarts DEF u
  <2>4. Len(k.tab["verbs"]) >= Len(verbs)
    BY <1>1, ListParts, <1>2, <1>4
  <2>5. Whole(k)
    BY <1>4, <2>1, <2>3, <2>4, VerbsWhole DEF verbs, syntax
  <2>6. InVerb(k, verbId)
    BY <1>1, <1>2, <1>4, <1>5, <2>1, <2>3 DEF InVerb
  <2> QED BY <2>5, <2>6
<1>7. VerbRead(k, verbId)
  BY <1>4, <1>6 DEF VerbRead
<1> QED BY <1>7 DEF k, u

LEMMA VerbNamed ==
  ASSUME NEW h, IsGame(h), Sound(h), NEW id
  PROVE  /\ IsGame(getLangVerb(h, id).g)
         /\ getLangVerb(h, id).verbId = -1 => Sound(getLangVerb(h, id).g)
         /\ getLangVerb(h, id).verbId # -1 => VerbRead(getLangVerb(h, id).g, getLangVerb(h, id).verbId)
<1> DEFINE verbs == h.tab["verbs"]
           extant == IsVerb(h, id)
           at(k, verbId) == [g |-> Edited(k, "verbs", Started(k.tab["verbs"], verbId, Size(k, "syntax_lines"))),
                             verbId |-> verbId]
           added == push_back(h, "verbs", NewVerb(id, 0))
           again == [h EXCEPT !.twice = TRUE]
           refused == [g |-> LogError(h), verbId |-> -1]
<1>1. "verbs" \in TableNames /\ IsList(verbs) /\ Len(verbs) \in Nat /\ extant \in -1..(Len(verbs) - 1)
  BY ListParts, IndexRange DEF TableNames, IsGame, IsVerb
<1>2. \/ getLangVerb(h, id) = refused
      \/ getLangVerb(h, id) = at(added, Len(verbs))
      \/ getLangVerb(h, id) = at(again, extant) /\ extant # -1 /\ verbs[extant + 1].ents = 0
  BY DEF getLangVerb, Edited, Started, Size
<1>3. IsGame(LogError(h)) /\ Sound(LogError(h))
  BY LogErrorEvolves, EvolvesSound
<1>4. VerbRead(at(added, Len(verbs)).g, Len(verbs))
  <2>1. \A e : /\ Evolves(h, push_back(h, "verbs", e), {"verbs"})
               /\ push_back(h, "verbs", e).tab["verbs"] = Append(verbs, e)
               /\ push_back(h, "verbs", e).num["verbs"] = h.num["verbs"]
    BY <1>1, PushEvolves
  <2>2. /\ Evolves(h, added, {"verbs"}) /\ IsGame(added)
        /\ added.tab["verbs"] = Append(verbs, NewVerb(id, 0)) /\ added.num["verbs"] = h.num["verbs"]
    BY <2>1 DEF Evolves
  <2> HIDE DEF added
  <2>3. ASSUME ~Failed(added)
        PROVE  /\ Whole(added) /\ Len(verbs) \in 0..(Len(added.tab["verbs"]) - 1)
               /\ added.tab["verbs"][Len(verbs) + 1].ents = 0
               /\ added.twice \/ added.num["verbs"] + 1 = Len(added.tab["verbs"])
    <3>1. Whole(h) /\ VerbsCounted(h)
      BY <2>2, <2>3, FailedStays DEF Sound
    <3>2. VerbsHave(verbs, h.tab["syntax_lines"]) /\ Belong(h.tab["syntax_lines"], Len(verbs))
      BY <3>1 DEF Whole, VerbsOwn, VerbsHave
    <3>3. /\ VerbsHave(added.tab["verbs"], h.tab["syntax_lines"])
          /\ added.tab["verbs"][Len(verbs) + 1].ents = 0
      BY <1>1, <2>2, <3>2, VerbJoins
    <3>4. Len(added.tab["verbs"]) = Len(verbs) + 1
      BY <1>1, <2>2, ListAppend
    <3>5. Whole(added)
      <4>1. Len(added.tab["verbs"]) >= Len(verbs)
        BY <1>1, <3>4
      <4> QED BY <2>2, <3>1, <3>3, <4>1, VerbsWhole
    <3>6. added.twice \/ added.num["verbs"] + 1 = Len(added.tab["verbs"])
      BY <2>2, <3>1, <3>4 DEF VerbsCounted, Evolves
    <3> QED BY <1>1, <3>3, <3>4, <3>5, <3>6
  <2> QED BY <2>2, <2>3, StartedReads
<1>5. ASSUME extant # -1, verbs[extant + 1].ents = 0
      PROVE  VerbRead(at(again, extant).g, extant)
  <2>1. /\ Evolves(h, again, {}) /\ IsGame(again) /\ again.tab = h.tab /\ again.twice = TRUE
    BY DEF Evolves, IsGame, GameFields
  <2> HIDE DEF again
  <2>2. ASSUME ~Failed(again)
        PROVE  Whole(again)
    <3>1. Whole(h)
      BY <2>1, <2>2, FailedStays DEF Sound
    <3>2. Evolves(h, again, {"verbs"})
      BY <2>1, EvolvesMore
    <3>3. VerbsHave(again.tab["verbs"], h.tab["syntax_lines"])
      BY <2>1, <3>1 DEF Whole, VerbsOwn, VerbsHave
    <3> QED BY <1>1, <2>1, <3>1, <3>2, <3>3, VerbsWhole
  <2>3. again.tab["verbs"] = verbs /\ extant \in 0..(Len(verbs) - 1)
    BY <1>1, <1>5, <2>1
  <2> QED BY <1>5, <2>1, <2>2, <2>3, StartedReads
<1> HIDE DEF added, again, extant
<1>6. Len(verbs) # -1
  BY <1>1
<1>7. getLangVerb(h, id) = refused => IsGame(getLangVerb(h, id).g) /\ Sound(getLangVerb(h, id).g)
                                      /\ getLangVerb(h, id).verbId = -1
  BY <1>3
<1>8. getLangVerb(h, id) = at(added, Len(verbs)) =>
        /\ IsGame(getLangVerb(h, id).g) /\ getLangVerb(h, id).verbId # -1
        /\ VerbRead(getLangVerb(h, id).g, getLangVerb(h, id).verbId)
  BY <1>4, <1>6 DEF VerbRead
<1>9. extant # -1 /\ verbs[extant + 1].ents = 0 /\ getLangVerb(h, id) = at(again, extant) =>
        /\ IsGame(getLangVerb(h, id).g) /\ getLangVerb(h, id).verbId # -1
        /\ VerbRead(getLangVerb(h, id).g, getLangVerb(h, id).verbId)
  BY <1>5 DEF VerbRead
<1> QED BY <1>2, <1>7, <1>8, <1>9

LEMMA VerbFlagKeeps ==
  ASSUME NEW h, IsGame(h), NEW a, DOMAIN a = {"g", "flags", "precedence", "stop"}, Evolves(h, a.g, {}),
         NEW word
  PROVE  /\ DOMAIN VerbFlag(a, word) = {"g", "flags", "precedence", "stop"}
         /\ Evolves(h, VerbFlag(a, word).g, {})
<1>1. Evolves(h, LogError(a.g), {})
  BY ErrorEvolvesOn
<1>2. \/ VerbFlag(a, word) = a
      \/ VerbFlag(a, word) = [a EXCEPT !.flags = 0]
      \/ VerbFlag(a, word) = [a EXCEPT !.flags = @ + VB_DREAM]
      \/ VerbFlag(a, word) = [a EXCEPT !.precedence = @ + 1]
      \/ VerbFlag(a, word) = [a EXCEPT !.g = LogError(@)]
      \/ VerbFlag(a, word) = [a EXCEPT !.g = LogError(@), !.stop = TRUE]
  BY DEF VerbFlag
<1>3. VerbFlag(a, word).g \in {a.g, LogError(a.g)}
  BY <1>2
<1>4. DOMAIN VerbFlag(a, word) = {"g", "flags", "precedence", "stop"}
  BY <1>2
<1> QED BY <1>1, <1>3, <1>4

LEMMA VerbFlagsRead ==
  ASSUME NEW h, IsGame(h), NEW verbId, NEW words, IsList(words)
  PROVE  /\ IsGame(getVerbFlags(h, verbId, words))
         /\ VerbRead(h, verbId) => VerbRead(getVerbFlags(h, verbId, words), verbId)
<1> DEFINE loop == [kind |-> "verb_flags", from |-> h]
           base == [g |-> h, flags |-> VB_TRAVEL, precedence |-> 0, stop |-> FALSE]
           a == VerbFlags(base, words)
           verbs == a.g.tab["verbs"]
           u == Flagged(verbs, verbId, a.flags)
           k == Edited(a.g, "verbs", u)
<1>1. Evolves(h, a.g, {}) /\ IsGame(a.g)
  <2>1. Rounds(loop, base, words, a)
    BY VerbFlagsRounds
  <2>2. \A x : Kept(loop, x) <=> DOMAIN x = {"g", "flags", "precedence", "stop"} /\ Evolves(h, x.g, {})
    BY DEF Kept
  <2>3. \A x, w : Round(loop, x, w) = VerbFlag(x, w)
    BY DEF Round
  <2>4. DOMAIN base = {"g", "flags", "precedence", "stop"} /\ Evolves(h, base.g, {})
    BY EvolvesNot
  <2> HIDE DEF loop, base, a
  <2>5. \A x : \A w \in ToSet(words) : Kept(loop, x) => Kept(loop, Round(loop, x, w))
    BY <2>2, <2>3, VerbFlagKeeps
  <2>6. Kept(loop, a)
    BY <2>1, <2>2, <2>4, <2>5, RoundsKeep
  <2> QED BY <2>2, <2>6 DEF Evolves
<1>2. getVerbFlags(h, verbId, words) = k
  BY DEF getVerbFlags, Edited, Flagged
<1> HIDE DEF a
<1>3. "verbs" \in TableNames /\ IsList(verbs)
  BY <1>1 DEF IsGame, TableNames
<1>4. IsList(u) /\ Len(u) = Len(verbs)
  BY <1>3, ListExcept DEF Flagged
<1> HIDE DEF u
<1>5. /\ Evolves(a.g, k, {"verbs"}) /\ k.tab["verbs"] = u /\ k.num = a.g.num /\ k.twice = a.g.twice /\ IsGame(k)
  <2>1. Evolves(a.g, k, {"verbs"}) /\ k.tab["verbs"] = u /\ k.num = a.g.num /\ k.twice = a.g.twice
    BY <1>1, <1>3, <1>4, EditedEvolves
  <2> QED BY <2>1 DEF Evolves
<1> HIDE DEF k
<1>6. ASSUME VerbRead(h, verbId), ~Failed(k)
      PROVE  Whole(k) /\ InVerb(k, verbId)
  <2>1. Whole(h) /\ InVerb(h, verbId)
    BY <1>1, <1>5, <1>6, FailedStays DEF VerbRead
  <2>2. Evolves(h, k, {"verbs"}) /\ k.twice = a.g.twice /\ (h.twice => k.twice)
    BY <1>1, <1>5 DEF Evolves, IsGame
  <2>3. verbs = h.tab["verbs"] /\ k.num["verbs"] = h.num["verbs"] /\ k.tab["syntax_lines"] = h.tab["syntax_lines"]
    BY <1>1, <1>3, <1>5, <2>2 DEF Evolves, TableNames
  <2> DEFINE syntax == h.tab["syntax_lines"]
  <2>4. VerbsHave(verbs, syntax)
    BY <2>1, <2>3 DEF Whole, VerbsOwn, VerbsHave
  <2>5. /\ verbId \in 0..(Len(verbs) - 1) /\ verbs[verbId + 1].slotOffset + verbs[verbId + 1].ents = Len(syntax)
        /\ h.twice \/ h.num["verbs"] + 1 = Len(verbs)
    BY <2>1, <2>3 DEF InVerb
  <2>6. k.tab["syntax_lines"] = syntax
    BY <2>3
  <2>7. verbs = h.tab["verbs"] /\ syntax = h.tab["syntax_lines"]
    BY <2>3
  <2> HIDE DEF verbs, syntax
  <2>8. /\ VerbsHave(u, syntax)
        /\ \A i \in DOMAIN verbs : u[i].ents = verbs[i].ents /\ u[i].slotOffset = verbs[i].slotOffset
    BY <1>3, <2>4, VerbFlagged DEF u
  <2>9. Len(verbs) \in Nat /\ DOMAIN verbs = 1..Len(verbs)
    BY <1>3, ListParts
  <2>10. verbId + 1 \in DOMAIN verbs
    BY <2>5, <2>9
  <2>11. Len(k.tab["verbs"]) >= Len(h.tab["verbs"])
    BY <1>4, <1>5, <2>7, <2>9
  <2>12. Whole(k)
    BY <1>5, <2>1, <2>2, <2>7, <2>8, <2>11, VerbsWhole
  <2>13. u[verbId + 1].ents = verbs[verbId + 1].ents /\ u[verbId + 1].slotOffset = verbs[verbId + 1].slotOffset
    BY <2>8, <2>10
  <2>14. InVerb(k, verbId)
    BY <1>4, <1>5, <2>2, <2>3, <2>5, <2>6, <2>13 DEF InVerb
  <2> QED BY <2>12, <2>14
<1> QED BY <1>2, <1>5, <1>6 DEF VerbRead

LEMMA VerbBlockSound ==
  ASSUME NEW h, IsGame(h), Sound(h), NEW b, IsList(b.words), IsList(b.syntaxes),
         \A s \in ToSet(b.syntaxes) : IsList(s.words) /\ IsList(s.lines)
  PROVE  IsGame(VerbBlock(h, b)) /\ Sound(VerbBlock(h, b))
<1> DEFINE named == getLangVerb(h, b.id)
           verbId == named.verbId
           flagged == getVerbFlags(named.g, verbId, b.words)
           written == SyntaxBlocks(flagged, verbId, b.syntaxes)
           eof == Crash(LogError(flagged))
           stray == LogError(flagged)
           l == Counted(written, "verbs")
<1>1. \/ VerbBlock(h, b) = named.g /\ verbId = -1
      \/ VerbBlock(h, b) = eof
      \/ VerbBlock(h, b) = stray
      \/ VerbBlock(h, b) = l /\ verbId # -1
  BY DEF VerbBlock
<1>2. /\ IsGame(named.g) /\ (verbId = -1 => Sound(named.g)) /\ (verbId # -1 => VerbRead(named.g, verbId))
  BY VerbNamed
<1> HIDE DEF named
<1>3. IsGame(flagged) /\ (verbId # -1 => VerbRead(flagged, verbId))
  BY <1>2, VerbFlagsRead
<1> HIDE DEF flagged
<1>4. IsGame(stray) /\ Sound(stray) /\ IsGame(eof) /\ Sound(eof)
  <2>1. IsGame(stray) /\ Failed(stray)
    BY <1>3, LogErrorEvolves DEF Evolves
  <2> HIDE DEF stray
  <2>2. IsGame(Crash(stray)) /\ Failed(Crash(stray))
    BY <2>1, FateEvolves DEF Evolves
  <2> QED BY <2>1, <2>2 DEF Sound, stray
<1>5. verbId # -1 => VerbRead(written, verbId)
  BY <1>3, SyntaxBlocksKeep
<1> HIDE DEF written
<1>6. ASSUME verbId # -1
      PROVE  IsGame(l) /\ Sound(l)
  <2>1. IsGame(written) /\ (Failed(written) \/ (Whole(written) /\ InVerb(written, verbId))) /\ "verbs" \in TableNames
    BY <1>5, <1>6 DEF VerbRead, TableNames
  <2>2. /\ Evolves(written, l, {"verbs"}) /\ IsGame(l) /\ l.tab["verbs"] = written.tab["verbs"]
        /\ l.num["verbs"] = written.num["verbs"] + 1
    <3>1. Evolves(written, l, {"verbs"})
      BY <2>1, CountedEvolves
    <3>2. l.tab["verbs"] = written.tab["verbs"] /\ l.num["verbs"] = written.num["verbs"] + 1
      BY <2>1, CountedEvolves
    <3> QED BY <3>1, <3>2 DEF Evolves
  <2> HIDE DEF l
  <2>3. ASSUME ~Failed(l)
        PROVE  Whole(l) /\ VerbsCounted(l)
    <3>1. Whole(written) /\ InVerb(written, verbId)
      BY <2>1, <2>2, <2>3, FailedStays
    <3>2. VerbsHave(l.tab["verbs"], written.tab["syntax_lines"])
      BY <2>2, <3>1 DEF Whole, VerbsOwn, VerbsHave
    <3>3. Len(l.tab["verbs"]) >= Len(written.tab["verbs"])
      <4>1. IsList(written.tab["verbs"])
        BY <2>1 DEF IsGame
      <4>2. Len(written.tab["verbs"]) \in Nat
        BY <4>1, ListParts
      <4> QED BY <2>2, <4>2
    <3>4. VerbsCounted(l)
      BY <2>2, <3>1 DEF VerbsCounted, InVerb, Evolves
    <3> QED BY <2>1, <2>2, <3>1, <3>2, <3>3, <3>4, VerbsWhole
  <2> QED BY <2>2, <2>3 DEF Sound
<1> HIDE DEF eof, stray, l
<1> QED BY <1>1, <1>2, <1>4, <1>6

LEMMA LangSound ==
  ASSUME NEW h, IsGame(h), Sound(h), NEW b, IsBlock("lang", b)
  PROVE  IsGame(lang_proc(h, b)) /\ Sound(lang_proc(h, b))
<1>1. IsList(b.words)
  BY DEF IsBlock
<1>2. b.type # "travel" => /\ IsList(b.syntaxes)
                           /\ \A s \in ToSet(b.syntaxes) : IsList(s.words) /\ IsList(s.lines)
  BY DEF IsBlock
<1>3. CASE b.type = "travel"
  BY <1>3, <1>1, TravelVerbsSound DEF lang_proc
<1>4. CASE b.type # "travel"
  BY <1>4, <1>1, <1>2, VerbBlockSound DEF lang_proc
<1> QED BY <1>3, <1>4

-----------------------------------------------------------------------------
(***************************************************************************)
(* Travel tables and synonyms.                                             *)
(***************************************************************************)
\* What does not touch the rooms leaves the room that is being compiled as it is.
LEMMA TravelOn ==
  ASSUME NEW a, NEW room, TravelRead(a, room), NEW k, Evolves(a.g, k, {"string_index"})
  PROVE  IsGame(k) /\ Sound(k) /\ (Failed(k) \/ InRoom(k, room))
<1>1. IsGame(a.g) /\ Sound(a.g) /\ (Failed(a.g) \/ InRoom(a.g, room))
  BY DEF TravelRead
<1>2. IsGame(k) /\ Sound(k)
  BY <1>1, TextsSound DEF Evolves
<1>3. k.tab["rooms"] = a.g.tab["rooms"] /\ k.tab["travel"] = a.g.tab["travel"]
  BY DEF Evolves, TableNames
<1> QED BY <1>1, <1>2, <1>3, FailedStays DEF InRoom

LEMMA TravelVerbsRead ==
  ASSUME NEW a, NEW room, TravelRead(a, room), NEW names, IsList(names)
  PROVE  TravelRead(getTravelVerbs(a, names), room)
<1> DEFINE unknown == SelectInSeq(names, LAMBDA name : IsVerb(a.g, name) = -1)
           read == IF unknown = 0 THEN names ELSE SubSeq(names, 1, unknown - 1)
           others == {i \in DOMAIN read : ~IsTravelVerb(a.g.tab["verbs"][IsVerb(a.g, read[i]) + 1])}
           verbs == {IsVerb(a.g, name) : name \in ToSet(names)}
           bad == [a EXCEPT !.g = Errors(@, Cardinality(others) + 1), !.ok = FALSE]
           good == [a EXCEPT !.g = Errors(@, Cardinality(others)), !.verbs = Ascending(verbs)]
<1>1. getTravelVerbs(a, names) \in {bad, good}
  BY DEF getTravelVerbs
<1>2. IsGame(a.g) /\ DOMAIN a = TravelFields /\ IsList(a.verbs)
  BY DEF TravelRead, TravelFields
<1>3. IsFiniteSet(DOMAIN names) /\ IsFiniteSet(ToSet(names)) /\ Len(names) \in Nat /\ DOMAIN names = 1..Len(names)
  BY ListFinite, ListParts
<1>4. unknown \in 0..Len(names)
  <2> DEFINE Unknown == {i \in 1..Len(names) : IsVerb(a.g, names[i]) = -1}
  <2>1. unknown = IF Unknown = {} THEN 0 ELSE Min(Unknown)
    BY <1>3 DEF SelectInSeq
  <2>2. ASSUME Unknown # {}
        PROVE  Min(Unknown) \in 1..Len(names)
    <3>1. Unknown \in SUBSET Nat
      BY <1>3
    <3>2. PICK i \in Unknown : \A j \in Unknown : i <= j
      <4> HIDE DEF Unknown
      <4> QED BY <2>2, <3>1, LeastNumber
    <3>3. Min(Unknown) \in Unknown
      BY <3>2 DEF Min
    <3> QED BY <3>3
  <2> HIDE DEF Unknown, unknown
  <2> QED BY <1>3, <2>1, <2>2
<1>5. DOMAIN read \subseteq 1..Len(names)
  <2> HIDE DEF unknown
  <2>1. CASE unknown = 0
    BY <1>3, <2>1
  <2>2. CASE unknown # 0
    <3>1. unknown \in 1..Len(names) /\ unknown - 1 \in 0..Len(names)
      BY <1>3, <1>4, <2>2
    <3>2. DOMAIN SubSeq(names, 1, unknown - 1) = 1..(unknown - 1)
      BY <3>1, <1>3 DEF IsList
    <3> QED BY <1>3, <2>2, <3>1, <3>2
  <2> QED BY <2>1, <2>2
<1>6. Cardinality(others) \in Nat
  <2>1. others \subseteq DOMAIN names
    BY <1>3, <1>5
  <2> HIDE DEF others
  <2> QED BY <1>3, <2>1, FS_Subset, FS_CardinalityType
<1>7. IsList(Ascending(verbs))
  <2>1. IsFiniteSet(verbs)
    <3> DEFINE index == [name \in ToSet(names) |-> IsVerb(a.g, name)]
    <3>1. index \in Surjection(ToSet(names), verbs)
      BY DEF Surjection
    <3> HIDE DEF index, verbs
    <3> QED BY <1>3, <3>1, FS_Surjection
  <2> HIDE DEF verbs
  <2> QED BY <2>1, AscendingIsList
<1> HIDE DEF unknown, read, others, verbs
<1>8. /\ Evolves(a.g, Errors(a.g, Cardinality(others)), {"string_index"})
      /\ Evolves(a.g, Errors(a.g, Cardinality(others) + 1), {"string_index"})
  BY <1>2, <1>6, ErrorsEvolve, EvolvesMore
<1>9. TravelRead(bad, room)
  <2>1. DOMAIN bad = TravelFields /\ bad.verbs = a.verbs /\ bad.g = Errors(a.g, Cardinality(others) + 1)
    BY <1>2 DEF TravelFields
  <2> HIDE DEF bad
  <2> QED BY <1>2, <1>8, <2>1, TravelOn DEF TravelRead, TravelFields
<1>10. TravelRead(good, room)
  <2>1. DOMAIN good = TravelFields /\ good.verbs = Ascending(verbs) /\ good.g = Errors(a.g, Cardinality(others))
    BY <1>2 DEF TravelFields
  <2> HIDE DEF good
  <2> QED BY <1>7, <1>8, <2>1, TravelOn DEF TravelRead, TravelFields
<1> QED BY <1>1, <1>9, <1>10

LEMMA RoomGrows ==
  ASSUME NEW rooms, IsList(rooms), NEW travel, IsList(travel), NEW room \in 0..(Len(rooms) - 1),
         RoomsHave(rooms, travel), rooms[room + 1].ttOffset + rooms[room + 1].ttlines = Len(travel),
         NEW lines, IsList(lines), \A i \in DOMAIN lines : lines[i].of = room
  PROVE  /\ RoomsHave(Lined(rooms, room, Len(lines)), travel \o lines)
         /\ Lined(rooms, room, Len(lines))[room + 1].ttOffset + Lined(rooms, room, Len(lines))[room + 1].ttlines
              = Len(travel \o lines)
<1> DEFINE j == room + 1
           count == Len(lines)
           u == Lined(rooms, room, count)
           longer == travel \o lines
<1>1. /\ Len(rooms) \in Nat /\ DOMAIN rooms = 1..Len(rooms) /\ DOMAIN u = DOMAIN rooms
      /\ j \in DOMAIN rooms /\ j - 1 = room
  <2>1. Len(rooms) \in Nat /\ DOMAIN rooms = 1..Len(rooms)
    BY ListParts
  <2>2. DOMAIN u = DOMAIN rooms
    BY DEF Lined
  <2>3. j \in 1..Len(rooms) /\ j - 1 = room
    BY <2>1
  <2> QED BY <2>1, <2>2, <2>3
<1>2. u = [rooms EXCEPT ![j] = [rooms[j] EXCEPT !.ttlines = rooms[j].ttlines + count]]
  BY <1>1 DEF Lined
<1>3. /\ rooms[j].ttlines \in Nat /\ rooms[j].ttOffset \in Nat /\ DOMAIN rooms[j] = RoomFields
      /\ Owned(travel, rooms[j].ttOffset, rooms[j].ttlines, room)
      /\ rooms[j].ttOffset + rooms[j].ttlines = Len(travel)
  BY <1>1 DEF RoomsHave
<1>4. Len(longer) = Len(travel) + count /\ Len(travel) \in Nat /\ count \in Nat
  <2>1. Len(longer) = Len(travel) + Len(lines)
    BY ListConcat, Zenon
  <2>2. Len(travel) \in Nat /\ Len(lines) \in Nat
    BY ListParts
  <2> QED BY <2>1, <2>2
<1>5. Owned(longer, rooms[j].ttOffset, rooms[j].ttlines + count, room)
  BY <1>3, OwnedConcat
<1>6. \A i \in DOMAIN rooms : i # j => Owned(longer, rooms[i].ttOffset, rooms[i].ttlines, i - 1)
  <2> SUFFICES ASSUME NEW i \in DOMAIN rooms, i # j
               PROVE  Owned(longer, rooms[i].ttOffset, rooms[i].ttlines, i - 1)
    OBVIOUS
  <2>1. /\ rooms[i].ttlines \in Nat /\ rooms[i].ttOffset \in Nat
        /\ Owned(travel, rooms[i].ttOffset, rooms[i].ttlines, i - 1)
    BY DEF RoomsHave
  <2>2. room # i - 1
    BY <1>1 DEF j
  <2> QED BY <2>1, <2>2, OwnedConcat
<1> HIDE DEF j, u, count, longer
<1>7. /\ DOMAIN u[j] = RoomFields /\ u[j].ttlines = rooms[j].ttlines + count /\ u[j].ttOffset = rooms[j].ttOffset
      /\ \A i \in DOMAIN rooms : i # j => u[i] = rooms[i]
  <2>1. u[j] = [rooms[j] EXCEPT !.ttlines = rooms[j].ttlines + count]
    BY <1>1, <1>2
  <2>2. /\ DOMAIN u[j] = RoomFields /\ u[j].ttlines = rooms[j].ttlines + count /\ u[j].ttOffset = rooms[j].ttOffset
    BY <1>3, <2>1 DEF RoomFields
  <2>3. \A i \in DOMAIN rooms : i # j => u[i] = rooms[i]
    BY <1>1, <1>2
  <2> QED BY <2>2, <2>3
<1>8. ASSUME NEW i \in DOMAIN u
      PROVE  /\ DOMAIN u[i] = RoomFields /\ u[i].ttlines \in Nat /\ u[i].ttOffset \in Nat
             /\ Owned(longer, u[i].ttOffset, u[i].ttlines, i - 1)
  <2>1. CASE i = j
    BY <1>1, <1>3, <1>4, <1>5, <1>7, <2>1
  <2>2. CASE i # j
    BY <1>1, <1>6, <1>7, <2>2 DEF RoomsHave
  <2> QED BY <2>1, <2>2
<1>9. u[j].ttOffset + u[j].ttlines = Len(longer)
  <2>1. \A x, y, z, w \in Nat : x + y = w => x + (y + z) = w + z
    OBVIOUS
  <2>2. rooms[j].ttOffset + (rooms[j].ttlines + count) = Len(travel) + count
    <3>1. rooms[j].ttOffset \in Nat /\ rooms[j].ttlines \in Nat
      BY <1>3
    <3>2. rooms[j].ttOffset + rooms[j].ttlines = Len(travel)
      BY <1>3
    <3>3. Len(travel) \in Nat /\ count \in Nat
      BY <1>4
    <3>4. PICK x \in Nat : x = rooms[j].ttOffset
      BY <3>1
    <3>5. PICK y \in Nat : y = rooms[j].ttlines
      BY <3>1
    <3>6. PICK z \in Nat : z = count
      BY <3>3
    <3>7. PICK w \in Nat : w = Len(travel)
      BY <3>3
    <3>8. x + y = w
      BY <3>2, <3>4, <3>5, <3>7
    <3>9. x + (y + z) = w + z
      BY <2>1, <3>8
    <3> QED BY <3>4, <3>5, <3>6, <3>7, <3>9
  <2> QED BY <1>4, <1>7, <2>2
<1> QED BY <1>8, <1>9 DEF RoomsHave, j, u, count, longer

\* The game when only its rooms are other ones.
LEMMA RoomsWhole ==
  ASSUME NEW h, IsGame(h), Whole(h), NEW k, Evolves(h, k, {"rooms", "travel"}),
         RoomsHave(k.tab["rooms"], k.tab["travel"]), Len(k.tab["rooms"]) = Len(h.tab["rooms"]),
         Belong(k.tab["travel"], Len(h.tab["rooms"])),
         CountKept(h, k, "rooms"), CountKept(h, k, "travel")
  PROVE  Whole(k) /\ (VerbsCounted(h) => VerbsCounted(k))
<1>1. \A s \in TableNames \ {"rooms", "travel"} : k.tab[s] = h.tab[s] /\ k.num[s] = h.num[s]
  BY DEF Evolves
<1>2. Counts(k)
  <2>1. h.num["rooms"] = Len(h.tab["rooms"]) /\ h.num["travel"] = Len(h.tab["travel"])
    BY DEF Whole, Counts, TableNames
  <2>2. k.num["rooms"] = Len(k.tab["rooms"]) /\ k.num["travel"] = Len(k.tab["travel"])
    BY <2>1 DEF CountKept
  <2> QED BY <1>1, <2>2 DEF Counts, Whole
<1>3. /\ \A s \in {"verbs", "syntax_lines", "language_code", "objects", "object_locations"} : k.tab[s] = h.tab[s]
      /\ k.roomIdx = h.roomIdx /\ k.num["verbs"] = h.num["verbs"] /\ (h.twice => k.twice)
  BY <1>1 DEF TableNames, Evolves
<1>4. VerbsOwn(k) /\ SyntaxOwn(k) /\ ObjectsOwn(k)
  BY <1>3 DEF Whole, VerbsOwn, SyntaxOwn, ObjectsOwn
<1>5. RoomsOwn(k)
  BY <1>3 DEF Whole, RoomsOwn, RoomsHave
<1> QED BY <1>2, <1>3, <1>4, <1>5 DEF Whole, VerbsCounted

\* The lines are added to the room's table, which is the last one.
LEMMA LinesJoin ==
  ASSUME NEW h, IsGame(h), Sound(h), NEW room, Failed(h) \/ InRoom(h, room),
         NEW lines, IsList(lines), \A i \in DOMAIN lines : lines[i].of = room,
         NEW k, k = Edited(Appended(h, "travel", lines), "rooms", Lined(h.tab["rooms"], room, Len(lines)))
  PROVE  IsGame(k) /\ Sound(k) /\ (Failed(k) \/ InRoom(k, room))
<1> DEFINE rooms == h.tab["rooms"]
           travel == h.tab["travel"]
           u == Lined(rooms, room, Len(lines))
           m0 == Appended(h, "travel", lines)
<1>1. "rooms" \in TableNames /\ "travel" \in TableNames /\ IsList(rooms) /\ IsList(travel)
  BY DEF IsGame, TableNames
<1>2. /\ Evolves(h, m0, {"travel"}) /\ m0.tab["travel"] = travel \o lines
      /\ CountKept(h, m0, "travel") /\ IsGame(m0)
  <2>1. /\ Evolves(h, m0, {"travel"}) /\ m0.tab["travel"] = travel \o lines /\ CountKept(h, m0, "travel")
    BY <1>1, AppendedEvolves
  <2> QED BY <2>1 DEF Evolves
<1>3. IsList(u) /\ Len(u) = Len(rooms)
  BY <1>1, ListExcept DEF Lined
<1>4. k = Edited(m0, "rooms", u)
  OBVIOUS
<1> HIDE DEF m0, u
<1>5. Evolves(m0, k, {"rooms"}) /\ k.tab["rooms"] = u /\ k.num = m0.num /\ k.twice = m0.twice
  BY <1>1, <1>2, <1>3, <1>4, EditedEvolves
<1>6. Evolves(h, k, {"rooms", "travel"}) /\ IsGame(k)
  BY <1>2, <1>5 DEF Evolves, IsGame
<1>7. k.tab["travel"] = travel \o lines /\ k.tab["rooms"] = u
  BY <1>2, <1>5 DEF Evolves, TableNames
<1>8. ASSUME ~Failed(k)
      PROVE  Whole(k) /\ VerbsCounted(k) /\ InRoom(k, room)
  <2>1. Whole(h) /\ VerbsCounted(h) /\ InRoom(h, room)
    BY <1>6, <1>8, FailedStays DEF Sound
  <2>2. RoomsHave(rooms, travel) /\ Belong(travel, Len(rooms))
    BY <2>1 DEF Whole, RoomsOwn, RoomsHave
  <2>3. room \in 0..(Len(rooms) - 1) /\ rooms[room + 1].ttOffset + rooms[room + 1].ttlines = Len(travel)
    BY <2>1 DEF InRoom
  <2>4. CountKept(h, k, "travel") /\ CountKept(h, k, "rooms")
    <3>1. k.num["travel"] = m0.num["travel"]
      BY <1>5
    <3>2. k.num["rooms"] = h.num["rooms"]
      BY <1>2, <1>5 DEF Evolves, TableNames
    <3> QED BY <1>2, <1>3, <1>7, <3>1, <3>2 DEF CountKept
  <2>5. rooms = h.tab["rooms"] /\ travel = h.tab["travel"]
    OBVIOUS
  <2> HIDE DEF rooms, travel
  <2>6. /\ RoomsHave(u, travel \o lines)
        /\ u[room + 1].ttOffset + u[room + 1].ttlines = Len(travel \o lines)
    BY <1>1, <2>2, <2>3, RoomGrows DEF u
  <2>7. Len(rooms) \in Nat
    BY <1>1, ListParts
  <2>8. Belong(lines, Len(rooms))
    BY <2>3 DEF Belong
  <2>9. Belong(travel \o lines, Len(rooms))
    BY <1>1, <2>2, <2>7, <2>8, BelongConcat
  <2>10. RoomsHave(k.tab["rooms"], k.tab["travel"]) /\ Belong(k.tab["travel"], Len(h.tab["rooms"]))
    BY <1>7, <2>5, <2>6, <2>9
  <2>11. Len(k.tab["rooms"]) = Len(h.tab["rooms"])
    BY <1>3, <1>7, <2>5
  <2>12. Whole(k) /\ VerbsCounted(k)
    BY <1>6, <2>1, <2>4, <2>10, <2>11, RoomsWhole
  <2>13. InRoom(k, room)
    BY <1>3, <1>7, <2>3, <2>6 DEF InRoom
  <2> QED BY <2>12, <2>13
<1> QED BY <1>6, <1>8 DEF Sound

LEMMA TravelLineReads ==
  ASSUME NEW a, NEW room, TravelRead(a, room), NEW r, Coming(a.g, r)
  PROVE  TravelRead(TravelLine(a, r, room), room)
<1> DEFINE lines == [i \in DOMAIN a.verbs |-> TravelTableLine(r.lines[1], a.verbs[i], room)]
           none == [a EXCEPT !.g = r.g, !.ok = FALSE]
           k == [r.g EXCEPT !.tab["travel"] = @ \o lines, !.num["travel"] = @ + Len(lines),
                            !.tab["rooms"][room + 1].ttlines = @ + Len(lines)]
           some == [a EXCEPT !.g = k]
<1>1. TravelLine(a, r, room) \in {none, some}
  BY DEF TravelLine
<1>2. DOMAIN a = TravelFields /\ IsList(a.verbs) /\ IsGame(a.g) /\ Evolves(a.g, r.g, {"string_index"})
  BY DEF TravelRead, Coming, TravelFields
<1>3. IsGame(r.g) /\ Sound(r.g) /\ (Failed(r.g) \/ InRoom(r.g, room))
  BY <1>2, TravelOn
<1>4. TravelRead(none, room)
  BY <1>2, <1>3 DEF TravelRead, TravelFields
<1>5. IsList(lines) /\ \A i \in DOMAIN lines : lines[i].of = room
  <2>1. Len(a.verbs) \in Nat /\ DOMAIN a.verbs = 1..Len(a.verbs)
    BY <1>2, ListParts
  <2>2. \A i \in DOMAIN lines : lines[i].of = room
    BY DEF TravelTableLine
  <2>3. lines = [i \in 1..Len(a.verbs) |-> lines[i]]
    BY <2>1
  <2> HIDE DEF lines
  <2> QED BY <2>1, <2>2, <2>3, ListForm
<1> HIDE DEF lines
<1>6. k = Edited(Appended(r.g, "travel", lines), "rooms", Lined(r.g.tab["rooms"], room, Len(lines)))
  BY <1>3 DEF Edited, Appended, Lined, IsGame, GameFields, TableNames
<1> HIDE DEF k
<1>7. IsGame(k) /\ Sound(k) /\ (Failed(k) \/ InRoom(k, room))
  BY <1>3, <1>5, <1>6, LinesJoin
<1>8. TravelRead(some, room)
  BY <1>2, <1>7 DEF TravelRead, TravelFields
<1> QED BY <1>1, <1>4, <1>8

LEMMA TravelEntryReads ==
  ASSUME NEW a, NEW room, TravelRead(a, room), NEW entry, entry.key = "verbs" => IsList(entry.names)
  PROVE  TravelRead(TravelEntry(a, entry, room), room)
<1> DEFINE named == getTravelVerbs(a, entry.names)
           early == [a EXCEPT !.g = LogError(@), !.ok = FALSE]
           r == processTravelCnALine(a.g, entry.words)
           line == TravelLine(a, r, room)
<1>1. \/ TravelEntry(a, entry, room) = a
      \/ entry.key = "verbs" /\ TravelEntry(a, entry, room) = named
      \/ TravelEntry(a, entry, room) = early
      \/ TravelEntry(a, entry, room) = line
  BY DEF TravelEntry
<1>2. DOMAIN a = TravelFields /\ IsGame(a.g) /\ IsList(a.verbs)
  BY DEF TravelRead, TravelFields
<1>3. entry.key = "verbs" => TravelRead(named, room)
  BY TravelVerbsRead
<1>4. TravelRead(early, room)
  <2>1. Evolves(a.g, LogError(a.g), {"string_index"})
    BY <1>2, LogErrorEvolves, EvolvesMore
  <2>2. IsGame(LogError(a.g)) /\ Sound(LogError(a.g)) /\ (Failed(LogError(a.g)) \/ InRoom(LogError(a.g), room))
    BY <2>1, TravelOn
  <2> QED BY <1>2, <2>2 DEF TravelRead, TravelFields
<1>5. TravelRead(line, room)
  <2>1. Coming(a.g, r)
    BY <1>2, TravelLineComes
  <2> HIDE DEF r
  <2> QED BY <2>1, TravelLineReads
<1> HIDE DEF named, early, line
<1> QED BY <1>1, <1>3, <1>4, <1>5

\* A room without travel lines may have them anywhere.
LEMMA RoomBegins ==
  ASSUME NEW rooms, IsList(rooms), NEW travel, RoomsHave(rooms, travel),
         NEW room \in 0..(Len(rooms) - 1), rooms[room + 1].ttlines = 0, NEW offset \in Nat
  PROVE  /\ RoomsHave(Placed(rooms, room, offset), travel)
         /\ Placed(rooms, room, offset)[room + 1].ttOffset = offset
         /\ Placed(rooms, room, offset)[room + 1].ttlines = 0
<1> DEFINE j == room + 1
           u == Placed(rooms, room, offset)
<1>1. /\ DOMAIN rooms = 1..Len(rooms) /\ DOMAIN u = DOMAIN rooms /\ j \in DOMAIN rooms /\ j - 1 = room
  <2>1. Len(rooms) \in Nat /\ DOMAIN rooms = 1..Len(rooms)
    BY ListParts
  <2>2. DOMAIN u = DOMAIN rooms
    BY DEF Placed
  <2>3. j \in 1..Len(rooms) /\ j - 1 = room
    BY <2>1
  <2> QED BY <2>1, <2>2, <2>3
<1>2. u = [rooms EXCEPT ![j] = [rooms[j] EXCEPT !.ttOffset = offset]] /\ DOMAIN rooms[j] = RoomFields
  BY <1>1 DEF Placed, RoomsHave
<1>3. rooms[j].ttlines = 0
  OBVIOUS
<1> HIDE DEF j, u
<1>4. u[j] = [rooms[j] EXCEPT !.ttOffset = offset]
  BY <1>1, <1>2
<1>5. DOMAIN u[j] = RoomFields /\ u[j].ttlines = 0 /\ u[j].ttOffset = offset
  BY <1>2, <1>3, <1>4 DEF RoomFields
<1>6. \A i \in DOMAIN rooms : i # j => u[i] = rooms[i]
  BY <1>1, <1>2
<1>7. Owned(travel, offset, 0, room)
  BY <1>1, <1>3, OwnedNowhere DEF RoomsHave
<1>8. ASSUME NEW i \in DOMAIN u
      PROVE  /\ DOMAIN u[i] = RoomFields /\ u[i].ttlines \in Nat /\ u[i].ttOffset \in Nat
             /\ Owned(travel, u[i].ttOffset, u[i].ttlines, i - 1)
  <2>1. CASE i = j
    BY <1>1, <1>5, <1>7, <2>1
  <2>2. CASE i # j
    BY <1>1, <1>6, <2>2 DEF RoomsHave
  <2> QED BY <2>1, <2>2
<1> QED BY <1>5, <1>8 DEF RoomsHave, u, j

LEMMA TravelEntriesRead ==
  ASSUME NEW a, NEW room, TravelRead(a, room), NEW entries, IsList(entries),
         \A e \in ToSet(entries) : e.key = "verbs" => IsList(e.names)
  PROVE  TravelRead(TravelEntries(a, entries, room), room)
<1> DEFINE loop == [kind |-> "travel_entries", room |-> room]
           r == TravelEntries(a, entries, room)
<1>1. Rounds(loop, a, entries, r)
  BY TravelEntriesRounds
<1>2. \A x : Kept(loop, x) <=> TravelRead(x, room)
  BY DEF Kept
<1>3. \A x, e : Round(loop, x, e) = TravelEntry(x, e, room)
  BY DEF Round
<1> HIDE DEF loop, r
<1>4. \A x : \A e \in ToSet(entries) : Kept(loop, x) => Kept(loop, Round(loop, x, e))
  <2> SUFFICES ASSUME NEW x, NEW e \in ToSet(entries), TravelRead(x, room)
               PROVE  TravelRead(TravelEntry(x, e, room), room)
    BY <1>2, <1>3
  <2>1. e.key = "verbs" => IsList(e.names)
    OBVIOUS
  <2> QED BY <2>1, TravelEntryReads
<1>5. Kept(loop, r)
  BY <1>1, <1>2, <1>4, RoundsKeep
<1> QED BY <1>2, <1>5 DEF r

LEMMA TravelSound ==
  ASSUME NEW h, IsGame(h), Sound(h), NEW b, IsBlock("travel", b)
  PROVE  IsGame(trav_proc(h, b)) /\ Sound(trav_proc(h, b))
<1> DEFINE room == isRoomName(h, b.id)
           rooms == h.tab["rooms"]
           travel == h.tab["travel"]
           u == Placed(rooms, room, Size(h, "travel"))
           begun == Edited(h, "rooms", u)
           base == [g |-> begun, verbs |-> <<>>, ok |-> TRUE]
           a == TravelEntries(base, b.entries, room)
<1>1. \/ trav_proc(h, b) = LogError(h)
      \/ trav_proc(h, b) = a.g /\ room # -1 /\ rooms[room + 1].ttlines = 0
  BY DEF trav_proc, Edited, Placed
<1>2. IsGame(LogError(h)) /\ Sound(LogError(h))
  BY LogErrorEvolves, EvolvesSound
<1>3. ASSUME room # -1, rooms[room + 1].ttlines = 0
      PROVE  IsGame(a.g) /\ Sound(a.g)
  <2>1. "rooms" \in TableNames /\ IsList(rooms) /\ IsList(travel) /\ Len(travel) \in Nat
    BY ListParts DEF IsGame, TableNames
  <2>2. IsList(u) /\ Len(u) = Len(rooms)
    BY <2>1, ListExcept DEF Placed
  <2>3. Size(h, "travel") = Len(travel)
    BY DEF Size
  <2> HIDE DEF u
  <2>4. /\ Evolves(h, begun, {"rooms"}) /\ begun.tab["rooms"] = u /\ begun.num = h.num /\ IsGame(begun)
        /\ begun.tab["travel"] = travel
    <3>1. Evolves(h, begun, {"rooms"}) /\ begun.tab["rooms"] = u /\ begun.num = h.num
      BY <2>1, <2>2, EditedEvolves
    <3> QED BY <3>1 DEF Evolves, TableNames
  <2> HIDE DEF begun
  <2>5. ASSUME ~Failed(begun)
        PROVE  Whole(begun) /\ VerbsCounted(begun) /\ InRoom(begun, room)
    <3>1. Whole(h) /\ VerbsCounted(h)
      BY <2>4, <2>5, FailedStays DEF Sound
    <3>2. /\ RoomsHave(rooms, travel) /\ Belong(travel, Len(rooms))
          /\ \A name \in DOMAIN h.roomIdx : h.roomIdx[name] \in 0..(Len(rooms) - 1)
      BY <3>1 DEF Whole, RoomsOwn, RoomsHave
    <3>3. room \in 0..(Len(rooms) - 1)
      BY <1>3, <3>2 DEF isRoomName
    <3>4. rooms[room + 1].ttlines = 0 /\ rooms = h.tab["rooms"] /\ travel = h.tab["travel"]
      BY <1>3
    <3> HIDE DEF rooms, travel, room
    <3>5. RoomsHave(u, travel) /\ u[room + 1].ttOffset = Len(travel) /\ u[room + 1].ttlines = 0
      BY <2>1, <2>3, <3>2, <3>3, <3>4, RoomBegins DEF u
    <3>6. Evolves(h, begun, {"rooms", "travel"})
      BY <2>4, EvolvesMore
    <3>7. CountKept(h, begun, "rooms") /\ CountKept(h, begun, "travel")
      BY <2>2, <2>4, <3>4 DEF CountKept
    <3>8. /\ RoomsHave(begun.tab["rooms"], begun.tab["travel"])
          /\ Len(begun.tab["rooms"]) = Len(h.tab["rooms"])
          /\ Belong(begun.tab["travel"], Len(h.tab["rooms"]))
      BY <2>2, <2>4, <3>2, <3>4, <3>5
    <3>9. Whole(begun) /\ VerbsCounted(begun)
      BY <3>1, <3>6, <3>7, <3>8, RoomsWhole
    <3>10. InRoom(begun, room)
      BY <2>1, <2>2, <2>4, <3>3, <3>5 DEF InRoom
    <3> QED BY <3>9, <3>10
  <2>6. TravelRead(base, room)
    <3>1. IsList(base.verbs)
      BY EmptyList
    <3>2. Sound(begun) /\ (Failed(begun) \/ InRoom(begun, room))
      BY <2>5 DEF Sound
    <3> QED BY <2>4, <3>1, <3>2 DEF TravelRead
  <2>7. IsList(b.entries) /\ \A e \in ToSet(b.entries) : e.key = "verbs" => IsList(e.names)
    BY DEF IsBlock
  <2> HIDE DEF base
  <2>8. TravelRead(a, room)
    BY <2>6, <2>7, TravelEntriesRead
  <2> QED BY <2>8 DEF TravelRead
<1> HIDE DEF a
<1> QED BY <1>1, <1>2, <1>3

LEMMA SynonymsSound ==
  ASSUME NEW h, IsGame(h), Sound(h), NEW b, IsBlock("syns", b)
  PROVE  IsGame(syn_proc(h, b)) /\ Sound(syn_proc(h, b))
<1> DEFINE type == IF isNoun(h, b.id) # -1 THEN "noun" ELSE "verb"
           aliases == IF isNoun(h, b.id) # -1 THEN isNoun(h, b.id) ELSE IsVerb(h, b.id)
           fitting == {i \in DOMAIN b.words : b.words[i] # TooLong}
           words == [k \in 1..Cardinality(fitting) |-> b.words[Ascending(fitting)[k]]]
           entries == [k \in DOMAIN words |-> [word |-> words[k], type |-> type, aliases |-> aliases]]
           long == Cardinality(DOMAIN b.words \ fitting)
           e0 == Errors(h, long)
           k0 == [e0 EXCEPT !.tab["synonyms"] = @ \o entries]
<1>1. syn_proc(h, b) \in {LogError(h), k0}
  BY DEF syn_proc
<1>2. IsGame(LogError(h)) /\ Sound(LogError(h))
  BY LogErrorEvolves, EvolvesSound
<1>3. long \in Nat /\ Cardinality(fitting) \in Nat
  <2>1. IsFiniteSet(DOMAIN b.words)
    BY ListFinite DEF IsBlock
  <2>2. fitting \subseteq DOMAIN b.words /\ (DOMAIN b.words \ fitting) \subseteq DOMAIN b.words
    OBVIOUS
  <2> HIDE DEF fitting
  <2> QED BY <2>1, <2>2, FS_Subset, FS_CardinalityType
<1>4. IsList(entries)
  <2>1. entries = [k \in 1..Cardinality(fitting) |-> entries[k]]
    OBVIOUS
  <2> HIDE DEF entries, fitting
  <2> QED BY <1>3, <2>1, ListForm
<1> HIDE DEF entries, long
<1>5. IsGame(e0) /\ Sound(e0)
  BY <1>3, ErrorsEvolve, EvolvesSound
<1> HIDE DEF e0
<1>6. IsGame(k0) /\ Sound(k0)
  <2> DEFINE t == e0.tab["synonyms"] \o entries
  <2>1. k0 = Edited(e0, "synonyms", t)
    BY DEF Edited
  <2>2. "synonyms" \in TableNames /\ IsList(t)
    BY <1>5, <1>4, ListConcat DEF IsGame, TableNames
  <2> HIDE DEF t, k0
  <2>3. Evolves(e0, k0, {"synonyms"}) /\ k0.num = e0.num
    BY <1>5, <2>1, <2>2, EditedEvolves
  <2>4. Evolves(e0, k0, SideTables)
    BY <2>3, EvolvesMore DEF SideTables
  <2>5. ASSUME Whole(e0)
        PROVE  Counts(k0)
    BY <2>3, <2>5 DEF Whole, Counts, Evolves, TableNames
  <2>6. Failed(k0) \/ Counts(k0)
    BY <1>5, <2>3, <2>5, FailedStays DEF Sound
  <2> QED BY <1>5, <2>3, <2>4, <2>6, SideSound DEF Evolves
<1> QED BY <1>1, <1>2, <1>6

\* After syns.txt the synonyms are counted, too.
LEMMA SynonymsEndSound ==
  ASSUME NEW h, IsGame(h), Sound(h)
  PROVE  /\ IsGame(syn_end(h)) /\ Sound(syn_end(h))
         /\ syn_end(h).num["synonyms"] = Len(syn_end(h).tab["synonyms"])
<1> DEFINE k == syn_end(h)
<1>1. k = [h EXCEPT !.num["synonyms"] = Len(h.tab["synonyms"])]
  BY DEF syn_end, Size
<1>2. IsList(h.tab["synonyms"]) /\ Len(h.tab["synonyms"]) \in Nat /\ "synonyms" \in TableNames
  BY ListParts DEF IsGame, TableNames
<1> HIDE DEF k
<1>3. /\ DOMAIN k = GameFields /\ k.tab = h.tab /\ DOMAIN k.num = TableNames
      /\ k.num["synonyms"] = Len(h.tab["synonyms"])
      /\ \A s \in TableNames \ {"synonyms"} : k.num[s] = h.num[s]
      /\ k.errors = h.errors /\ k.quiet = h.quiet /\ k.dmoves = h.dmoves /\ k.fate = h.fate
      /\ k.twice = h.twice /\ k.roomIdx = h.roomIdx
  BY <1>1, <1>2 DEF IsGame, GameFields
<1>4. IsGame(k)
  BY <1>2, <1>3 DEF IsGame
<1>5. Evolves(h, k, {"synonyms"})
  BY <1>3, <1>4 DEF Evolves, IsGame
<1>6. Evolves(h, k, SideTables)
  BY <1>5, EvolvesMore DEF SideTables
<1>7. ASSUME Whole(h)
      PROVE  Counts(k)
  BY <1>3, <1>7 DEF Whole, Counts, TableNames
<1>8. Failed(k) \/ Counts(k)
  BY <1>5, <1>7, FailedStays DEF Sound
<1>9. Sound(k)
  BY <1>6, <1>8, SideSound
<1> QED BY <1>3, <1>4, <1>9 DEF k

-----------------------------------------------------------------------------
(***************************************************************************)
(* The list of modules.                                                    *)
(***************************************************************************)
LEMMA PathIsSeq ==
  ASSUME NEW y, NEW S, NEW k \in Nat, \A i \in 1..(k + 1) : y[i] \in S
  PROVE  /\ Path(y, k) \in Seq(S) /\ Len(Path(y, k)) = k + 1
         /\ \A i \in 1..(k + 1) : Path(y, k)[i] = y[i]
BY DEF Path

LEMMA FollowOn ==
  ASSUME NEW links, NEW y, NEW k \in Nat, Nodes(y, k, links), NEW j \in 0..k
  PROVE  Follow(Path(y, j), links) = IF j = k THEN Path(y, k) ELSE Path(y, j + 1)
<1> DEFINE S == ModuleIDs \cup {Null}
<1>1. \A i \in 1..(k + 1) : y[i] \in S
  BY DEF Nodes
<1> HIDE DEF S
<1>2. /\ Path(y, j) \in Seq(S) /\ Len(Path(y, j)) = j + 1
      /\ \A i \in 1..(j + 1) : Path(y, j)[i] = y[i]
  <2>1. j \in Nat /\ \A i \in 1..(j + 1) : y[i] \in S
    BY <1>1
  <2> QED BY <2>1, PathIsSeq
<1>3. Last(Path(y, j)) = y[j + 1]
  BY <1>2 DEF Last
<1>4. CASE j = k
  BY <1>3, <1>4 DEF Follow, Nodes
<1>5. CASE j # k
  <2> DEFINE s == Append(Path(y, j), y[j + 2])
  <2>1. j + 1 \in 1..k /\ j + 2 \in 1..(k + 1) /\ y[j + 1] # Null /\ links[y[j + 1]] = y[j + 2]
    BY <1>5 DEF Nodes
  <2>2. Follow(Path(y, j), links) = s
    BY <1>3, <2>1 DEF Follow
  <2>3. /\ Path(y, j + 1) \in Seq(S) /\ Len(Path(y, j + 1)) = j + 2
        /\ \A i \in 1..(j + 2) : Path(y, j + 1)[i] = y[i]
    BY <1>1, <1>5, PathIsSeq
  <2>4. s \in Seq(S) /\ Len(s) = j + 2 /\ \A i \in 1..(j + 2) : s[i] = y[i]
    BY <1>1, <1>2, <2>1, AppendProperties
  <2> HIDE DEF s
  <2> QED BY <1>5, <2>2, <2>3, <2>4, SeqEqual
<1> QED BY <1>4, <1>5

\* Four links are enough for a list of four modules.
LEMMA WalkIsPath ==
  ASSUME NEW links, NEW y, NEW k \in 0..4, Nodes(y, k, links)
  PROVE  Walk(y[1], links) = Path(y, k)
<1>1. <<y[1]>> = Path(y, 0)
  <2> DEFINE S == {y[1]}
  <2>1. Path(y, 0) \in Seq(S) /\ Len(Path(y, 0)) = 1 /\ Path(y, 0)[1] = y[1]
    <3>1. PICK z \in Nat : z = 0
      OBVIOUS
    <3>2. /\ Path(y, z) \in Seq(S) /\ Len(Path(y, z)) = z + 1
          /\ \A i \in 1..(z + 1) : Path(y, z)[i] = y[i]
      <4>1. \A i \in 1..(z + 1) : y[i] \in S
        BY <3>1
      <4> HIDE DEF S
      <4> QED BY <4>1, PathIsSeq
    <3> QED BY <3>1, <3>2
  <2>2. <<y[1]>> \in Seq(S) /\ Len(<<y[1]>>) = 1 /\ <<y[1]>>[1] = y[1]
    OBVIOUS
  <2> HIDE DEF S
  <2> QED BY <2>1, <2>2, SeqEqual
<1>2. \A j \in 0..k : Follow(Path(y, j), links) = IF j = k THEN Path(y, k) ELSE Path(y, j + 1)
  BY FollowOn
<1>3. Walk(y[1], links) = Follow(Follow(Follow(Follow(Path(y, 0), links), links), links), links)
  BY <1>1 DEF Walk
<1>4. CASE k = 0
  BY <1>2, <1>3, <1>4
<1>5. CASE k = 1
  BY <1>2, <1>5, <1>3
<1>6. CASE k = 2
  BY <1>2, <1>6, <1>3
<1>7. CASE k = 3
  BY <1>2, <1>7, <1>3
<1>8. CASE k = 4
  BY <1>2, <1>8, <1>3
<1> QED BY <1>4, <1>5, <1>6, <1>7, <1>8

LEMMA ModuleOrderIs ==
  /\ Len(ModuleOrder) = 4
  /\ \A i \in 1..4 : ModuleOrder[i] # Null /\ ModuleOrder[i] \in ModuleIDs
  /\ \A i, j \in 1..4 : ModuleOrder[i] = ModuleOrder[j] => i = j
  /\ ModuleOrder[1] = "logging" /\ ModuleOrder[2] = "cmdline"
<1>1. /\ ModuleOrder[1] = "logging" /\ ModuleOrder[2] = "cmdline"
      /\ ModuleOrder[3] = "compiler" /\ ModuleOrder[4] = "strings" /\ Len(ModuleOrder) = 4
  BY DEF ModuleOrder
<1>2. \A i \in 1..4 : i = 1 \/ i = 2 \/ i = 3 \/ i = 4
  OBVIOUS
<1> QED BY <1>1, <1>2 DEF ModuleIDs, Null

LEMMA WalksOfList ==
  ASSUME NEW r, NEW k \in 0..4, Linked(r, k)
  PROVE  /\ Walk(r.head, r.next) = [i \in 1..(k + 1) |-> IF i <= k THEN ModuleOrder[i] ELSE Null]
         /\ Walk(r.tail, r.prev) = [i \in 1..(k + 1) |-> IF i <= k THEN ModuleOrder[k + 1 - i] ELSE Null]
<1>1. Walk(r.head, r.next) = [i \in 1..(k + 1) |-> IF i <= k THEN ModuleOrder[i] ELSE Null]
  <2> DEFINE y == [i \in 1..(k + 1) |-> IF i <= k THEN ModuleOrder[i] ELSE Null]
  <2>1. y[1] = r.head
    BY DEF Linked
  <2>2. y[k + 1] = Null /\ Path(y, k) = y
    BY DEF Path
  <2>3. \A i \in 1..k : y[i] # Null /\ r.next[y[i]] = y[i + 1]
    <3> TAKE i \in 1..k
    <3>1. y[i] = ModuleOrder[i] /\ y[i + 1] = IF i = k THEN Null ELSE ModuleOrder[i + 1]
      OBVIOUS
    <3> HIDE DEF y
    <3> QED BY <3>1, ModuleOrderIs DEF Linked
  <2>4. \A i \in 1..(k + 1) : y[i] \in ModuleIDs \cup {Null}
    BY ModuleOrderIs
  <2> HIDE DEF y
  <2>5. Walk(y[1], r.next) = Path(y, k)
    BY <2>2, <2>3, <2>4, WalkIsPath DEF Nodes
  <2> QED BY <2>1, <2>2, <2>5 DEF y
<1>2. Walk(r.tail, r.prev) = [i \in 1..(k + 1) |-> IF i <= k THEN ModuleOrder[k + 1 - i] ELSE Null]
  <2> DEFINE y == [i \in 1..(k + 1) |-> IF i <= k THEN ModuleOrder[k + 1 - i] ELSE Null]
  <2>1. y[1] = r.tail
    BY DEF Linked
  <2>2. y[k + 1] = Null /\ Path(y, k) = y
    BY DEF Path
  <2>3. \A i \in 1..k : y[i] # Null /\ r.prev[y[i]] = y[i + 1]
    <3> TAKE i \in 1..k
    <3>1. y[i] = ModuleOrder[k + 1 - i] /\ y[i + 1] = IF i = k THEN Null ELSE ModuleOrder[k - i]
      OBVIOUS
    <3>2. k + 1 - i \in 1..k /\ (k + 1 - i = 1 <=> i = k) /\ (k + 1 - i) - 1 = k - i
      OBVIOUS
    <3> HIDE DEF y
    <3>3. r.prev[ModuleOrder[k + 1 - i]] = IF i = k THEN Null ELSE ModuleOrder[k - i]
      BY <3>2 DEF Linked
    <3> QED BY <3>1, <3>2, <3>3, ModuleOrderIs
  <2>4. \A i \in 1..(k + 1) : y[i] \in ModuleIDs \cup {Null}
    BY ModuleOrderIs
  <2> HIDE DEF y
  <2>5. Walk(y[1], r.prev) = Path(y, k)
    BY <2>2, <2>3, <2>4, WalkIsPath DEF Nodes
  <2> QED BY <2>1, <2>2, <2>5 DEF y
<1> QED BY <1>1, <1>2

\* What is on the list, and that it is the same in both directions.
LEMMA ListHolds ==
  ASSUME NEW r, NEW k \in 0..4, Linked(r, k)
  PROVE  /\ Tail(Reverse(Walk(r.tail, r.prev))) = Front(Walk(r.head, r.next))
         /\ \A id : GetModule(r, id) <=> \E i \in 1..k : id = ModuleOrder[i]
<1> DEFINE f == Walk(r.head, r.next)
           b == Walk(r.tail, r.prev)
           S == ModuleIDs \cup {Null}
<1>1. /\ f = [i \in 1..(k + 1) |-> IF i <= k THEN ModuleOrder[i] ELSE Null]
      /\ b = [i \in 1..(k + 1) |-> IF i <= k THEN ModuleOrder[k + 1 - i] ELSE Null]
  BY WalksOfList
<1>2. \A i \in 1..k : ModuleOrder[i] \in ModuleIDs /\ ModuleOrder[i] # Null
  BY ModuleOrderIs
<1>3. /\ f \in Seq(S) /\ Len(f) = k + 1 /\ DOMAIN f = 1..(k + 1)
      /\ \A i \in 1..k : f[i] = ModuleOrder[i]
      /\ f[k + 1] = Null
  BY <1>1, <1>2
<1>4. /\ b \in Seq(S) /\ Len(b) = k + 1
      /\ \A i \in 1..k : b[k + 1 - i] = ModuleOrder[i]
  <2>1. b \in Seq(S)
    BY <1>1, <1>2
  <2>2. \A i \in 1..k : k + 1 - i \in 1..(k + 1) /\ k + 1 - i <= k /\ k + 1 - (k + 1 - i) = i
    OBVIOUS
  <2> QED BY <1>1, <2>1, <2>2
<1> HIDE DEF f, b
<1>5. \A id : id \in ToSet(f) \ {Null} <=> \E i \in 1..k : id = ModuleOrder[i]
  BY <1>2, <1>3 DEF ToSet
<1>6. /\ Front(f) \in Seq(S) /\ Len(Front(f)) = k
      /\ \A i \in 1..k : Front(f)[i] = ModuleOrder[i]
  BY <1>3, SubSeqProperties DEF Front
<1>7. /\ Tail(Reverse(b)) \in Seq(S) /\ Len(Tail(Reverse(b))) = k
      /\ \A i \in 1..k : Tail(Reverse(b))[i] = ModuleOrder[i]
  <2> DEFINE v == Reverse(b)
  <2>1. v = [i \in 1..Len(b) |-> b[(Len(b) - i) + 1]]
    BY DEF Reverse
  <2>2. \A i \in 1..(k + 1) : (k + 1 - i) + 1 \in 1..(k + 1)
    OBVIOUS
  <2>3. v \in Seq(S) /\ Len(v) = k + 1 /\ v # <<>>
    <3>1. \A i \in 1..(k + 1) : b[i] \in S
      BY <1>4
    <3>2. \A i \in 1..(k + 1) : v[i] = b[(k + 1 - i) + 1]
      BY <1>4, <2>1
    <3>3. v = [i \in 1..(k + 1) |-> v[i]]
      BY <1>4, <2>1
    <3> HIDE DEF v, S
    <3>4. \A i \in 1..(k + 1) : v[i] \in S
      BY <2>2, <3>1, <3>2
    <3> QED BY <3>3, <3>4
  <2>4. \A i \in 1..k : v[i + 1] = b[k + 1 - i]
    <3> TAKE i \in 1..k
    <3>1. i + 1 \in 1..(k + 1) /\ (k + 1 - (i + 1)) + 1 = k + 1 - i
      OBVIOUS
    <3>2. v[i + 1] = b[(k + 1 - (i + 1)) + 1]
      BY <1>4, <2>1, <3>1
    <3> QED BY <3>1, <3>2
  <2> HIDE DEF v, S
  <2>5. Tail(v) \in Seq(S) /\ Len(Tail(v)) = k /\ \A i \in 1..k : Tail(v)[i] = v[i + 1]
    BY <2>3, HeadTailProperties
  <2> QED BY <1>4, <2>4, <2>5 DEF v
<1>8. Tail(Reverse(b)) = Front(f)
  <2> HIDE DEF S
  <2> QED BY <1>6, <1>7, SeqEqual
<1> QED BY <1>5, <1>8 DEF GetModule, f, b

\* The next module is appended.
LEMMA ModuleJoins ==
  ASSUME NEW r, NEW k \in 0..3, Linked(r, k), r.freed = {}
  PROVE  Linked(NewModule(r, ModuleOrder[k + 1]), k + 1) /\ NewModule(r, ModuleOrder[k + 1]).freed = {}
<1> DEFINE id == ModuleOrder[k + 1]
           q == NewModule(r, id)
<1>1. k + 1 \in 1..4 /\ id \in ModuleIDs /\ id # Null
  BY ModuleOrderIs
<1>2. \A i \in 1..k : ModuleOrder[i] # id /\ ModuleOrder[i] \in ModuleIDs
  BY ModuleOrderIs
<1>3. ~GetModule(r, id)
  BY <1>2, ListHolds
<1>4. q = [r EXCEPT !.prev[id] = r.tail, !.tail = id, !.head = IF @ = Null THEN id ELSE @,
                    !.next = IF r.tail = Null THEN [@ EXCEPT ![id] = Null]
                             ELSE [@ EXCEPT ![id] = Null, ![r.tail] = id]]
  BY <1>3 DEF NewModule
<1> HIDE DEF q, id
<1>5. /\ DOMAIN r = {"head", "tail", "next", "prev", "freed", "closed"}
      /\ DOMAIN r.next = ModuleIDs /\ DOMAIN r.prev = ModuleIDs
  BY DEF Linked
<1>6. /\ DOMAIN q = {"head", "tail", "next", "prev", "freed", "closed"}
      /\ q.freed = r.freed /\ q.tail = id /\ q.head = IF r.head = Null THEN id ELSE r.head
      /\ q.prev = [r.prev EXCEPT ![id] = r.tail]
      /\ q.next = IF r.tail = Null THEN [r.next EXCEPT ![id] = Null]
                  ELSE [r.next EXCEPT ![id] = Null, ![r.tail] = id]
  BY <1>4, <1>5
<1>7. DOMAIN q.next = ModuleIDs /\ DOMAIN q.prev = ModuleIDs
  BY <1>5, <1>6
<1>8. q.head = ModuleOrder[1] /\ q.tail = ModuleOrder[k + 1]
  <2>1. CASE k = 0
    BY <1>6, <2>1 DEF Linked, id
  <2>2. CASE k # 0
    BY <1>6, <2>2, ModuleOrderIs DEF Linked, id
  <2> QED BY <2>1, <2>2
<1>9. \A i \in 1..k : /\ q.next[ModuleOrder[i]] = ModuleOrder[i + 1]
                      /\ q.prev[ModuleOrder[i]] = IF i = 1 THEN Null ELSE ModuleOrder[i - 1]
  <2> TAKE i \in 1..k
  <2>1. r.tail = ModuleOrder[k] /\ r.tail # Null /\ r.tail \in ModuleIDs
    BY ModuleOrderIs DEF Linked
  <2>2. q.prev[ModuleOrder[i]] = r.prev[ModuleOrder[i]]
    BY <1>2, <1>5, <1>6
  <2>3. CASE i = k
    BY <1>1, <1>2, <1>5, <1>6, <2>1, <2>3, <2>2 DEF Linked, id
  <2>4. CASE i # k
    <3>1. ModuleOrder[i] # r.tail
      BY <2>1, <2>4, ModuleOrderIs
    <3>2. q.next[ModuleOrder[i]] = r.next[ModuleOrder[i]]
      BY <1>1, <1>2, <1>5, <1>6, <2>1, <3>1
    <3> QED BY <2>2, <2>4, <3>2 DEF Linked
  <2> QED BY <2>3, <2>4
<1>10. q.next[id] = Null /\ q.prev[id] = IF k + 1 = 1 THEN Null ELSE ModuleOrder[(k + 1) - 1]
  <2>1. q.prev[id] = r.tail
    BY <1>1, <1>5, <1>6
  <2>2. r.tail # id /\ (r.tail = Null \/ r.tail \in ModuleIDs)
    BY <1>1, <1>2, ModuleOrderIs DEF Linked
  <2>3. q.next[id] = Null
    BY <1>1, <1>5, <1>6, <2>2
  <2> QED BY <2>1, <2>3 DEF Linked
<1>11. Linked(q, k + 1)
  <2>1. \A i \in 1..(k + 1) : /\ q.next[ModuleOrder[i]] = IF i = k + 1 THEN Null ELSE ModuleOrder[i + 1]
                              /\ q.prev[ModuleOrder[i]] = IF i = 1 THEN Null ELSE ModuleOrder[i - 1]
                              /\ ModuleOrder[i] \notin q.freed
    <3> TAKE i \in 1..(k + 1)
    <3>1. ModuleOrder[i] \notin q.freed
      BY <1>6
    <3>2. CASE i \in 1..k
      BY <1>9, <3>1, <3>2
    <3>3. CASE i = k + 1
      BY <1>10, <3>1, <3>3 DEF id
    <3> QED BY <3>2, <3>3
  <2> QED BY <1>6, <1>7, <1>8, <2>1 DEF Linked
<1> QED BY <1>6, <1>11 DEF q, id

\* The last module of the list leaves it.
LEMMA ModuleLeaves ==
  ASSUME NEW r, NEW k \in 1..4, Linked(r, k)
  PROVE  Linked(CloseModule(r, ModuleOrder[k]), k - 1)
<1> DEFINE id == ModuleOrder[k]
           u == Unlinked(r, id)
           q == CloseModule(r, id)
<1>1. k \in 0..4 /\ id \in ModuleIDs /\ id # Null /\ GetModule(r, id)
  BY ModuleOrderIs, ListHolds
<1>2. \A i \in 1..(k - 1) : ModuleOrder[i] # id /\ ModuleOrder[i] \in ModuleIDs /\ ModuleOrder[i] # Null
  BY ModuleOrderIs
<1>3. /\ r.next[id] = Null
      /\ r.prev[id] = IF k = 1 THEN Null ELSE ModuleOrder[k - 1]
      /\ DOMAIN r = {"head", "tail", "next", "prev", "freed", "closed"}
      /\ DOMAIN r.next = ModuleIDs /\ DOMAIN r.prev = ModuleIDs
      /\ r.tail = id /\ r.head = ModuleOrder[1]
  BY DEF Linked
<1>4. q = [u EXCEPT !.freed = @ \cup {id}, !.closed = Append(@, id)]
  BY <1>1 DEF CloseModule
<1>5. u = [r EXCEPT !.next = IF r.prev[id] = Null THEN @ ELSE [@ EXCEPT ![r.prev[id]] = r.next[id]],
                    !.prev = IF r.next[id] = Null THEN @ ELSE [@ EXCEPT ![r.next[id]] = r.prev[id]],
                    !.head = IF @ = id THEN r.next[id] ELSE @,
                    !.tail = IF @ = id THEN r.prev[id] ELSE @]
  BY DEF Unlinked
<1> HIDE DEF q, u, id
<1>6. /\ DOMAIN u = DOMAIN r /\ u.freed = r.freed
      /\ u.next = IF r.prev[id] = Null THEN r.next ELSE [r.next EXCEPT ![r.prev[id]] = Null]
      /\ u.prev = r.prev
      /\ u.head = IF r.head = id THEN Null ELSE r.head
      /\ u.tail = r.prev[id]
  BY <1>3, <1>5
<1>7. /\ DOMAIN q = DOMAIN r /\ q.freed = r.freed \cup {id}
      /\ q.next = u.next /\ q.prev = u.prev /\ q.head = u.head /\ q.tail = u.tail
  BY <1>3, <1>4, <1>6
<1>8. DOMAIN q.next = ModuleIDs /\ DOMAIN q.prev = ModuleIDs
  BY <1>3, <1>6, <1>7
<1>9. /\ q.head = IF k - 1 = 0 THEN Null ELSE ModuleOrder[1]
      /\ q.tail = IF k - 1 = 0 THEN Null ELSE ModuleOrder[k - 1]
  BY ModuleOrderIs, <1>3, <1>6, <1>7 DEF id
<1>10. \A i \in 1..(k - 1) : /\ q.next[ModuleOrder[i]] = IF i = k - 1 THEN Null ELSE ModuleOrder[i + 1]
                             /\ q.prev[ModuleOrder[i]] = IF i = 1 THEN Null ELSE ModuleOrder[i - 1]
                             /\ ModuleOrder[i] \notin q.freed
  <2> TAKE i \in 1..(k - 1)
  <2>1. k # 1 /\ i \in 1..k /\ i # k /\ k - 1 \in 1..4 /\ i \in 1..4
    OBVIOUS
  <2>2. /\ r.next[ModuleOrder[i]] = ModuleOrder[i + 1]
        /\ r.prev[ModuleOrder[i]] = IF i = 1 THEN Null ELSE ModuleOrder[i - 1]
        /\ ModuleOrder[i] \notin r.freed
    BY <2>1 DEF Linked
  <2>3. r.prev[id] = ModuleOrder[k - 1] /\ r.prev[id] # Null
    BY <1>3, <2>1, ModuleOrderIs
  <2>4. ModuleOrder[i] \in ModuleIDs /\ ModuleOrder[i] # id
    BY <1>2
  <2>5. q.next[ModuleOrder[i]] = IF i = k - 1 THEN Null ELSE ModuleOrder[i + 1]
    <3>1. (ModuleOrder[i] = ModuleOrder[k - 1]) <=> i = k - 1
      BY <2>1, ModuleOrderIs
    <3>2. q.next = [r.next EXCEPT ![ModuleOrder[k - 1]] = Null]
      BY <1>6, <1>7, <2>3
    <3> QED BY <1>3, <2>2, <2>4, <3>1, <3>2
  <2>6. q.prev[ModuleOrder[i]] = r.prev[ModuleOrder[i]] /\ ModuleOrder[i] \notin q.freed
    BY <1>6, <1>7, <2>2, <2>4
  <2> QED BY <2>2, <2>5, <2>6
<1>11. Linked(q, k - 1)
  BY <1>3, <1>7, <1>8, <1>9, <1>10 DEF Linked
<1> QED BY <1>11 DEF q, id

-----------------------------------------------------------------------------
(***************************************************************************)
(* The run.                                                                *)
(***************************************************************************)
\* A tuple is a list.
LEMMA TupleIsList ==
  ASSUME NEW x, NEW len \in Nat, x = [i \in 1..len |-> x[i]]
  PROVE  IsList(x) /\ DOMAIN x = 1..len /\ \A e \in ToSet(x) : \E i \in 1..len : e = x[i]
BY ListForm DEF ToSet

LEMMA TuplesAreLists ==
  /\ \A a : IsList(<<a>>) /\ ToSet(<<a>>) = {a}
  /\ \A a, b : IsList(<<a, b>>) /\ ToSet(<<a, b>>) = {a, b}
<1>1. ASSUME NEW a
      PROVE  IsList(<<a>>) /\ ToSet(<<a>>) = {a}
  <2>1. <<a>> \in Seq({a})
    OBVIOUS
  <2>2. IsList(<<a>>)
    BY <2>1, SeqIsList
  <2>3. DOMAIN <<a>> = {1} /\ <<a>>[1] = a
    OBVIOUS
  <2>4. ToSet(<<a>>) = {a}
    BY <2>3 DEF ToSet
  <2> QED BY <2>2, <2>4
<1>2. ASSUME NEW a, NEW b
      PROVE  IsList(<<a, b>>) /\ ToSet(<<a, b>>) = {a, b}
  <2>1. <<a, b>> \in Seq({a, b})
    OBVIOUS
  <2>2. IsList(<<a, b>>)
    BY <2>1, SeqIsList
  <2>3. DOMAIN <<a, b>> = {1, 2} /\ <<a, b>>[1] = a /\ <<a, b>>[2] = b
    OBVIOUS
  <2>4. ToSet(<<a, b>>) = {a, b}
    BY <2>3 DEF ToSet
  <2> QED BY <2>2, <2>4
<1> QED BY <1>1, <1>2

\* Every default file is one the readers can read.
LEMMA DefaultTexts ==
  /\ IsFile("title", DefaultTitleTxt) /\ IsFile("sysmsg", DefaultSysMsgTxt)
  /\ IsFile("umsg", DefaultUmsgTxt) /\ IsFile("obdescs", DefaultObDescsTxt)
  /\ IsFile("ranks", DefaultRanksTxt) /\ IsFile("npcs", DefaultNPCsTxt)
<1>1. IsFile("title", DefaultTitleTxt)
  BY TuplesAreLists DEF IsFile, IsBlock, DefaultTitleTxt
<1>2. IsFile("sysmsg", DefaultSysMsgTxt)
  <2>1. DefaultSysMsgTxt = [i \in 1..75 |-> DefaultSysMsgTxt[i]]
    BY DEF DefaultSysMsgTxt
  <2> QED BY <2>1, ListForm DEF IsFile, IsBlock
<1>3. IsFile("umsg", DefaultUmsgTxt)
  BY TuplesAreLists DEF IsFile, IsBlock, DefaultUmsgTxt
<1>4. IsFile("obdescs", DefaultObDescsTxt)
  BY EmptyList DEF IsFile, IsBlock, DefaultObDescsTxt
<1>5. IsFile("ranks", DefaultRanksTxt)
  BY ListForm DEF DefaultRanksTxt, IsFile, IsBlock
<1>6. IsFile("npcs", DefaultNPCsTxt)
  BY EmptyList DEF DefaultNPCsTxt, ToSet, IsFile
<1> QED BY <1>1, <1>2, <1>3, <1>4, <1>5, <1>6

LEMMA DefaultRooms == IsFile("rooms", DefaultRoomsTxt)
<1> DEFINE room(id, flags, desc) == [id |-> id, desc |-> desc, words |-> [i \in DOMAIN flags |-> Flag(flags[i])]]
<1>1. ASSUME NEW id, NEW flags, IsList(flags), NEW desc, desc \in Seq({"shortDesc", "longDesc"})
      PROVE  IsBlock("rooms", room(id, flags, desc))
  <2>1. IsList([i \in DOMAIN flags |-> Flag(flags[i])])
    <3> DEFINE w == [i \in DOMAIN flags |-> Flag(flags[i])]
    <3>1. Len(flags) \in Nat /\ DOMAIN flags = 1..Len(flags)
      BY ListParts
    <3>2. w = [i \in 1..Len(flags) |-> w[i]]
      BY <3>1
    <3> HIDE DEF w
    <3> QED BY <3>1, <3>2, ListForm
  <2> QED BY <1>1, <2>1 DEF IsBlock
<1> HIDE DEF room
<1> DEFINE f1 == <<"startloc", "light">>
           f2 == <<"light">>
           f3 == <<"light", "hide", "hideaway", "noexits", "nolook">>
           f4 == <<"dark", "nolook", "hide", "hideaway", "noexits", "nogo", "death">>
           both == <<"shortDesc", "longDesc">>
           x == DefaultRoomsTxt
<1>2. x = <<room("beginning", f1, both), room("adventure", f2, both), room("destiny", f3, both),
            room("secretstore", f4, <<>>)>>
  BY DEF DefaultRoomsTxt, room
<1>3. IsList(f1) /\ IsList(f2)
  BY TuplesAreLists
<1>4. IsList(f3)
  <2>1. f3 = [i \in 1..5 |-> f3[i]]
    OBVIOUS
  <2> HIDE DEF f3
  <2> QED BY <2>1, ListForm
<1>5. IsList(f4)
  <2>1. f4 = [i \in 1..7 |-> f4[i]]
    OBVIOUS
  <2> HIDE DEF f4
  <2> QED BY <2>1, ListForm
<1>6. both \in Seq({"shortDesc", "longDesc"}) /\ <<>> \in Seq({"shortDesc", "longDesc"})
  OBVIOUS
<1> HIDE DEF f1, f2, f3, f4, both, x
<1>7. x = [i \in 1..4 |-> x[i]]
  BY <1>2
<1>8. IsList(x) /\ \A e \in ToSet(x) : \E i \in 1..4 : e = x[i]
  BY <1>7, TupleIsList
<1>9. \A i \in 1..4 : IsBlock("rooms", x[i])
  <2>1. /\ IsBlock("rooms", x[1]) /\ IsBlock("rooms", x[2])
    BY <1>1, <1>2, <1>3, <1>6
  <2>2. /\ IsBlock("rooms", x[3]) /\ IsBlock("rooms", x[4])
    BY <1>1, <1>2, <1>4, <1>5, <1>6
  <2>3. \A i \in 1..4 : i = 1 \/ i = 2 \/ i = 3 \/ i = 4
    OBVIOUS
  <2> QED BY <2>1, <2>2, <2>3
<1> QED BY <1>8, <1>9 DEF IsFile, x

LEMMA DefaultObjects == IsFile("objects", DefaultObjectsTxt)
<1> DEFINE x == DefaultObjectsTxt
<1>1. x = <<x[1], x[2]>>
  BY DEF DefaultObjectsTxt
<1>2. \A i \in {1, 2} : IsList(x[i].words) /\ IsList(x[i].rooms) /\ IsList(x[i].states)
  <2>1. IsList(x[1].words) /\ IsList(x[1].rooms)
    BY TuplesAreLists DEF DefaultObjectsTxt
  <2>2. IsList(x[1].states)
    BY TuplesAreLists DEF DefaultObjectsTxt
  <2>3. IsList(x[2].words) /\ IsList(x[2].rooms)
    BY TuplesAreLists DEF DefaultObjectsTxt
  <2>4. IsList(x[2].states)
    BY TuplesAreLists DEF DefaultObjectsTxt
  <2> QED BY <2>1, <2>2, <2>3, <2>4
<1>3. IsBlock("objects", x[1]) /\ IsBlock("objects", x[2])
  BY <1>2 DEF IsBlock
<1> HIDE DEF x
<1>4. IsList(x) /\ ToSet(x) = {x[1], x[2]}
  BY <1>1, TuplesAreLists
<1> QED BY <1>3, <1>4 DEF IsFile, x

LEMMA DefaultLanguage == IsFile("lang", DefaultLangTxt)
<1> DEFINE x == DefaultLangTxt
<1>1. x = <<x[1], x[2]>>
  BY DEF DefaultLangTxt
<1>2. x[1].type = "travel" /\ IsList(x[1].words)
  <2>1. x[1].type = "travel" /\ x[1].words = Directions
    BY DEF DefaultLangTxt
  <2>2. Directions = [i \in 1..12 |-> Directions[i]]
    BY DEF Directions
  <2> QED BY <2>1, <2>2, ListForm
<1>3. IsList(x[2].words)
  BY EmptyList DEF DefaultLangTxt
<1>4. /\ IsList(x[2].syntaxes)
      /\ \A s \in ToSet(x[2].syntaxes) : IsList(s.words) /\ IsList(s.lines)
  BY TuplesAreLists DEF DefaultLangTxt
<1>5. IsBlock("lang", x[1]) /\ IsBlock("lang", x[2])
  BY <1>2, <1>3, <1>4 DEF IsBlock
<1> HIDE DEF x
<1>6. IsList(x) /\ ToSet(x) = {x[1], x[2]}
  BY <1>1, TuplesAreLists
<1> QED BY <1>5, <1>6 DEF IsFile, x

LEMMA DefaultTravel == IsFile("travel", DefaultTravelTxt)
<1> DEFINE x == DefaultTravelTxt
           names == <<"southwest", "west", "northwest", "north", "northeast", "east", "southeast",
                      "up", "down", "out">>
           e == x[2].entries
<1>1. x = <<x[1], x[2]>>
  BY DEF DefaultTravelTxt
<1>2. /\ IsList(x[1].entries)
      /\ \A y \in ToSet(x[1].entries) : y.key = "verbs" => IsList(y.names)
  BY TuplesAreLists DEF DefaultTravelTxt
<1>3. e = [i \in 1..4 |-> e[i]]
  BY DEF DefaultTravelTxt
<1>4. IsList(names)
  <2>1. names = [i \in 1..10 |-> names[i]]
    OBVIOUS
  <2> HIDE DEF names
  <2> QED BY <2>1, ListForm
<1>5. /\ IsList(e[1].names) /\ e[2].key = "line" /\ e[3].names = names /\ e[4].key = "line"
  BY TuplesAreLists DEF DefaultTravelTxt
<1> HIDE DEF e, names
<1>6. IsList(e) /\ \A y \in ToSet(e) : \E i \in 1..4 : y = e[i]
  BY <1>3, TupleIsList
<1>7. \A i \in 1..4 : e[i].key = "verbs" => IsList(e[i].names)
  BY <1>4, <1>5
<1>8. /\ IsList(x[2].entries)
      /\ \A y \in ToSet(x[2].entries) : y.key = "verbs" => IsList(y.names)
  BY <1>6, <1>7 DEF e
<1>9. IsBlock("travel", x[1]) /\ IsBlock("travel", x[2])
  BY <1>2, <1>8 DEF IsBlock
<1> HIDE DEF x
<1>10. IsList(x) /\ ToSet(x) = {x[1], x[2]}
  BY <1>1, TuplesAreLists
<1> QED BY <1>9, <1>10 DEF IsFile, x

LEMMA DefaultSynonyms == IsFile("syns", DefaultSynsTxt)
<1> DEFINE x == DefaultSynsTxt
<1>1. x = [i \in 1..8 |-> x[i]]
  BY DEF DefaultSynsTxt
<1>2. \A i \in 1..8 : \E alias : x[i].words = <<alias>>
  BY DEF DefaultSynsTxt
<1> HIDE DEF x
<1>3. \A i \in 1..8 : IsBlock("syns", x[i])
  BY <1>2, TuplesAreLists DEF IsBlock
<1>4. IsList(x) /\ \A e \in ToSet(x) : \E i \in 1..8 : e = x[i]
  BY <1>1, TupleIsList
<1> QED BY <1>3, <1>4 DEF IsFile, x

LEMMA DefaultsAreFiles ==
  /\ DOMAIN DefaultFiles = PhaseNames
  /\ \A phase \in PhaseNames : IsFile(phase, DefaultFiles[phase])
<1>1. DOMAIN DefaultFiles = PhaseNames
  BY DEF DefaultFiles, PhaseNames
<1>2. ASSUME NEW phase \in PhaseNames
      PROVE  IsFile(phase, DefaultFiles[phase])
  BY DefaultTexts, DefaultRooms, DefaultObjects, DefaultLanguage, DefaultTravel, DefaultSynonyms
     DEF DefaultFiles, PhaseNames
<1> QED BY <1>1, <1>2

LEMMA PhasesAre ==
  /\ Len(phases) = 11 /\ phases[11] = "syns"
  /\ \A i \in 1..11 : phases[i] \in PhaseNames
<1>1. Len(phases) = 11 /\ phases[11] = "syns"
  BY DEF phases
<1>2. ASSUME NEW i \in 1..11
      PROVE  phases[i] \in PhaseNames
  <2>1. /\ phases[1] = "title" /\ phases[2] = "sysmsg" /\ phases[3] = "umsg" /\ phases[4] = "obdescs"
        /\ phases[5] = "rooms" /\ phases[6] = "ranks" /\ phases[7] = "npcs" /\ phases[8] = "objects"
        /\ phases[9] = "lang" /\ phases[10] = "travel" /\ phases[11] = "syns"
    BY DEF phases
  <2>2. i = 1 \/ i = 2 \/ i = 3 \/ i = 4 \/ i = 5 \/ i = 6 \/ i = 7 \/ i = 8 \/ i = 9 \/ i = 10 \/ i = 11
    OBVIOUS
  <2> QED BY <2>1, <2>2 DEF PhaseNames
<1> QED BY <1>1, <1>2

LEMMA SectionCount == Len(Sections) = 13 /\ DOMAIN Sections = 1..13 /\ \A i \in 1..13 : Sections[i] \in TableNames
<1>1. Len(Sections) = 13 /\ DOMAIN Sections = 1..13
  BY DEF Sections
<1>2. \A i \in DOMAIN Sections : Sections[i] \in ToSet(Sections)
  BY DEF ToSet
<1> QED BY <1>1, <1>2, SectionNames

LEMMA NewGameSound ==
  ASSUME NEW quiet \in BOOLEAN
  PROVE  IsGame(NewGame(quiet)) /\ Sound(NewGame(quiet)) /\ Good(NewGame(quiet))
<1> DEFINE h == NewGame(quiet)
<1>1. /\ DOMAIN h = GameFields /\ h.tab = [s \in TableNames |-> <<>>] /\ h.num = [s \in TableNames |-> 0]
      /\ h.roomIdx = <<>> /\ h.dmoves = <<>> /\ h.errors = 0 /\ h.quiet = quiet /\ h.fate = "alive"
      /\ h.skip = FALSE /\ h.twice = FALSE
  BY SectionNames DEF NewGame, GameFields
<1> HIDE DEF h
<1>2. \A s \in TableNames : h.tab[s] = <<>> /\ h.num[s] = 0
  BY <1>1
<1>3. DOMAIN <<>> = {} /\ Len(<<>>) = 0
  OBVIOUS
<1>4. IsGame(h)
  BY FS_EmptySet, <1>1, <1>2, <1>3, EmptyList DEF IsGame
<1>5. Counts(h) /\ VerbsCounted(h)
  BY <1>2, <1>3 DEF Counts, VerbsCounted, TableNames
<1>6. VerbsOwn(h) /\ SyntaxOwn(h) /\ RoomsOwn(h) /\ ObjectsOwn(h)
  BY <1>2, <1>1, <1>3 DEF TableNames, VerbsOwn, SyntaxOwn, RoomsOwn, ObjectsOwn, Belong
<1> QED BY <1>1, <1>4, <1>5, <1>6 DEF Sound, Whole, Good, h

LEMMA HandlersSound ==
  ASSUME NEW h, IsGame(h), Sound(h), NEW b, Phase \in PhaseNames, IsBlock(Phase, b)
  PROVE  IsGame(Handler(h, b)) /\ Sound(Handler(h, b))
<1> DEFINE k == Handler(h, b)
<1>1. /\ Phase = "title" => k = title_proc(h, b)
      /\ Phase = "sysmsg" => k = smsg_proc(h, b)
      /\ Phase \in {"umsg", "obdescs"} => k = umsg_proc(h, b)
      /\ Phase = "rooms" => k = room_proc(h, b)
      /\ Phase = "ranks" => k = rank_proc(h, b)
  BY DEF Handler
<1>2. /\ Phase = "npcs" => k = npc_proc(h, b)
      /\ Phase = "objects" => k = objs_proc(h, b)
      /\ Phase = "lang" => k = lang_proc(h, b)
      /\ Phase = "travel" => k = trav_proc(h, b)
      /\ Phase = "syns" => k = syn_proc(h, b)
  BY DEF Handler
<1> HIDE DEF k
<1>3. CASE Phase = "title"
  BY <1>1, <1>3, TitleSound DEF k
<1>4. CASE Phase \in {"sysmsg", "umsg", "obdescs"}
  BY <1>1, <1>4, MessagesSound DEF k
<1>5. CASE Phase = "rooms"
  BY <1>1, <1>5, RoomSound DEF k
<1>6. CASE Phase = "ranks"
  BY <1>1, <1>6, RankSound DEF k
<1>7. CASE Phase = "npcs"
  BY <1>2, <1>7, NpcSound DEF k
<1>8. CASE Phase = "objects"
  BY <1>2, <1>8, ObjectSound DEF k
<1>9. CASE Phase = "lang"
  BY <1>2, <1>9, LangSound DEF k
<1>10. CASE Phase = "travel"
  BY <1>2, <1>10, TravelSound DEF k
<1>11. CASE Phase = "syns"
  BY <1>2, <1>11, SynonymsSound DEF k
<1> QED BY <1>3, <1>4, <1>5, <1>6, <1>7, <1>8, <1>9, <1>10, <1>11 DEF PhaseNames

\* What the handlers do at the end does not end the compilation.
LEMMA EndsSound ==
  ASSUME NEW h, IsGame(h), Sound(h)
  PROVE  /\ IsGame(AtEnd(h)) /\ Sound(AtEnd(h)) /\ AtEnd(h).fate = h.fate
         /\ Phase = "syns" => AtEnd(h).num["synonyms"] = Len(AtEnd(h).tab["synonyms"])
<1>1. AtEnd(h) \in {smsg_end(h), room_end(h), syn_end(h), h}
  BY DEF AtEnd
<1>2. IsGame(AtEnd(h)) /\ Sound(AtEnd(h))
  BY <1>1, MessagesEndSound, RoomEndSound, SynonymsEndSound
<1>3. smsg_end(h).fate = h.fate /\ syn_end(h).fate = h.fate /\ room_end(h).fate = h.fate
  BY DEF smsg_end, syn_end, room_end, Errors, IsGame, GameFields
<1>4. Phase = "syns" => AtEnd(h) = syn_end(h)
  BY DEF AtEnd
<1> QED BY <1>1, <1>2, <1>3, <1>4, SynonymsEndSound

LEMMA RunInit == Init => RunInv
<1> SUFFICES ASSUME Init PROVE RunInv
  OBVIOUS
<1>1. IsGame(g) /\ Sound(g) /\ Good(g)
  BY NewGameSound DEF Init
<1>2. pc = "register" /\ server = "off"
  BY DEF Init
<1>3. gameFile.by # "this_run"
  BY DEF Init, OldFile, NoFile
<1> QED BY <1>1, <1>2, <1>3 DEF RunInv

\* Before the game is saved, nothing of it is in the file.
LEMMA NothingSaved ==
  ASSUME RunInv, pc \in {"register", "start", "open", "read"}
  PROVE  gameFile.by # "this_run" /\ server = "off"
BY DEF RunInv

\* A step that leaves the game, the file and the server as they are, and goes nowhere in particular.
LEMMA OnlyStops ==
  ASSUME RunInv, UNCHANGED <<g, gameFile, server>>, pc' = "end"
  PROVE  RunInv'
BY DEF RunInv, Saving

LEMMA RegisterKeepsRun ==
  ASSUME RunInv, RegisterModule \/ ParseCommandLine \/ CommandLineExits
  PROVE  RunInv'
<1>1. pc = "register" /\ gameFile.by # "this_run" /\ server = "off" /\ gameFile' = gameFile /\ server' = server
  BY NothingSaved DEF RegisterModule, ParseCommandLine, CommandLineExits, RunInv
<1>2. pc' \in {"register", "start", "end"}
  BY <1>1 DEF RegisterModule, ParseCommandLine, CommandLineExits, Registers, Exit
<1>3. (IsGame(g) /\ Sound(g) /\ Good(g))'
  <2>1. CASE RegisterModule \/ CommandLineExits
    BY <1>1, <2>1 DEF RegisterModule, CommandLineExits, RunInv
  <2>2. CASE ParseCommandLine
    <3>1. PICK quiet \in BOOLEAN : g' = NewGame(quiet)
      BY <2>2 DEF ParseCommandLine
    <3> QED BY <3>1, NewGameSound
  <2> QED BY <2>1, <2>2
<1> QED BY <1>1, <1>2, <1>3 DEF RunInv

LEMMA StartKeepsRun ==
  ASSUME RunInv, StartLogging \/ StartCompiler \/ StartOther
  PROVE  RunInv'
<1>1. pc = "start" /\ gameFile.by # "this_run" /\ server = "off" /\ gameFile' = gameFile /\ server' = server
  BY NothingSaved DEF StartLogging, StartCompiler, StartOther, RunInv
<1>2. (IsGame(g) /\ Sound(g) /\ Good(g))'
  BY <1>1 DEF StartLogging, StartCompiler, StartOther, RunInv
<1>3. pc' \in {"start", "open", "close", "end"} /\ (pc' = "open" => n' = 1)
  BY <1>1 DEF StartLogging, StartCompiler, StartOther, Exit
<1> QED BY <1>1, <1>2, <1>3, PhasesAre DEF RunInv

LEMMA OpenKeepsRun ==
  ASSUME RunInv, OpenPhase \/ OpenFails \/ OpenGameFileFails \/ TooManyErrors \/ SaveFails
  PROVE  RunInv'
<1>1. CASE OpenFails \/ OpenGameFileFails \/ TooManyErrors \/ SaveFails
  BY <1>1, OnlyStops DEF OpenFails, OpenGameFileFails, TooManyErrors, SaveFails, Exit
<1>2. CASE OpenPhase
  <2>1. pc = "open" /\ n \in 1..11 /\ Phase \in PhaseNames /\ Good(g)
    BY <1>2, PhasesAre DEF OpenPhase, RunInv, Phase
  <2>2. UNCHANGED <<n, g, gameFile, server>>
    BY <1>2 DEF OpenPhase
  <2>3. PICK content \in (IF Phase \in lacking THEN {DefaultFiles[Phase]} ELSE Sources[Phase]) :
          pc' = "end" \/ (src' = content /\ pc' = "read")
    BY <1>2 DEF OpenPhase, Exit
  <2>4. IsFile(Phase, content)
    BY <2>1, <2>3, DefaultsAreFiles, SourcesAssumption
  <2>5. CASE pc' = "end"
    BY <2>2, <2>5, OnlyStops
  <2>6. CASE src' = content /\ pc' = "read"
    <3>1. IsFile(Phase, src)'
      BY <2>2, <2>4, <2>6 DEF Phase
    <3>2. gameFile'.by # "this_run" /\ server' = "off"
      BY <2>1, <2>2, NothingSaved
    <3>3. (IsGame(g) /\ Sound(g))' /\ g'.fate = "alive" /\ n' \in 1..Len(phases)
      BY <2>1, <2>2, PhasesAre DEF RunInv, Good
    <3> QED BY <2>6, <3>1, <3>2, <3>3 DEF RunInv
  <2> QED BY <2>3, <2>5, <2>6
<1> QED BY <1>1, <1>2

LEMMA BlockKeepsRun ==
  ASSUME RunInv, CompileBlock
  PROVE  RunInv'
<1>1. /\ pc = "read" /\ src # <<>> /\ src' = Tail(src) /\ UNCHANGED <<n, gameFile, server>>
      /\ g' = IF g.skip THEN [g EXCEPT !.skip = FALSE] ELSE Handler(g, Head(src))
      /\ \/ g'.fate = "alive" /\ pc' = pc
         \/ pc' = "end"
  BY DEF CompileBlock, Exit
<1>2. IsGame(g) /\ Sound(g) /\ n \in 1..11 /\ Phase \in PhaseNames /\ IsFile(Phase, src)
  BY <1>1, PhasesAre DEF RunInv, Phase
<1>3. /\ IsList(Tail(src)) /\ Head(src) \in ToSet(src) /\ ToSet(Tail(src)) \subseteq ToSet(src)
  BY <1>1, <1>2, ListTail DEF IsFile
<1>4. IsBlock(Phase, Head(src)) /\ IsFile(Phase, Tail(src))
  BY <1>2, <1>3 DEF IsFile
<1>5. IsGame(g') /\ Sound(g')
  <2>1. IsGame([g EXCEPT !.skip = FALSE]) /\ Sound([g EXCEPT !.skip = FALSE])
    BY <1>2, SkipSound
  <2>2. IsGame(Handler(g, Head(src))) /\ Sound(Handler(g, Head(src)))
    BY <1>2, <1>4, HandlersSound
  <2> QED BY <1>1, <2>1, <2>2
<1>6. IsFile(Phase, src)'
  BY <1>1, <1>4 DEF Phase
<1>7. gameFile'.by # "this_run" /\ server' = "off"
  BY <1>1, NothingSaved
<1> QED BY <1>1, <1>2, <1>5, <1>6, <1>7, PhasesAre DEF RunInv

LEMMA PhaseEndKeepsRun ==
  ASSUME RunInv, EndPhase
  PROVE  RunInv'
<1> DEFINE h == AtEnd(g)
<1>1. /\ pc = "read" /\ UNCHANGED <<gameFile, server>> /\ g' = [h EXCEPT !.skip = FALSE]
      /\ \/ g'.errors = 0 /\ pc' = "open" /\ n' = n + 1
         \/ pc' = "end"
  BY DEF EndPhase, PhasePasses, Exit
<1>2. IsGame(g) /\ Sound(g) /\ n \in 1..11 /\ Phase \in PhaseNames /\ g.fate = "alive"
  BY <1>1, PhasesAre DEF RunInv, Phase
<1>3. /\ IsGame(h) /\ Sound(h) /\ h.fate = "alive"
      /\ Phase = "syns" => h.num["synonyms"] = Len(h.tab["synonyms"])
  BY <1>2, EndsSound
<1> HIDE DEF h
<1>4. IsGame(g') /\ Sound(g')
  BY <1>1, <1>3, SkipSound
<1>5. g'.fate = "alive" /\ ~g'.skip /\ g'.num = h.num /\ g'.tab = h.tab
  BY <1>1, <1>3 DEF IsGame, GameFields
<1>6. gameFile'.by # "this_run" /\ server' = "off"
  BY <1>1, NothingSaved
<1>7. pc' = "open" => /\ n' \in 1..(Len(phases) + 1) /\ Good(g')
                      /\ n' > Len(phases) => g'.num["synonyms"] = Len(g'.tab["synonyms"])
  <2> SUFFICES ASSUME pc' = "open"
               PROVE  /\ n' \in 1..(Len(phases) + 1) /\ Good(g')
                      /\ n' > Len(phases) => g'.num["synonyms"] = Len(g'.tab["synonyms"])
    OBVIOUS
  <2>1. n' = n + 1 /\ Good(g')
    BY <1>1, <1>5 DEF Good
  <2>2. n' > Len(phases) => Phase = "syns"
    BY <1>2, <2>1, PhasesAre DEF Phase
  <2> QED BY <1>2, <1>3, <1>5, <2>1, <2>2, PhasesAre
<1>8. pc' \in {"open", "end"}
  BY <1>1
<1> QED BY <1>4, <1>6, <1>7, <1>8 DEF RunInv

LEMMA FileKeepsRun ==
  ASSUME RunInv, OpenGameFile \/ SaveTable \/ Saved
  PROVE  RunInv'
<1>1. g' = g /\ server' = server
  BY DEF OpenGameFile, SaveTable, Saved
<1>2. (IsGame(g) /\ Sound(g) /\ Good(g))'
  BY <1>1 DEF OpenGameFile, SaveTable, Saved, RunInv
<1>3. server' = "off"
  BY <1>1 DEF OpenGameFile, SaveTable, Saved, RunInv
<1>4. CASE OpenGameFile
  <2>1. /\ gameFile' = [by |-> "this_run", config |-> Config(g), tables |-> <<>>] /\ pc' = "save" /\ n' = 1
        /\ g.num["synonyms"] = Len(g.tab["synonyms"])
    BY <1>4 DEF OpenGameFile, RunInv
  <2>2. /\ gameFile'.by = "this_run" /\ gameFile'.config = Config(g) /\ gameFile'.tables = <<>>
        /\ DOMAIN gameFile' = {"by", "config", "tables"}
    BY <2>1
  <2>3. IsList(<<>>) /\ Len(<<>>) = 0 /\ DOMAIN <<>> = {}
    BY EmptyList
  <2>4. Saving'
    BY <1>1, <2>2, <2>3, SectionCount DEF Saving, Config, Size
  <2> QED BY <1>1, <1>2, <1>3, <2>1, <2>2, <2>3, <2>4, SectionCount DEF RunInv
<1>5. CASE SaveTable
  <2> DEFINE entry == [label |-> Sections[n], entries |-> g.tab[Sections[n]]]
             old == gameFile.tables
             new == Append(old, entry)
  <2>1. /\ pc = "save" /\ pc' = "save" /\ n \in 1..13 /\ n' = n + 1 /\ Len(old) = n - 1
        /\ gameFile.by = "this_run" /\ Saving /\ g.num["synonyms"] = Len(g.tab["synonyms"])
    BY <1>5, SectionCount DEF SaveTable, RunInv
  <2>2. gameFile' = [gameFile EXCEPT !.tables = new]
    BY <1>5 DEF SaveTable
  <2>3. IsList(old) /\ Len(old) \in Nat /\ DOMAIN old = 1..Len(old)
    BY <2>1, ListParts DEF Saving
  <2>4. /\ IsList(new) /\ Len(new) = n /\ DOMAIN new = 1..n
        /\ \A i \in 1..(n - 1) : new[i] = old[i]
        /\ new[n] = entry
    <3>1. /\ IsList(new) /\ Len(new) = Len(old) + 1
          /\ \A i \in 1..Len(old) : new[i] = old[i]
          /\ new[Len(old) + 1] = entry
      BY <2>3, ListAppend
    <3>2. DOMAIN new = 1..Len(new)
      BY <3>1, ListParts
    <3>3. Len(old) + 1 = n
      BY <2>1
    <3> HIDE DEF new, old
    <3> QED BY <2>1, <3>1, <3>2, <3>3
  <2> HIDE DEF new
  <2>5. /\ gameFile'.by = "this_run" /\ gameFile'.config = gameFile.config /\ gameFile'.tables = new
        /\ DOMAIN gameFile' = {"by", "config", "tables"}
    BY <2>1, <2>2 DEF Saving
  <2>6. Saving'
    <3>1. \A i \in DOMAIN new : new[i].label = Sections[i] /\ new[i].entries = g.tab[Sections[i]]
      <4> SUFFICES ASSUME NEW i \in 1..n
                   PROVE  new[i].label = Sections[i] /\ new[i].entries = g.tab[Sections[i]]
        BY <2>4
      <4>1. CASE i = n
        BY <2>4, <4>1
      <4>2. CASE i # n
        BY <2>1, <2>3, <4>2, <2>4 DEF Saving
      <4> QED BY <4>1, <4>2
    <3>2. gameFile.config = Config(g)
      BY <2>1 DEF Saving
    <3> QED BY <1>1, <2>1, <2>4, <2>5, <3>1, <3>2, SectionCount DEF Saving, Config, Size
  <2>7. n' \in 1..(Len(Sections) + 1) /\ Len(gameFile'.tables) = n' - 1
    <3>1. n + 1 \in 1..14 /\ (n + 1) - 1 = n
      BY <2>1
    <3> QED BY <2>1, <2>4, <2>5, <3>1, SectionCount
  <2>8. g'.num["synonyms"] = Len(g'.tab["synonyms"]) /\ gameFile'.by = "this_run" /\ pc' = "save"
    BY <1>1, <2>1, <2>5
  <2> QED BY <1>2, <1>3, <2>6, <2>7, <2>8 DEF RunInv
<1>6. CASE Saved
  <2>1. pc = "save" /\ pc' = "close" /\ gameFile' = gameFile
    BY <1>6 DEF Saved
  <2>2. Saving /\ gameFile.by = "this_run" /\ g.num["synonyms"] = Len(g.tab["synonyms"])
    BY <2>1 DEF RunInv
  <2>3. Saving'
    BY <1>1, <2>1, <2>2 DEF Saving, Config, Size
  <2> QED BY <1>1, <1>2, <1>3, <2>1, <2>2, <2>3 DEF RunInv
<1> QED BY <1>4, <1>5, <1>6

LEMMA CloseKeepsRun ==
  ASSUME RunInv, CloseNext \/ StartServer
  PROVE  RunInv'
<1>1. g' = g
  BY DEF CloseNext, StartServer
<1>2. (IsGame(g) /\ Sound(g))'
  BY <1>1 DEF RunInv
<1>3. CASE CloseNext
  <2>1. pc = "close" /\ pc' \in {"close", "end"} /\ server' = server /\ gameFile' \in {NoFile, gameFile}
    BY <1>3 DEF CloseNext, Exit
  <2>2. server' = "off"
    BY <2>1 DEF RunInv
  <2>3. CASE gameFile' = NoFile
    BY <2>3, <1>2, <2>1, <2>2 DEF NoFile, RunInv
  <2>4. CASE gameFile' = gameFile
    BY <1>1, <2>4, <1>2, <2>1, <2>2 DEF RunInv, Saving, Config, Size
  <2> QED BY <2>1, <2>3, <2>4
<1>4. CASE StartServer
  <2>1. /\ pc = "end" /\ pc' = "end" /\ gameFile' = gameFile /\ gameFile.by = "this_run"
        /\ server' = IF Loads(gameFile) THEN "up" ELSE "refused"
    BY <1>4 DEF StartServer
  <2>2. (Good(g) /\ Saving /\ g.num["synonyms"] = Len(g.tab["synonyms"]))'
    BY <1>1, <2>1 DEF RunInv, Saving, Config, Size
  <2>3. server' = "up" => Len(gameFile'.tables) = Len(Sections)
    BY <2>1 DEF Loads
  <2> QED BY <1>2, <2>1, <2>2, <2>3 DEF RunInv
<1> QED BY <1>3, <1>4

LEMMA NothingKeepsRun ==
  ASSUME RunInv, UNCHANGED vars
  PROVE  RunInv'
<1>1. Saving' <=> Saving
  BY DEF vars, Saving, Config, Size
<1>2. IsFile(Phase, src)' <=> IsFile(Phase, src)
  BY DEF vars, Phase
<1> QED BY <1>1, <1>2 DEF RunInv, vars

LEMMA RunKept == RunInv /\ [Next]_vars => RunInv'
<1> SUFFICES ASSUME RunInv, [Next]_vars PROVE RunInv'
  OBVIOUS
<1>1. CASE RegisterModule \/ ParseCommandLine \/ CommandLineExits
  BY <1>1, RegisterKeepsRun
<1>2. CASE StartLogging \/ StartCompiler \/ StartOther
  BY <1>2, StartKeepsRun
<1>3. CASE OpenPhase \/ OpenFails \/ OpenGameFileFails \/ TooManyErrors \/ SaveFails
  BY <1>3, OpenKeepsRun
<1>4. CASE CompileBlock
  BY <1>4, BlockKeepsRun
<1>5. CASE EndPhase
  BY <1>5, PhaseEndKeepsRun
<1>6. CASE OpenGameFile \/ SaveTable \/ Saved
  BY <1>6, FileKeepsRun
<1>7. CASE CloseNext \/ StartServer
  BY <1>7, CloseKeepsRun
<1>8. CASE Done \/ UNCHANGED vars
  BY <1>8, NothingKeepsRun DEF Done
<1> QED BY <1>1, <1>2, <1>3, <1>4, <1>5, <1>6, <1>7, <1>8 DEF Next, Runs

LEMMA RunsSound == Spec => []RunInv
<1> QED BY RunInit, RunKept, PTL DEF Spec

-----------------------------------------------------------------------------
(***************************************************************************)
(* The run's place in the list of modules.                                 *)
(***************************************************************************)
LEMMA OrderInit == Init => Orderly
<1> SUFFICES ASSUME Init PROVE Orderly
  OBVIOUS
<1>1. pc = "register" /\ n = 1 /\ cur = Null /\ m = NoModules /\ exiting = FALSE /\ outcome = "running"
  BY DEF Init
<1>2. Linked(NoModules, 0) /\ NoModules.freed = {}
  BY DEF Linked, NoModules
<1>3. Stage(0)
  BY <1>1, <1>2 DEF Stage
<1>4. n \in 1..14
  BY <1>1
<1>6. cur \in ModuleIDs \cup {Null} /\ exiting \in BOOLEAN
  BY <1>1
<1>7. outcome = "running" <=> pc # "end"
  BY <1>1
<1>5. \E k \in 0..4 : Linked(m, k) /\ Stage(k)
  <2>1. PICK k \in 0..4 : k = 0
    OBVIOUS
  <2>2. Linked(m, k) /\ Stage(k)
    BY <1>1, <1>2, <1>3, <2>1
  <2> QED BY <2>2
<1> QED BY <1>4, <1>5, <1>6, <1>7 DEF Orderly

LEMMA LinksTyped ==
  ASSUME NEW r, Linked(r, 4), NEW id \in ModuleIDs
  PROVE  r.next[id] \in ModuleIDs \cup {Null} /\ \E i \in 1..4 : id = ModuleOrder[i]
<1>1. PICK i \in 1..4 : id = ModuleOrder[i]
  BY DEF ModuleOrder, ModuleIDs
<1>2. r.next[id] = IF i = 4 THEN Null ELSE ModuleOrder[i + 1]
  BY <1>1 DEF Linked
<1> QED BY <1>1, <1>2, ModuleOrderIs

\* A step that leaves the list alone, between the start of the modules and their end.
LEMMA OrderlyOn ==
  ASSUME Orderly, UNCHANGED <<m, cur, exiting>>, n' \in 1..14,
         \/ pc \in {"start", "open", "read", "save"} /\ pc' \in {"open", "read", "save"} /\ outcome' = outcome
         \/ pc' = "end" /\ outcome' # "running"
  PROVE  Orderly'
<1>1. PICK k \in 0..4 : Linked(m, k) /\ Stage(k)
  BY DEF Orderly
<1>2. (Linked(m, k) /\ Stage(k))'
  BY <1>1 DEF Linked, Stage
<1>3. cur' \in ModuleIDs \cup {Null} /\ exiting' \in BOOLEAN /\ (outcome' = "running" <=> pc' # "end")
  BY DEF Orderly
<1> QED BY <1>2, <1>3 DEF Orderly

LEMMA RegisterOrderly ==
  ASSUME Orderly, RegisterModule \/ ParseCommandLine \/ CommandLineExits
  PROVE  Orderly'
<1>1. pc = "register" /\ exiting' = exiting
  BY DEF RegisterModule, ParseCommandLine, CommandLineExits
<1>2. PICK k \in 0..4 : Linked(m, k) /\ Stage(k)
  BY DEF Orderly
<1>3. n \in 1..4 /\ k = n - 1 /\ k \in 0..3 /\ k + 1 = n /\ m.freed = {}
  BY <1>1, <1>2 DEF Stage
<1>4. Linked(NewModule(m, ModuleOrder[n]), n) /\ NewModule(m, ModuleOrder[n]).freed = {}
  BY <1>2, <1>3, ModuleJoins
<1>5. m' = NewModule(m, ModuleOrder[n])
  BY DEF RegisterModule, ParseCommandLine, CommandLineExits, Registers
<1>6. Linked(m', n) /\ m'.freed = {} /\ n \in 0..4
  BY <1>3, <1>4, <1>5
<1>7. exiting' \in BOOLEAN /\ outcome = "running" /\ cur \in ModuleIDs \cup {Null}
  BY <1>1 DEF Orderly
<1>8. CASE RegisterModule \/ ParseCommandLine
  <2>1. /\ n' = n + 1 /\ outcome' = outcome
        /\ IF n = 4 THEN pc' = "start" /\ cur' = m'.head ELSE pc' = pc /\ cur' = cur
    BY <1>8, ModuleOrderIs DEF RegisterModule, ParseCommandLine, Registers
  <2>2. n' \in 1..14 /\ n = n' - 1
    BY <1>3, <2>1
  <2>3. m'.head \in ModuleIDs
    BY <1>3, <1>6, ModuleOrderIs DEF Linked
  <2>4. \E j \in 0..4 : Linked(m', j) /\ Stage(j)'
    <3>1. CASE n = 4
      <4>1. pc' = "start" /\ Linked(m', 4)
        BY <1>6, <2>1, <3>1
      <4>2. Stage(4)'
        BY <4>1 DEF Stage
      <4> QED BY <4>1, <4>2
    <3>2. CASE n # 4
      <4>1. n' \in 1..4 /\ pc' = "register"
        BY <1>1, <1>3, <2>1, <3>2
      <4>2. \A j : j = n' - 1 => Stage(j)'
        BY <1>6, <4>1 DEF Stage
      <4> QED BY <1>6, <2>2, <4>2
    <3> QED BY <3>1, <3>2
  <2>5. cur' \in ModuleIDs \cup {Null} /\ (outcome' = "running" <=> pc' # "end")
    BY <1>1, <1>7, <2>1, <2>3
  <2>6. (\E j \in 0..4 : Linked(m, j) /\ Stage(j))'
    BY <2>4 DEF Linked
  <2> QED BY <1>7, <2>2, <2>5, <2>6 DEF Orderly
<1>9. CASE CommandLineExits
  <2>1. n' = n /\ cur' = cur /\ pc' = "end" /\ outcome' # "running"
    BY <1>9 DEF CommandLineExits, Exit
  <2>2. (\E j \in 0..4 : Linked(m, j) /\ Stage(j))'
    BY <1>6, <2>1 DEF Linked, Stage
  <2> QED BY <1>3, <1>7, <2>1, <2>2 DEF Orderly
<1> QED BY <1>8, <1>9

LEMMA StartOrderly ==
  ASSUME Orderly, StartLogging \/ StartCompiler \/ StartOther
  PROVE  Orderly'
<1>1. pc = "start" /\ UNCHANGED <<m, exiting>>
  BY DEF StartLogging, StartCompiler, StartOther
<1>2. Linked(m, 4)
  BY <1>1 DEF Orderly, Stage
<1>3. cur # Null => m.next[cur] \in ModuleIDs \cup {Null}
  BY <1>2, LinksTyped DEF Orderly
<1>4. GetModule(m, "cmdline")
  <2>1. PICK k \in 0..4 : k = 4
    OBVIOUS
  <2>2. Linked(m, k) /\ 2 \in 1..k
    BY <1>2, <2>1
  <2> QED BY <2>1, <2>2, ListHolds, ModuleOrderIs
<1>5. /\ pc' \in {"start", "open", "end"} /\ (outcome' = "running" <=> pc' # "end")
      /\ cur' \in ModuleIDs \cup {Null} /\ n' \in {1, n}
  <2>1. outcome = "running" /\ cur \in ModuleIDs \cup {Null}
    BY <1>1 DEF Orderly
  <2>2. CASE StartLogging
    BY <1>1, <1>3, <1>4, <2>1, <2>2 DEF StartLogging, Null
  <2>3. CASE StartCompiler
    BY <1>1, <1>3, <2>1, <2>3 DEF StartCompiler, Exit, Null
  <2>4. CASE StartOther
    BY <1>1, <1>3, <2>1, <2>4 DEF StartOther
  <2> QED BY <2>2, <2>3, <2>4
<1>6. (Linked(m, 4) /\ Stage(4))'
  BY <1>1, <1>2, <1>5 DEF Linked, Stage
<1>7. exiting' \in BOOLEAN /\ n' \in 1..14
  BY <1>1, <1>5 DEF Orderly
<1> QED BY <1>5, <1>6, <1>7 DEF Orderly

LEMMA CompileOrderly ==
  ASSUME RunInv, Orderly,
         \/ OpenPhase \/ OpenFails \/ CompileBlock \/ TooManyErrors \/ EndPhase
         \/ OpenGameFile \/ OpenGameFileFails \/ SaveTable \/ SaveFails
  PROVE  Orderly'
<1>1. n \in 1..14 /\ (outcome = "running" <=> pc # "end")
  BY DEF Orderly
<1>2. CASE OpenPhase
  <2>1. pc = "open" /\ n' = n /\ UNCHANGED <<m, cur, exiting>>
    BY <1>2 DEF OpenPhase
  <2>2. PICK content : IF content = <<>> /\ Phase \in NeedsData
                       THEN Exit("fatal") /\ UNCHANGED src
                       ELSE src' = content /\ pc' = "read" /\ UNCHANGED outcome
    BY <1>2 DEF OpenPhase
  <2>3. \/ pc' = "read" /\ outcome' = outcome
        \/ pc' = "end" /\ outcome' # "running"
    BY <2>2 DEF Exit
  <2> QED BY <1>1, <2>1, <2>3, OrderlyOn
<1>3. CASE OpenFails \/ TooManyErrors \/ OpenGameFileFails \/ SaveFails
  BY <1>3, <1>1, OrderlyOn DEF OpenFails, TooManyErrors, OpenGameFileFails, SaveFails, Exit
<1>4. CASE CompileBlock
  <2>1. pc = "read" /\ n' = n /\ UNCHANGED <<m, cur, exiting>>
    BY <1>4 DEF CompileBlock
  <2>2. IsGame(g')
    BY <1>4, BlockKeepsRun DEF RunInv
  <2>3. g'.fate # "running"
    BY <2>2 DEF IsGame
  <2>4. IF g'.fate = "alive" THEN UNCHANGED <<pc, outcome>> ELSE Exit(g'.fate)
    BY <1>4 DEF CompileBlock
  <2>5. \/ pc' = pc /\ outcome' = outcome
        \/ pc' = "end" /\ outcome' = g'.fate
    BY <2>4 DEF Exit
  <2> QED BY <1>1, <2>1, <2>3, <2>5, OrderlyOn
<1>5. CASE EndPhase
  <2>1. pc = "read" /\ UNCHANGED <<m, cur, exiting>>
    BY <1>5 DEF EndPhase
  <2>2. \/ pc' = "open" /\ outcome' = outcome /\ n' = n + 1
        \/ pc' = "end" /\ outcome' # "running" /\ n' = n
    BY <1>5 DEF EndPhase, Exit
  <2>3. n \in 1..11
    BY <2>1, PhasesAre DEF RunInv
  <2>4. n' \in 1..14
    BY <1>1, <2>2, <2>3
  <2> QED BY <2>1, <2>2, <2>4, OrderlyOn
<1>6. CASE OpenGameFile
  BY <1>6, <1>1, OrderlyOn DEF OpenGameFile
<1>7. CASE SaveTable
  <2>1. /\ pc = "save" /\ pc' = "save" /\ outcome' = outcome /\ n' = n + 1 /\ n <= 13
        /\ UNCHANGED <<m, cur, exiting>>
    BY <1>7, SectionCount DEF SaveTable
  <2>2. n' \in 1..14
    BY <1>1, <2>1
  <2> QED BY <2>1, <2>2, OrderlyOn
<1> QED BY <1>2, <1>3, <1>4, <1>5, <1>6, <1>7

LEMMA CloseOrderly ==
  ASSUME Orderly, Saved \/ CloseNext
  PROVE  Orderly'
<1>1. n' = n /\ n \in 1..14
  BY DEF Orderly, Saved, CloseNext
<1>2. CASE Saved
  <2>1. /\ pc = "save" /\ pc' = "close" /\ exiting' = TRUE /\ cur' = m.tail /\ m' = m
        /\ outcome' = outcome /\ outcome = "running"
    BY <1>2 DEF Saved, Orderly
  <2>2. Linked(m, 4)
    BY <2>1 DEF Orderly, Stage
  <2>3. cur' = ModuleOrder[4] /\ cur' \in ModuleIDs
    BY <2>1, <2>2, ModuleOrderIs DEF Linked
  <2>4. (Linked(m, 4) /\ Stage(4))'
    BY <2>1, <2>2, <2>3 DEF Linked, Stage
  <2> QED BY <1>1, <2>1, <2>3, <2>4 DEF Orderly
<1>3. CASE CloseNext
  <2>1. pc = "close" /\ exiting' = exiting /\ outcome = "running"
    BY <1>3 DEF CloseNext, Orderly
  <2>2. PICK k \in 0..4 : Linked(m, k) /\ cur = IF k = 0 THEN Null ELSE ModuleOrder[k]
    BY <2>1 DEF Orderly, Stage
  <2>3. exiting' \in BOOLEAN
    BY <2>1 DEF Orderly
  <2>4. CASE k = 0
    <3>1. cur = Null
      BY <2>2, <2>4
    <3>2. pc' = "end" /\ outcome' = "finished" /\ UNCHANGED <<cur, m>>
      BY <1>3, <2>1, <3>1 DEF CloseNext, Exit
    <3>3. (Linked(m, k) /\ Stage(k))'
      BY <2>2, <3>2 DEF Linked, Stage
    <3> QED BY <1>1, <2>3, <3>1, <3>2, <3>3 DEF Orderly
  <2>5. CASE k # 0
    <3>1. k \in 1..4 /\ k - 1 \in 0..4 /\ cur = ModuleOrder[k] /\ cur # Null
      BY <2>2, <2>5, ModuleOrderIs
    <3>2. pc' = pc /\ outcome' = outcome /\ cur' = m.prev[cur] /\ m' = CloseModule(m, ModuleOrder[k])
      BY <1>3, <3>1 DEF CloseNext
    <3>3. Linked(m', k - 1)
      BY <2>2, <3>1, <3>2, ModuleLeaves
    <3>4. cur' = IF k - 1 = 0 THEN Null ELSE ModuleOrder[k - 1]
      BY <2>2, <3>1, <3>2 DEF Linked
    <3>5. cur' \in ModuleIDs \cup {Null}
      BY <3>1, <3>4, ModuleOrderIs
    <3>6. \A j : j = k - 1 => Stage(j)'
      BY <2>1, <3>2, <3>4 DEF Stage
    <3>7. (\E j \in 0..4 : Linked(m, j) /\ Stage(j))'
      BY <3>1, <3>3, <3>6 DEF Linked
    <3> QED BY <1>1, <2>1, <2>3, <3>2, <3>5, <3>7 DEF Orderly
  <2> QED BY <2>4, <2>5
<1> QED BY <1>2, <1>3

LEMMA OrderKept == RunInv /\ Orderly /\ [Next]_vars => Orderly'
<1> SUFFICES ASSUME RunInv, Orderly, [Next]_vars PROVE Orderly'
  OBVIOUS
<1>1. CASE RegisterModule \/ ParseCommandLine \/ CommandLineExits
  BY <1>1, RegisterOrderly
<1>2. CASE StartLogging \/ StartCompiler \/ StartOther
  BY <1>2, StartOrderly
<1>3. CASE \/ OpenPhase \/ OpenFails \/ CompileBlock \/ TooManyErrors \/ EndPhase
           \/ OpenGameFile \/ OpenGameFileFails \/ SaveTable \/ SaveFails
  BY <1>3, CompileOrderly
<1>4. CASE Saved \/ CloseNext
  BY <1>4, CloseOrderly
<1>5. CASE StartServer \/ Done \/ UNCHANGED vars
  BY <1>5 DEF StartServer, Done, vars, Orderly, Linked, Stage
<1> QED BY <1>1, <1>2, <1>3, <1>4, <1>5 DEF Next, Runs

-----------------------------------------------------------------------------
(***************************************************************************)
(* What the entries of the tables refer to.                                *)
(***************************************************************************)
LEMMA TopIs ==
  ASSUME NEW h, IsGame(h), NEW s \in TableNames
  PROVE  /\ IsList(h.tab[s]) /\ Len(h.tab[s]) \in Nat /\ DOMAIN h.tab[s] = 1..Len(h.tab[s])
         /\ Top(h, s) = Len(h.tab[s]) - 1 /\ Top(h, s) \in Int
<1>1. IsList(h.tab[s])
  BY DEF IsGame
<1>2. Len(h.tab[s]) \in Nat
  BY <1>1, ListParts
<1> QED BY <1>1, <1>2, ListParts DEF Top

LEMMA TopGrows ==
  ASSUME NEW h, IsGame(h), NEW k, Grows(h, k), NEW s \in TableNames
  PROVE  Top(h, s) <= Top(k, s) /\ Top(h, s) \in Int /\ Top(k, s) \in Int
BY TopIs DEF Grows, Top

LEMMA GrowsOn ==
  ASSUME NEW h, IsGame(h), NEW k, Grows(h, k), NEW l, Grows(k, l)
  PROVE  Grows(h, l)
<1>1. IsGame(k) /\ IsGame(l) /\ l.quiet = h.quiet /\ (Moves(h) => Moves(l))
  BY DEF Grows
<1>2. LabelsKept(h, l)
  BY DEF Grows, LabelsKept
<1>3. ASSUME NEW s \in TableNames
      PROVE  Len(h.tab[s]) <= Len(l.tab[s])
  <2>1. Len(h.tab[s]) \in Nat /\ Len(k.tab[s]) \in Nat /\ Len(l.tab[s]) \in Nat
    BY <1>1, TopIs
  <2>2. Len(h.tab[s]) <= Len(k.tab[s]) /\ Len(k.tab[s]) <= Len(l.tab[s])
    BY DEF Grows
  <2> QED BY <2>1, <2>2
<1>4. ASSUME NEW i \in DOMAIN h.tab["objects"]
      PROVE  l.tab["objects"][i] = h.tab["objects"][i]
  <2>1. "objects" \in TableNames
    BY DEF TableNames
  <2>2. /\ DOMAIN h.tab["objects"] = 1..Len(h.tab["objects"]) /\ DOMAIN k.tab["objects"] = 1..Len(k.tab["objects"])
        /\ Len(h.tab["objects"]) \in Nat /\ Len(k.tab["objects"]) \in Nat
    BY <1>1, <2>1, TopIs
  <2>3. Len(h.tab["objects"]) <= Len(k.tab["objects"])
    BY <2>1 DEF Grows
  <2>4. i \in DOMAIN k.tab["objects"]
    BY <2>2, <2>3
  <2> QED BY <2>4 DEF Grows
<1> QED BY <1>1, <1>2, <1>3, <1>4 DEF Grows

LEMMA GrowsNot ==
  ASSUME NEW h, IsGame(h)
  PROVE  Grows(h, h) /\ (Refs(h) => Extends(h, h))
<1>1. \A s \in TableNames : Len(h.tab[s]) <= Len(h.tab[s])
  BY TopIs
<1>2. Grows(h, h)
  BY <1>1 DEF Grows, LabelsKept
<1> QED BY <1>2 DEF Extends, SyntaxKept

LEMMA ExtendsOn ==
  ASSUME NEW h, IsGame(h), NEW k, Extends(h, k), NEW l, Extends(k, l)
  PROVE  Extends(h, l)
<1>1. Grows(h, l)
  BY GrowsOn DEF Extends
<1>2. SyntaxKept(h, l)
  BY DEF Extends, SyntaxKept
<1> QED BY <1>1, <1>2 DEF Extends

LEMMA ArgGrows ==
  ASSUME NEW h, IsGame(h), NEW k, Grows(h, k), NEW arg, NEW kind, ArgRight(h, arg, kind)
  PROVE  ArgRight(k, arg, kind)
<1>1. \A s \in TableNames : Top(h, s) <= Top(k, s) /\ Top(h, s) \in Int /\ Top(k, s) \in Int
  BY TopGrows
<1>2. \A s \in TableNames : \A i, x : i \in Int /\ x \in i..Top(h, s) => x \in i..Top(k, s)
  BY <1>1
<1>3. {"rooms", "objects", "verbs", "string_index"} \subseteq TableNames
  BY DEF TableNames
<1>4. (IF kind = "real" THEN -1 ELSE 0) \in Int
  OBVIOUS
<1> QED BY <1>2, <1>3, <1>4 DEF ArgRight

LEMMA OperationGrows ==
  ASSUME NEW h, IsGame(h), NEW k, Grows(h, k), NEW op, NEW params, OperationRight(h, op, params)
  PROVE  OperationRight(k, op, params)
BY ArgGrows DEF OperationRight

LEMMA LineGrows ==
  ASSUME NEW h, IsGame(h), NEW k, Grows(h, k), NEW line, LineRight(h, line)
  PROVE  LineRight(k, line)
BY OperationGrows DEF LineRight

LEMMA PlaceGrows ==
  ASSUME NEW h, IsGame(h), NEW k, Grows(h, k), NEW e, PlaceRight(h, e)
  PROVE  PlaceRight(k, e)
<1>1. "objects" \in TableNames /\ "rooms" \in TableNames
  BY DEF TableNames
<1>2. /\ Top(h, "rooms") <= Top(k, "rooms") /\ Top(h, "rooms") \in Int /\ Top(k, "rooms") \in Int
      /\ Top(h, "objects") <= Top(k, "objects") /\ Top(h, "objects") \in Int /\ Top(k, "objects") \in Int
  BY <1>1, TopGrows
<1>3. CASE e.place \in 0..Top(h, "rooms")
  BY <1>2, <1>3 DEF PlaceRight
<1>4. CASE \E j \in 0..Top(h, "objects") :
             j < e.of /\ e.place = Inside(j) /\ h.tab["objects"][j + 1].contains > 0
  <2>1. PICK j \in 0..Top(h, "objects") :
          j < e.of /\ e.place = Inside(j) /\ h.tab["objects"][j + 1].contains > 0
    BY <1>4
  <2>2. DOMAIN h.tab["objects"] = 1..Len(h.tab["objects"]) /\ Len(h.tab["objects"]) \in Nat
    BY <1>1, TopIs
  <2>3. j + 1 \in DOMAIN h.tab["objects"]
    BY <2>2 DEF Top
  <2>4. k.tab["objects"][j + 1] = h.tab["objects"][j + 1]
    BY <2>3 DEF Grows
  <2>5. j \in 0..Top(k, "objects")
    BY <1>2
  <2> QED BY <2>1, <2>4, <2>5 DEF PlaceRight
<1> QED BY <1>3, <1>4 DEF PlaceRight

\* An entry stays right while the game grows, and the types of the words of syntax lines stay.
LEMMA EntryGrows ==
  ASSUME NEW h, IsGame(h), NEW k, Grows(h, k), \A of \in Nat : Types(k, of) = Types(h, of),
         NEW s \in TableNames, NEW e, EntryRight(h, s, e)
  PROVE  EntryRight(k, s, e)
<1>1. \A t \in TableNames : Top(h, t) <= Top(k, t) /\ Top(h, t) \in Int /\ Top(k, t) \in Int
  BY TopGrows
<1>2. {"rooms", "objects", "verbs", "string_index", "npc_classes"} \subseteq TableNames
  BY DEF TableNames
<1>3. \A t \in TableNames : \A i, x : i \in Int /\ x \in i..Top(h, t) => x \in i..Top(k, t)
  BY <1>1
<1>4. s = "rooms" => DOMAIN e = RoomFields /\ e.dmove \in -1..Top(k, "rooms")
  BY <1>2, <1>3 DEF EntryRight
<1>5. s = "npc_classes" => /\ e.dmove \in -1..Top(k, "rooms")
                           /\ ToSet(e.texts) \subseteq -1..Top(k, "string_index")
  BY <1>2, <1>3 DEF EntryRight
<1>6. s = "objects" => e.npc \in -1..Top(k, "npc_classes")
  BY <1>2, <1>3 DEF EntryRight
<1>7. s = "object_locations" => PlaceRight(k, e)
  BY PlaceGrows DEF EntryRight
<1>8. s = "language_code" => e.of \in Nat /\ LineRight(k, e) /\ LineFits(e, Types(k, e.of))
  BY LineGrows DEF EntryRight
<1>9. s = "travel" => e.verb \in 0..Top(k, "verbs") /\ LineRight(k, e)
  BY <1>2, <1>3, LineGrows DEF EntryRight
<1>10. s = "synonyms" => e.aliases \in -2..Top(k, IF e.type = "noun" THEN "objects" ELSE "verbs") \ {-1}
  BY <1>2, <1>3 DEF EntryRight
<1> QED BY <1>4, <1>5, <1>6, <1>7, <1>8, <1>9, <1>10 DEF EntryRight

LEMMA RefsGrow ==
  ASSUME NEW h, IsGame(h), Refs(h), NEW k, Grows(h, k), \A of \in Nat : Types(k, of) = Types(h, of),
         IndexRight(k),
         \A s \in TableNames : \A i \in DOMAIN k.tab[s] :
           (i \in DOMAIN h.tab[s] /\ k.tab[s][i] = h.tab[s][i]) \/ EntryRight(k, s, k.tab[s][i])
  PROVE  Refs(k)
<1> SUFFICES ASSUME NEW s \in TableNames, NEW i \in DOMAIN k.tab[s]
             PROVE  EntryRight(k, s, k.tab[s][i])
  BY DEF Refs
<1>1. CASE i \in DOMAIN h.tab[s] /\ k.tab[s][i] = h.tab[s][i]
  BY <1>1, EntryGrows DEF Refs
<1> QED BY <1>1

LEMMA AlikeExtends ==
  ASSUME NEW h, IsGame(h), Refs(h), NEW k, IsGame(k), Alike(h, k)
  PROVE  Extends(h, k)
<1>1. \A s \in TableNames : Len(h.tab[s]) <= Len(k.tab[s])
  BY TopIs DEF Alike
<1>2. Grows(h, k)
  BY <1>1 DEF Grows, LabelsKept, Moves, Alike
<1>3. \A of \in Nat : Types(k, of) = Types(h, of)
  BY DEF Types, Alike
<1>4. IndexRight(k)
  BY DEF Refs, IndexRight, Alike, Top
<1>5. Refs(k)
  BY <1>2, <1>3, <1>4, RefsGrow DEF Alike
<1> QED BY <1>2, <1>5 DEF Extends, SyntaxKept, Alike

LEMMA ErrorsExtend ==
  ASSUME NEW h, IsGame(h), Refs(h), NEW i \in Nat
  PROVE  Extends(h, Errors(h, i))
<1>1. IsGame(Errors(h, i))
  BY ErrorsEvolve DEF Evolves
<1>2. Alike(h, Errors(h, i))
  BY DEF Alike, Errors, IsGame, GameFields
<1> QED BY <1>1, <1>2, AlikeExtends

LEMMA LogErrorExtends ==
  ASSUME NEW h, IsGame(h), Refs(h)
  PROVE  Extends(h, LogError(h))
BY ErrorsExtend DEF LogError

LEMMA FateExtends ==
  ASSUME NEW h, IsGame(h), Refs(h)
  PROVE  Extends(h, LogFatal(h)) /\ Extends(h, Crash(h))
<1>1. IsGame(LogFatal(h)) /\ IsGame(Crash(h))
  BY FateEvolves DEF Evolves
<1>2. Alike(h, LogFatal(h)) /\ Alike(h, Crash(h))
  BY DEF Alike, LogFatal, Crash, IsGame, GameFields
<1> QED BY <1>1, <1>2, AlikeExtends

LEMMA CountedExtends ==
  ASSUME NEW h, IsGame(h), Refs(h), NEW s \in TableNames
  PROVE  Extends(h, Counted(h, s))
<1>1. IsGame(Counted(h, s))
  BY CountedEvolves DEF Evolves
<1>2. Alike(h, Counted(h, s))
  BY DEF Alike, Counted, IsGame, GameFields
<1> QED BY <1>1, <1>2, AlikeExtends

LEMMA SkipExtends ==
  ASSUME NEW h, IsGame(h), Refs(h), NEW skip
  PROVE  Extends(h, [h EXCEPT !.skip = skip])
<1>1. IsGame([h EXCEPT !.skip = skip])
  BY DEF IsGame, GameFields
<1>2. Alike(h, [h EXCEPT !.skip = skip])
  BY DEF Alike, IsGame, GameFields
<1> QED BY <1>1, <1>2, AlikeExtends

\* The game when only one of its tables grows or has been written over.
LEMMA TableGrows ==
  ASSUME NEW h, IsGame(h), Refs(h), NEW k, IsGame(k), NEW s \in TableNames \ {"syntax_lines"},
         \A t \in TableNames \ {s} : k.tab[t] = h.tab[t],
         Len(h.tab[s]) <= Len(k.tab[s]),
         k.quiet = h.quiet, k.vbslot = h.vbslot, LabelsKept(h, k), IndexRight(k), Moves(h) => Moves(k),
         s = "objects" => \A i \in DOMAIN h.tab[s] : k.tab[s][i] = h.tab[s][i],
         \A i \in DOMAIN k.tab[s] :
           (i \in DOMAIN h.tab[s] /\ k.tab[s][i] = h.tab[s][i]) \/ EntryRight(h, s, k.tab[s][i])
  PROVE  Grows(h, k) /\ Refs(k) /\ (s # "language_code" => Extends(h, k))
<1>1. {"syntax_lines", "objects", "language_code"} \subseteq TableNames
  BY DEF TableNames
<1>2. ASSUME NEW t \in TableNames
      PROVE  Len(h.tab[t]) <= Len(k.tab[t])
  BY TopIs
<1>3. \A i \in DOMAIN h.tab["objects"] : k.tab["objects"][i] = h.tab["objects"][i]
  BY <1>1
<1>4. Grows(h, k)
  BY <1>2, <1>3 DEF Grows
<1>5. k.tab["syntax_lines"] = h.tab["syntax_lines"]
  BY <1>1
<1>6. \A of \in Nat : Types(k, of) = Types(h, of)
  BY <1>5 DEF Types
<1>7. ASSUME NEW t \in TableNames, NEW i \in DOMAIN k.tab[t]
      PROVE  (i \in DOMAIN h.tab[t] /\ k.tab[t][i] = h.tab[t][i]) \/ EntryRight(k, t, k.tab[t][i])
  <2>1. CASE t = s
    BY <1>4, <1>6, <2>1, EntryGrows
  <2>2. CASE t # s
    BY <2>2
  <2> QED BY <2>1, <2>2
<1>8. Refs(k)
  BY <1>4, <1>6, <1>7, RefsGrow
<1>9. s # "language_code" => SyntaxKept(h, k)
  BY <1>1, <1>5 DEF SyntaxKept
<1> QED BY <1>4, <1>8, <1>9 DEF Extends

LEMMA IndexGrows ==
  ASSUME NEW h, IsGame(h), IndexRight(h), NEW k, IsGame(k), k.labels = h.labels, k.roomIdx = h.roomIdx,
         \A s \in TableNames : Len(h.tab[s]) <= Len(k.tab[s]), NamesKept(h, k)
  PROVE  IndexRight(k) /\ LabelsKept(h, k)
<1>1. \A s \in TableNames : Top(h, s) <= Top(k, s) /\ Top(h, s) \in Int /\ Top(k, s) \in Int
  <2> SUFFICES ASSUME NEW s \in TableNames PROVE Top(h, s) <= Top(k, s) /\ Top(h, s) \in Int /\ Top(k, s) \in Int
    OBVIOUS
  <2>1. Len(h.tab[s]) \in Nat /\ Len(k.tab[s]) \in Nat /\ Len(h.tab[s]) <= Len(k.tab[s])
    BY TopIs
  <2> QED BY <2>1 DEF Top
<1>2. "string_index" \in TableNames /\ "rooms" \in TableNames
  BY DEF TableNames
<1>3. \A x : (x \in 0..Top(h, "rooms") => x \in 0..Top(k, "rooms"))
             /\ (x \in 0..Top(h, "string_index") => x \in 0..Top(k, "string_index"))
  BY <1>1, <1>2
<1>4. ASSUME NEW name \in DOMAIN h.roomIdx
      PROVE  k.tab["rooms"][h.roomIdx[name] + 1].id = name
  <2>1. h.roomIdx[name] \in 0..Top(h, "rooms") /\ h.tab["rooms"][h.roomIdx[name] + 1].id = name
    BY DEF IndexRight
  <2>2. DOMAIN h.tab["rooms"] = 1..Len(h.tab["rooms"]) /\ Len(h.tab["rooms"]) \in Nat
    BY <1>2, TopIs
  <2>3. h.roomIdx[name] + 1 \in DOMAIN h.tab["rooms"]
    BY <2>1, <2>2 DEF Top
  <2> QED BY <2>1, <2>3 DEF NamesKept
<1> QED BY <1>3, <1>4 DEF IndexRight, LabelsKept

\* An entry more, and several more.
LEMMA PushExtends ==
  ASSUME NEW h, IsGame(h), Refs(h), NEW s \in TableNames \ {"syntax_lines", "language_code"}, NEW e,
         EntryRight(h, s, e)
  PROVE  /\ IsGame(push_back(h, s, e)) /\ push_back(h, s, e).tab[s] = Append(h.tab[s], e)
         /\ Extends(h, push_back(h, s, e)) /\ Extends(h, Counted(push_back(h, s, e), s))
<1> DEFINE k == push_back(h, s, e)
<1>1. Evolves(h, k, {s}) /\ IsGame(k) /\ k.tab[s] = Append(h.tab[s], e)
  BY PushEvolves DEF Evolves
<1>2. k.vbslot = h.vbslot /\ k.labels = h.labels /\ k.roomIdx = h.roomIdx /\ k.dmoves = h.dmoves
  BY DEF push_back, IsGame, GameFields
<1> HIDE DEF k
<1>3. /\ Len(h.tab[s]) \in Nat /\ Len(k.tab[s]) = Len(h.tab[s]) + 1
      /\ DOMAIN h.tab[s] = 1..Len(h.tab[s]) /\ DOMAIN k.tab[s] = 1..(Len(h.tab[s]) + 1)
      /\ \A i \in DOMAIN h.tab[s] : k.tab[s][i] = h.tab[s][i]
      /\ k.tab[s][Len(h.tab[s]) + 1] = e
  <2>1. IsList(h.tab[s]) /\ Len(h.tab[s]) \in Nat /\ DOMAIN h.tab[s] = 1..Len(h.tab[s])
    BY TopIs
  <2>2. /\ IsList(k.tab[s]) /\ Len(k.tab[s]) = Len(h.tab[s]) + 1
        /\ \A i \in 1..Len(h.tab[s]) : k.tab[s][i] = h.tab[s][i]
        /\ k.tab[s][Len(h.tab[s]) + 1] = e
    BY <1>1, <2>1, ListAppend
  <2>3. DOMAIN k.tab[s] = 1..Len(k.tab[s])
    BY <2>2, ListParts
  <2> QED BY <2>1, <2>2, <2>3
<1>4. \A t \in TableNames \ {s} : k.tab[t] = h.tab[t]
  BY <1>1 DEF Evolves
<1>5. \A t \in TableNames : Len(h.tab[t]) <= Len(k.tab[t])
  <2> SUFFICES ASSUME NEW t \in TableNames PROVE Len(h.tab[t]) <= Len(k.tab[t])
    OBVIOUS
  <2>1. Len(h.tab[t]) \in Nat
    BY TopIs
  <2> QED BY <1>3, <1>4, <2>1
<1>6. IndexRight(k) /\ LabelsKept(h, k)
  <2>1. NamesKept(h, k)
    <3>1. CASE s = "rooms"
      BY <1>3, <3>1 DEF NamesKept
    <3>2. CASE s # "rooms"
      BY <1>4, <3>2 DEF NamesKept, TableNames
    <3> QED BY <3>1, <3>2
  <2> QED BY <1>1, <1>2, <1>5, <2>1, IndexGrows DEF Refs
<1>7. \A i \in DOMAIN k.tab[s] :
        (i \in DOMAIN h.tab[s] /\ k.tab[s][i] = h.tab[s][i]) \/ EntryRight(h, s, k.tab[s][i])
  BY <1>3
<1>8. Extends(h, k)
  <2>1. k.quiet = h.quiet
    BY <1>1 DEF Evolves
  <2>2. Len(h.tab[s]) <= Len(k.tab[s])
    BY <1>5
  <2>3. s = "objects" => \A i \in DOMAIN h.tab[s] : k.tab[s][i] = h.tab[s][i]
    BY <1>3
  <2>4. Moves(h) => Moves(k)
    BY <1>2 DEF Moves
  <2> QED BY <1>1, <1>2, <1>4, <1>6, <1>7, <2>1, <2>2, <2>3, <2>4, TableGrows
<1>9. Extends(h, Counted(k, s))
  BY <1>1, <1>8, CountedExtends, ExtendsOn DEF Extends
<1> QED BY <1>1, <1>8, <1>9 DEF k

LEMMA AppendedGrows ==
  ASSUME NEW h, IsGame(h), Refs(h), NEW s \in TableNames \ {"syntax_lines"}, NEW list, IsList(list),
         \A i \in DOMAIN list : EntryRight(h, s, list[i])
  PROVE  /\ Grows(h, Appended(h, s, list)) /\ Refs(Appended(h, s, list))
         /\ s # "language_code" => Extends(h, Appended(h, s, list))
<1> DEFINE k == Appended(h, s, list)
<1>1. Evolves(h, k, {s}) /\ IsGame(k) /\ k.tab[s] = h.tab[s] \o list
  BY AppendedEvolves DEF Evolves
<1>2. k.vbslot = h.vbslot /\ k.labels = h.labels /\ k.roomIdx = h.roomIdx /\ k.dmoves = h.dmoves
  BY DEF Appended, IsGame, GameFields
<1> HIDE DEF k
<1>3. /\ Len(h.tab[s]) \in Nat /\ Len(list) \in Nat /\ Len(k.tab[s]) = Len(h.tab[s]) + Len(list)
      /\ DOMAIN h.tab[s] = 1..Len(h.tab[s]) /\ DOMAIN k.tab[s] = 1..(Len(h.tab[s]) + Len(list))
      /\ DOMAIN list = 1..Len(list)
      /\ \A i \in 1..Len(h.tab[s]) : k.tab[s][i] = h.tab[s][i]
      /\ \A i \in 1..Len(list) : k.tab[s][Len(h.tab[s]) + i] = list[i]
  <2>1. IsList(h.tab[s]) /\ Len(h.tab[s]) \in Nat /\ DOMAIN h.tab[s] = 1..Len(h.tab[s])
    BY TopIs
  <2>2. Len(list) \in Nat /\ DOMAIN list = 1..Len(list)
    BY ListParts
  <2>3. /\ Len(k.tab[s]) = Len(h.tab[s]) + Len(list) /\ DOMAIN k.tab[s] = 1..(Len(h.tab[s]) + Len(list))
        /\ \A i \in 1..Len(h.tab[s]) : k.tab[s][i] = h.tab[s][i]
        /\ \A i \in 1..Len(list) : k.tab[s][Len(h.tab[s]) + i] = list[i]
    BY <1>1, <2>1, ListConcat
  <2> QED BY <2>1, <2>2, <2>3
<1>4. \A t \in TableNames \ {s} : k.tab[t] = h.tab[t]
  BY <1>1 DEF Evolves
<1>5. \A t \in TableNames : Len(h.tab[t]) <= Len(k.tab[t])
  <2> SUFFICES ASSUME NEW t \in TableNames PROVE Len(h.tab[t]) <= Len(k.tab[t])
    OBVIOUS
  <2>1. Len(h.tab[t]) \in Nat
    BY TopIs
  <2> QED BY <1>3, <1>4, <2>1
<1>6. IndexRight(k) /\ LabelsKept(h, k)
  <2>1. NamesKept(h, k)
    <3>1. CASE s = "rooms"
      <4>1. \A x, y \in Nat : \A z \in 1..x : z \in 1..(x + y)
        OBVIOUS
      <4> QED BY <1>3, <3>1, <4>1 DEF NamesKept
    <3>2. CASE s # "rooms"
      BY <1>4, <3>2 DEF NamesKept, TableNames
    <3> QED BY <3>1, <3>2
  <2> QED BY <1>1, <1>2, <1>5, <2>1, IndexGrows DEF Refs
<1>7. \A i \in DOMAIN k.tab[s] :
        (i \in DOMAIN h.tab[s] /\ k.tab[s][i] = h.tab[s][i]) \/ EntryRight(h, s, k.tab[s][i])
  <2> SUFFICES ASSUME NEW i \in DOMAIN k.tab[s], i \notin DOMAIN h.tab[s] PROVE EntryRight(h, s, k.tab[s][i])
    BY <1>3
  <2>1. i - Len(h.tab[s]) \in 1..Len(list) /\ Len(h.tab[s]) + (i - Len(h.tab[s])) = i
    <3>1. \A x, y \in Nat : \A z \in 1..(x + y) : z \notin 1..x => z - x \in 1..y /\ x + (z - x) = z
      OBVIOUS
    <3>2. i \in 1..(Len(h.tab[s]) + Len(list)) /\ i \notin 1..Len(h.tab[s])
      BY <1>3
    <3> QED BY <1>3, <3>1, <3>2
  <2>2. k.tab[s][i] = list[i - Len(h.tab[s])]
    BY <1>3, <2>1
  <2> QED BY <1>3, <2>1, <2>2
<1> QED
  <2>1. k.quiet = h.quiet
    BY <1>1 DEF Evolves
  <2>2. s = "objects" => \A i \in DOMAIN h.tab[s] : k.tab[s][i] = h.tab[s][i]
    BY <1>3
  <2>3. Len(h.tab[s]) <= Len(k.tab[s])
    BY <1>5
  <2>4. Moves(h) => Moves(k)
    BY <1>2 DEF Moves
  <2>5. Grows(h, k) /\ Refs(k) /\ (s # "language_code" => Extends(h, k))
    BY <1>1, <1>2, <1>4, <1>6, <1>7, <2>1, <2>2, <2>3, <2>4, TableGrows
  <2> QED BY <2>5 DEF k

\* The same number of entries, none of which refers to anything that is not there.
LEMMA EditedExtends ==
  ASSUME NEW h, IsGame(h), Refs(h), NEW s \in TableNames \ {"syntax_lines", "language_code", "objects"},
         NEW t, IsList(t), Len(t) = Len(h.tab[s]),
         \A i \in DOMAIN t : t[i] = h.tab[s][i] \/ EntryRight(h, s, t[i]),
         s = "rooms" => \A i \in DOMAIN t : t[i].id = h.tab[s][i].id
  PROVE  IsGame(Edited(h, s, t)) /\ Extends(h, Edited(h, s, t))
<1> DEFINE k == Edited(h, s, t)
<1>1. Evolves(h, k, {s}) /\ IsGame(k) /\ k.tab[s] = t
  BY EditedEvolves DEF Evolves
<1>2. k.vbslot = h.vbslot /\ k.labels = h.labels /\ k.roomIdx = h.roomIdx /\ k.dmoves = h.dmoves
  BY DEF Edited, IsGame, GameFields
<1> HIDE DEF k
<1>3. \A r \in TableNames \ {s} : k.tab[r] = h.tab[r]
  BY <1>1 DEF Evolves
<1>4. \A r \in TableNames : Len(h.tab[r]) <= Len(k.tab[r])
  <2> SUFFICES ASSUME NEW r \in TableNames PROVE Len(h.tab[r]) <= Len(k.tab[r])
    OBVIOUS
  <2>1. Len(h.tab[r]) \in Nat
    BY TopIs
  <2> QED BY <1>1, <1>3, <2>1
<1>5. DOMAIN t = DOMAIN h.tab[s]
  BY TopIs, ListParts
<1>6. IndexRight(k) /\ LabelsKept(h, k)
  <2>1. NamesKept(h, k)
    <3>1. CASE s = "rooms"
      BY <1>1, <1>5, <3>1 DEF NamesKept
    <3>2. CASE s # "rooms"
      BY <1>3, <3>2 DEF NamesKept, TableNames
    <3> QED BY <3>1, <3>2
  <2> QED BY <1>1, <1>2, <1>4, <2>1, IndexGrows DEF Refs
<1>7. k.quiet = h.quiet
  BY <1>1 DEF Evolves
<1>8. \A i \in DOMAIN k.tab[s] :
        (i \in DOMAIN h.tab[s] /\ k.tab[s][i] = h.tab[s][i]) \/ EntryRight(h, s, k.tab[s][i])
  BY <1>1, <1>5
<1>9. s # "objects" /\ s # "language_code"
  OBVIOUS
<1>10. Moves(h) => Moves(k)
  BY <1>2 DEF Moves
<1>11. Extends(h, k)
  BY <1>1, <1>2, <1>3, <1>4, <1>6, <1>7, <1>8, <1>9, <1>10, TableGrows
<1> QED BY <1>1, <1>11 DEF k

-----------------------------------------------------------------------------
(***************************************************************************)
(* References of texts, rooms, ranks and NPC classes.                      *)
(***************************************************************************)
LEMMA TextExtends ==
  ASSUME NEW h, IsGame(h), Refs(h), NEW text
  PROVE  /\ Extends(h, AddTextString(h, text))
         /\ Size(h, "string_index") \in 0..Top(AddTextString(h, text), "string_index")
         /\ Extends(h, RegisterTextString(h, text))
<1>1. "string_index" \in TableNames \ {"syntax_lines", "language_code"} /\ "string_index" \in TableNames
  BY DEF TableNames
<1>2. EntryRight(h, "string_index", text)
  BY DEF EntryRight
<1> DEFINE k == AddTextString(h, text)
<1>3. Extends(h, k) /\ k.tab["string_index"] = Append(h.tab["string_index"], text) /\ IsGame(k)
  BY <1>1, <1>2, PushExtends DEF AddTextString
<1>4. Size(h, "string_index") \in 0..Top(k, "string_index")
  <2>1. IsList(h.tab["string_index"]) /\ Len(h.tab["string_index"]) \in Nat
    BY <1>1, TopIs
  <2>2. Len(k.tab["string_index"]) = Len(h.tab["string_index"]) + 1
    BY <1>3, <2>1, ListAppend
  <2> QED BY <2>1, <2>2 DEF Size, Top
<1>5. ASSUME text \notin DOMAIN h.labels
      PROVE  Extends(h, RegisterTextString(h, text))
  <2> DEFINE l == AddTextString([h EXCEPT !.labels = Bind(@, text, Size(h, "string_index"))], text)
  <2>1. RegisterTextString(h, text) = l
    BY <1>5 DEF RegisterTextString
  <2>2. IsGame(l) /\ Evolves(h, l, {"string_index"})
    BY <2>1, TextEvolves DEF Evolves
  <2>3. l.tab = k.tab /\ l.vbslot = h.vbslot /\ l.roomIdx = h.roomIdx /\ l.dmoves = h.dmoves
        /\ l.labels = Bind(h.labels, text, Size(h, "string_index"))
    BY DEF AddTextString, push_back, IsGame, GameFields
  <2> HIDE DEF l, k
  <2>4. Grows(h, k) /\ IndexRight(k)
    BY <1>3 DEF Extends, Refs
  <2>5. k.roomIdx = h.roomIdx /\ k.labels = h.labels
    BY DEF k, AddTextString, push_back, IsGame, GameFields
  <2>6. LabelsKept(h, l)
    BY <1>5, <2>3 DEF LabelsKept, Bind
  <2>7. IndexRight(l)
    BY <1>4, <2>3, <2>4, <2>5 DEF IndexRight, Bind, Top
  <2>8. /\ \A t \in TableNames \ {"string_index"} : l.tab[t] = h.tab[t]
        /\ l.quiet = h.quiet
    BY <2>2 DEF Evolves
  <2>9. Len(h.tab["string_index"]) <= Len(l.tab["string_index"])
    BY <1>1, <2>3, <2>4 DEF Grows
  <2>10. \A i \in DOMAIN l.tab["string_index"] : EntryRight(h, "string_index", l.tab["string_index"][i])
    BY DEF EntryRight
  <2>11. "string_index" \in TableNames \ {"syntax_lines"}
    BY <1>1
  <2>12. Moves(h) => Moves(l)
    BY <2>3 DEF Moves
  <2>13. Extends(h, l)
    BY <2>2, <2>3, <2>6, <2>7, <2>8, <2>9, <2>10, <2>11, <2>12, TableGrows
  <2> QED BY <2>1, <2>13
<1>6. text \in DOMAIN h.labels => Extends(h, RegisterTextString(h, text))
  BY GrowsNot DEF RegisterTextString
<1> QED BY <1>3, <1>4, <1>5, <1>6

LEMMA TextArgumentRight ==
  ASSUME NEW h, IsGame(h), Refs(h), NEW arg
  PROVE  /\ Extends(h, getTextString(h, arg).g)
         /\ getTextString(h, arg).id \in -1..Top(getTextString(h, arg).g, "string_index")
<1> DEFINE r == getTextString(h, arg)
<1>1. "string_index" \in TableNames
  BY DEF TableNames
<1>2. Top(h, "string_index") \in Int /\ -1 <= Top(h, "string_index")
  BY <1>1, TopIs DEF Top
<1>3. CASE arg.mod = "quoted"
  <2>1. r.g = AddTextString(h, arg.name) /\ r.id = Size(h, "string_index")
    BY <1>3 DEF getTextString
  <2>2. Extends(h, r.g) /\ r.id \in 0..Top(r.g, "string_index")
    BY <2>1, TextExtends
  <2>3. Top(r.g, "string_index") \in Int
    BY <1>1, <2>2, TopIs DEF Extends, Grows
  <2> HIDE DEF r
  <2> QED BY <2>2, <2>3 DEF r
<1>4. CASE arg.mod # "quoted"
  <2>1. r.g = h /\ r.id = (IF arg.name \in DOMAIN h.labels THEN h.labels[arg.name] ELSE -1)
    BY <1>4 DEF getTextString
  <2>2. arg.name \in DOMAIN h.labels => h.labels[arg.name] \in 0..Top(h, "string_index")
    BY DEF Refs, IndexRight
  <2>3. r.id \in -1..Top(h, "string_index")
    BY <1>2, <2>1, <2>2
  <2> HIDE DEF r
  <2> QED BY <2>1, <2>3, GrowsNot DEF r
<1> QED BY <1>3, <1>4

LEMMA MessageExtends ==
  ASSUME NEW h, IsGame(h), Refs(h), NEW b, NEW allowed
  PROVE  Extends(h, consumeMessage(h, b, allowed))
BY TextExtends, LogErrorExtends DEF consumeMessage

-----------------------------------------------------------------------------
(***************************************************************************)
(* How far a loop has come after a number of rounds.                       *)
(***************************************************************************)
LEMMA RoundsReach ==
  ASSUME NEW loop, NEW base, NEW list, IsList(list), NEW result, Rounds(loop, base, list, result),
         Reached(loop, base, 0),
         \A a : \A i \in 1..Len(list) : Reached(loop, a, i - 1) => Reached(loop, Round(loop, a, list[i]), i)
  PROVE  Reached(loop, result, Len(list))
<1>1. Len(list) \in Nat /\ DOMAIN list = 1..Len(list)
  BY ListParts
<1>2. PICK p : /\ p[0] = base
               /\ \A i \in DOMAIN list : p[i] = Round(loop, p[i - 1], list[i])
               /\ result = p[Len(list)]
  BY DEF Rounds
<1> DEFINE S == {k \in Nat : k <= Len(list) => Reached(loop, p[k], k)}
<1>3. 0 \in S
  BY <1>2
<1>4. ASSUME NEW k \in Nat, k \in S
      PROVE  k + 1 \in S
  <2> SUFFICES ASSUME k + 1 <= Len(list) PROVE Reached(loop, p[k + 1], k + 1)
    OBVIOUS
  <2>1. k + 1 \in 1..Len(list) /\ k <= Len(list) /\ (k + 1) - 1 = k
    BY <1>1
  <2>2. Reached(loop, p[k], k)
    BY <1>4, <2>1
  <2>3. Reached(loop, Round(loop, p[k], list[k + 1]), k + 1)
    BY <2>1, <2>2
  <2> QED BY <1>1, <1>2, <2>1, <2>3
<1>5. \A k \in Nat : k \in S
  <2> HIDE DEF S
  <2> QED BY <1>3, <1>4, NatInduct
<1> QED BY <1>1, <1>2, <1>5

\* An extension that goes on, maybe with errors.
LEMMA ExtendsError ==
  ASSUME NEW h, IsGame(h), NEW k, Extends(h, k)
  PROVE  /\ IsGame(k) /\ Refs(k) /\ Extends(h, LogError(k)) /\ Extends(h, LogFatal(k)) /\ Extends(h, Crash(k))
         /\ \A i \in Nat : Extends(h, Errors(k, i))
         /\ \A skip : Extends(h, [k EXCEPT !.skip = skip])
<1>1. IsGame(k) /\ Refs(k)
  BY DEF Extends, Grows
<1>2. Extends(k, LogError(k)) /\ Extends(k, LogFatal(k)) /\ Extends(k, Crash(k))
  BY <1>1, LogErrorExtends, FateExtends
<1>3. \A i \in Nat : Extends(k, Errors(k, i))
  BY <1>1, ErrorsExtend
<1>4. \A skip : Extends(k, [k EXCEPT !.skip = skip])
  BY <1>1, SkipExtends
<1> QED BY <1>1, <1>2, <1>3, <1>4, ExtendsOn

LEMMA TitleExtends ==
  ASSUME NEW h, IsGame(h), Refs(h), NEW b
  PROVE  Extends(h, title_proc(h, b))
BY TextExtends, FateExtends DEF title_proc

LEMMA MessagesExtend ==
  ASSUME NEW h, IsGame(h), Refs(h), NEW b
  PROVE  Extends(h, smsg_proc(h, b)) /\ Extends(h, umsg_proc(h, b))
BY MessageExtends DEF smsg_proc, umsg_proc

LEMMA MessagesEndExtends ==
  ASSUME NEW h, IsGame(h), Refs(h)
  PROVE  Extends(h, smsg_end(h))
<1> DEFINE S == {i \in 1..NSMSGS : Sys(i) \notin DOMAIN h.labels}
<1>1. Cardinality(S) \in Nat
  <2>1. IsFiniteSet(1..NSMSGS)
    BY LimitsAssumption, FS_Interval
  <2>2. S \subseteq 1..NSMSGS
    OBVIOUS
  <2> HIDE DEF S
  <2> QED BY <2>1, <2>2, FS_Subset, FS_CardinalityType
<1> HIDE DEF S
<1> QED BY <1>1, ErrorsExtend DEF smsg_end, S

LEMMA UnmovedIs ==
  ASSUME NEW h, IsGame(h), NEW k, IsGame(k)
  PROVE  /\ IsGame(Unmoved(h, k))
         /\ Unmoved(h, LogError(k)) = LogError(Unmoved(h, k))
         /\ \A text : Unmoved(h, AddTextString(k, text)) = AddTextString(Unmoved(h, k), text)
         /\ \A dmoves : Unmoved(h, [k EXCEPT !.dmoves = dmoves]) = Unmoved(h, k)
<1>1. IsGame(Unmoved(h, k))
  BY DEF IsGame, GameFields, Unmoved
<1>2. Unmoved(h, LogError(k)) = LogError(Unmoved(h, k))
  BY DEF IsGame, GameFields, Unmoved, LogError, Errors
<1>3. \A text : Unmoved(h, AddTextString(k, text)) = AddTextString(Unmoved(h, k), text)
  BY DEF IsGame, GameFields, Unmoved, AddTextString, push_back
<1>4. \A dmoves : Unmoved(h, [k EXCEPT !.dmoves = dmoves]) = Unmoved(h, k)
  BY DEF Unmoved
<1> QED BY <1>1, <1>2, <1>3, <1>4

LEMMA RoomWordReaches ==
  ASSUME NEW h, IsGame(h), NEW a, NEW id, RoomReached(h, a, id, {}), NEW w
  PROVE  RoomReached(h, RoomWord(a, w), id, {})
<1>1. RoomRead(h, RoomWord(a, w), {})
  BY RoomWordKeeps DEF RoomReached
<1>2. /\ DOMAIN a = {"g", "room", "stop"} /\ DOMAIN a.room = RoomFields /\ a.room.dmove = -1 /\ a.room.id = id
      /\ IsGame(a.g) /\ Extends(h, Unmoved(h, a.g)) /\ DOMAIN a.g.dmoves \subseteq DOMAIN h.dmoves \cup {id}
  BY DEF RoomReached, RoomRead, Evolves
<1> DEFINE dmoves == Bind(a.g.dmoves, a.room.id, w.val)
           k == [a.g EXCEPT !.dmoves = dmoves]
           room == [a.room EXCEPT !.flags = @ \cup ({w.val} \ {"light"})]
<1>3. \/ RoomWord(a, w) = a
      \/ RoomWord(a, w) = [a EXCEPT !.g = LogError(@)]
      \/ RoomWord(a, w) = [a EXCEPT !.g = LogError(@), !.stop = TRUE]
      \/ RoomWord(a, w) = [a EXCEPT !.g = k]
      \/ RoomWord(a, w) = [a EXCEPT !.room = room]
  BY DEF RoomWord
<1>4. Extends(h, Unmoved(h, LogError(a.g))) /\ LogError(a.g).dmoves = a.g.dmoves
  <2>1. Unmoved(h, LogError(a.g)) = LogError(Unmoved(h, a.g))
    BY <1>2, UnmovedIs
  <2>2. LogError(a.g).dmoves = a.g.dmoves
    BY <1>2 DEF LogError, Errors, IsGame, GameFields
  <2> QED BY <1>2, <2>1, <2>2, ExtendsError
<1>5. Extends(h, Unmoved(h, k)) /\ DOMAIN k.dmoves \subseteq DOMAIN h.dmoves \cup {id}
  <2> HIDE DEF dmoves
  <2>1. Unmoved(h, k) = Unmoved(h, a.g)
    BY DEF Unmoved
  <2>2. k.dmoves = dmoves /\ DOMAIN dmoves = DOMAIN a.g.dmoves \cup {id}
    BY <1>2 DEF dmoves, Bind, IsGame, GameFields
  <2> QED BY <1>2, <2>1, <2>2
<1>6. room.dmove = -1 /\ room.id = id
  BY <1>2 DEF RoomFields
<1> HIDE DEF k, room
<1>7. \/ RoomWord(a, w).g \in {a.g, LogError(a.g), k} /\ RoomWord(a, w).room = a.room
      \/ RoomWord(a, w).g = a.g /\ RoomWord(a, w).room = room
  BY <1>2, <1>3
<1> QED BY <1>1, <1>2, <1>4, <1>5, <1>6, <1>7 DEF RoomReached

LEMMA DescribedByReaches ==
  ASSUME NEW h, IsGame(h), NEW a, NEW id, RoomReached(h, a, id, {"string_index"}),
         NEW d \in {"shortDesc", "longDesc"}
  PROVE  RoomReached(h, DescribedBy(a, d), id, {"string_index"})
<1>1. RoomRead(h, DescribedBy(a, d), {"string_index"})
  BY DescribedByKeeps DEF RoomReached
<1>2. /\ DOMAIN a = {"g", "room", "stop"} /\ DOMAIN a.room = RoomFields /\ a.room.dmove = -1 /\ a.room.id = id
      /\ IsGame(a.g) /\ Extends(h, Unmoved(h, a.g)) /\ DOMAIN a.g.dmoves \subseteq DOMAIN h.dmoves \cup {id}
  BY DEF RoomReached, RoomRead, Evolves
<1> DEFINE k == AddTextString(a.g, a.room.id)
<1>3. Extends(h, Unmoved(h, k)) /\ k.dmoves = a.g.dmoves
  <2>1. Unmoved(h, k) = AddTextString(Unmoved(h, a.g), a.room.id)
    BY <1>2, UnmovedIs
  <2>2. k.dmoves = a.g.dmoves
    BY <1>2 DEF AddTextString, push_back, IsGame, GameFields
  <2>3. Extends(Unmoved(h, a.g), AddTextString(Unmoved(h, a.g), a.room.id))
    BY <1>2, ExtendsError, TextExtends
  <2> QED BY <1>2, <2>1, <2>2, <2>3, ExtendsOn
<1> HIDE DEF k
<1>4. DescribedBy(a, d).g = k /\ DescribedBy(a, d).room.dmove = -1 /\ DescribedBy(a, d).room.id = id
  BY <1>2 DEF DescribedBy, RoomFields, k
<1> QED BY <1>1, <1>2, <1>3, <1>4 DEF RoomReached

LEMMA RoomWordsReach ==
  ASSUME NEW h, IsGame(h), NEW a, NEW id, RoomReached(h, a, id, {}), NEW words, IsList(words),
         NEW desc \in Seq({"shortDesc", "longDesc"})
  PROVE  RoomReached(h, Described(RoomWords(a, words), desc), id, {"string_index"})
<1> DEFINE r == RoomWords(a, words)
           d == Described(r, desc)
<1>1. RoomReached(h, r, id, {})
  <2> DEFINE loop == [kind |-> "room_words", from |-> h, id |-> id]
  <2>1. Rounds(loop, a, words, r)
    BY RoomWordsRounds
  <2>2. \A x, i : Reached(loop, x, i) <=> RoomReached(h, x, id, {})
    BY DEF Reached
  <2>3. \A x, w : Round(loop, x, w) = RoomWord(x, w)
    BY DEF Round
  <2> HIDE DEF loop, r
  <2>4. \A x : \A i \in 1..Len(words) : Reached(loop, x, i - 1) => Reached(loop, Round(loop, x, words[i]), i)
    BY <2>2, <2>3, RoomWordReaches
  <2> QED BY <2>1, <2>2, <2>4, RoundsReach
<1>2. RoomReached(h, r, id, {"string_index"})
  BY <1>1, EvolvesMore DEF RoomReached, RoomRead
<1> HIDE DEF r
<1>3. IsList(desc) /\ \A i \in 1..Len(desc) : desc[i] \in {"shortDesc", "longDesc"}
  BY SeqIsList
<1>4. RoomReached(h, d, id, {"string_index"})
  <2> DEFINE loop == [kind |-> "descriptions", from |-> h, id |-> id]
  <2>1. Rounds(loop, r, desc, d)
    BY <1>3, DescribedRounds
  <2>2. \A x, i : Reached(loop, x, i) <=> RoomReached(h, x, id, {"string_index"})
    BY DEF Reached
  <2>3. \A x, w : Round(loop, x, w) = DescribedBy(x, w)
    BY DEF Round
  <2> HIDE DEF loop, d
  <2>4. \A x : \A i \in 1..Len(desc) : Reached(loop, x, i - 1) => Reached(loop, Round(loop, x, desc[i]), i)
    BY <1>3, <2>2, <2>3, DescribedByReaches
  <2> QED BY <1>2, <1>3, <2>1, <2>2, <2>4, RoundsReach
<1> QED BY <1>4 DEF r

LEMMA RoomExtends ==
  ASSUME NEW h, IsGame(h), Refs(h), NEW b, IsBlock("rooms", b)
  PROVE  Extends(h, room_proc(h, b))
<1> DEFINE room == [id |-> b.id, flags |-> {}, dmove |-> -1, shortDesc |-> -1, longDesc |-> -1,
                    ttlines |-> 0, ttOffset |-> 0]
           a0 == [g |-> h, room |-> room, stop |-> FALSE]
           a == Described(RoomWords(a0, b.words), b.desc)
           k == [a.g EXCEPT !.roomIdx = Bind(@, b.id, Size(h, "rooms"))]
           l == push_back(k, "rooms", a.room)
           q == Unmoved(h, a.g)
<1>1. RoomReached(h, a0, b.id, {})
  <2>1. IsGame(Unmoved(h, h))
    BY UnmovedIs
  <2>2. Alike(h, Unmoved(h, h))
    BY DEF Alike, Unmoved, IsGame, GameFields
  <2>3. Extends(h, Unmoved(h, h))
    BY <2>1, <2>2, AlikeExtends
  <2> QED BY <2>3, EvolvesNot DEF RoomReached, RoomRead, RoomFields
<1>2. IsList(b.words) /\ b.desc \in Seq({"shortDesc", "longDesc"})
  BY DEF IsBlock
<1>3. RoomReached(h, a, b.id, {"string_index"})
  <2> HIDE DEF a0
  <2> QED BY <1>1, <1>2, RoomWordsReach
<1>4. room_proc(h, b) = Counted(l, "rooms")
  BY DEF room_proc
<1> HIDE DEF a
<1>5. /\ IsGame(a.g) /\ Extends(h, q) /\ IsGame(q) /\ Refs(q)
      /\ DOMAIN a.room = RoomFields /\ a.room.dmove = -1 /\ a.room.id = b.id
      /\ a.g.roomIdx = h.roomIdx /\ a.g.tab["rooms"] = h.tab["rooms"]
      /\ DOMAIN a.g.dmoves \subseteq DOMAIN h.dmoves \cup {b.id}
  BY <1>3, ExtendsError DEF RoomReached, RoomRead, Evolves, TableNames
<1>6. IsGame(k)
  BY <1>5 DEF IsGame, GameFields
<1>7. "rooms" \in TableNames \ {"syntax_lines"} /\ "rooms" \in TableNames /\ "string_index" \in TableNames
  BY DEF TableNames
<1>8. IsGame(l) /\ Evolves(k, l, {"rooms"}) /\ l.tab["rooms"] = Append(k.tab["rooms"], a.room)
  <2> HIDE DEF k
  <2>1. \A e : /\ Evolves(k, push_back(k, "rooms", e), {"rooms"})
               /\ push_back(k, "rooms", e).tab["rooms"] = Append(k.tab["rooms"], e)
    BY <1>6, <1>7, PushEvolves
  <2> QED BY <2>1 DEF Evolves
<1>9. /\ l.quiet = a.g.quiet /\ l.vbslot = a.g.vbslot /\ l.labels = a.g.labels /\ l.dmoves = a.g.dmoves
      /\ l.roomIdx = Bind(h.roomIdx, b.id, Size(h, "rooms"))
      /\ k.tab = a.g.tab
  BY <1>5 DEF push_back, IsGame, GameFields
<1>10. /\ q.quiet = a.g.quiet /\ q.vbslot = a.g.vbslot /\ q.labels = a.g.labels /\ q.tab = a.g.tab
       /\ q.dmoves = h.dmoves /\ q.roomIdx = h.roomIdx
  BY <1>5 DEF Unmoved, IsGame, GameFields
<1> DEFINE t == h.tab["rooms"]
           u == l.tab["rooms"]
<1>11. IsList(t) /\ u = Append(t, a.room) /\ q.tab["rooms"] = t
  BY <1>5, <1>7, <1>8, <1>9, <1>10 DEF IsGame
<1>12. \A s \in TableNames \ {"rooms"} : l.tab[s] = q.tab[s]
  BY <1>8, <1>9, <1>10 DEF Evolves
<1> HIDE DEF l, k, q
<1>13. /\ Len(t) \in Nat /\ Len(u) = Len(t) + 1 /\ DOMAIN t = 1..Len(t) /\ DOMAIN u = 1..(Len(t) + 1)
       /\ \A i \in DOMAIN t : u[i] = t[i]
       /\ u[Len(t) + 1] = a.room
  <2> HIDE DEF t, u
  <2> QED BY <1>11, ListAppend, ListParts
<1>14. IndexRight(l)
  <2>1. Top(l, "rooms") = Len(t) /\ Top(q, "rooms") = Len(t) - 1
    BY <1>11, <1>13 DEF Top
  <2>2. Top(l, "string_index") = Top(q, "string_index")
    BY <1>7, <1>12 DEF Top
  <2>3. \A name \in DOMAIN h.roomIdx : h.roomIdx[name] \in 0..(Len(t) - 1) /\ t[h.roomIdx[name] + 1].id = name
    BY <1>5, <1>10, <1>11, <2>1 DEF Refs, IndexRight
  <2>4. ASSUME NEW name \in DOMAIN l.roomIdx
        PROVE  l.roomIdx[name] \in 0..Len(t) /\ u[l.roomIdx[name] + 1].id = name
    <3>1. CASE name = b.id
      <4>1. l.roomIdx[name] = Len(t) /\ a.room.id = name
        BY <1>5, <1>9, <3>1 DEF Bind, Size
      <4> HIDE DEF t, u
      <4> QED BY <1>13, <4>1
    <3>2. CASE name # b.id
      <4>1. name \in DOMAIN h.roomIdx /\ l.roomIdx[name] = h.roomIdx[name]
        BY <1>9, <3>2 DEF Bind
      <4> HIDE DEF t, u
      <4>2. h.roomIdx[name] \in 0..(Len(t) - 1) /\ t[h.roomIdx[name] + 1].id = name
        BY <2>3, <4>1
      <4>3. h.roomIdx[name] + 1 \in DOMAIN t
        BY <1>13, <4>2
      <4> QED BY <1>13, <4>1, <4>2, <4>3
    <3> QED BY <3>1, <3>2
  <2>5. \A label \in DOMAIN l.labels : l.labels[label] \in 0..Top(l, "string_index")
    BY <1>5, <1>9, <1>10, <2>2 DEF Refs, IndexRight
  <2> QED BY <2>1, <2>4, <2>5 DEF IndexRight
<1>15. EntryRight(q, "rooms", a.room)
  BY <1>11, <1>13, <1>5 DEF Top, EntryRight
<1>16. Extends(q, l)
  <2>1. Len(q.tab["rooms"]) <= Len(l.tab["rooms"])
    BY <1>11, <1>13
  <2>2. LabelsKept(q, l)
    BY <1>9, <1>10 DEF LabelsKept
  <2>3. \A i \in DOMAIN l.tab["rooms"] :
          (i \in DOMAIN q.tab["rooms"] /\ l.tab["rooms"][i] = q.tab["rooms"][i])
            \/ EntryRight(q, "rooms", l.tab["rooms"][i])
    BY <1>11, <1>13, <1>15
  <2>4. Moves(q) => Moves(l)
    BY <1>5, <1>9, <1>10 DEF Moves, Bind
  <2>5. l.quiet = q.quiet /\ l.vbslot = q.vbslot
    BY <1>9, <1>10
  <2> HIDE DEF t, u
  <2> QED BY <1>5, <1>7, <1>8, <1>12, <1>14, <2>1, <2>2, <2>3, <2>4, <2>5, TableGrows
<1>17. Extends(h, l)
  BY <1>5, <1>16, ExtendsOn
<1>18. Extends(l, Counted(l, "rooms"))
  BY <1>7, <1>8, <1>17, CountedExtends DEF Extends
<1> QED BY <1>4, <1>17, <1>18, ExtendsOn

\* The names after dmove= are looked up: those that are found lead to rooms.
LEMMA RoomEndExtends ==
  ASSUME NEW h, IsGame(h), Refs(h), Moves(h)
  PROVE  Extends(h, room_end(h))
<1> DEFINE found == {rm \in DOMAIN h.dmoves : h.dmoves[rm] \in DOMAIN h.roomIdx}
           moved(i) == \E rm \in found : h.roomIdx[rm] = i
           target(i) == h.roomIdx[h.dmoves[h.tab["rooms"][i + 1].id]]
           t == h.tab["rooms"]
           u == [i \in DOMAIN t |-> IF moved(i - 1) THEN [t[i] EXCEPT !.dmove = target(i - 1)] ELSE t[i]]
           lost == Cardinality(DOMAIN h.dmoves \ found)
<1>1. room_end(h) = Errors(Edited(h, "rooms", u), lost)
  BY DEF room_end, Edited
<1>2. lost \in Nat
  BY FS_Subset, FS_CardinalityType DEF IsGame
<1> HIDE DEF lost
<1>3. "rooms" \in TableNames \ {"syntax_lines", "language_code", "objects"} /\ "rooms" \in TableNames
  BY DEF TableNames
<1>4. IsList(t) /\ Len(t) \in Nat /\ DOMAIN t = 1..Len(t)
  BY <1>3, TopIs
<1>5. IsList(u) /\ Len(u) = Len(t) /\ DOMAIN u = DOMAIN t
  <2> HIDE DEF t, moved, target
  <2>1. u = [i \in 1..Len(t) |-> u[i]]
    BY <1>4
  <2>2. DOMAIN u = DOMAIN t
    OBVIOUS
  <2> HIDE DEF u
  <2> QED BY <1>4, <2>1, <2>2, ListForm
<1>6. ASSUME NEW i \in DOMAIN t
      PROVE  (u[i] = t[i] \/ EntryRight(h, "rooms", u[i])) /\ u[i].id = t[i].id
  <2>1. DOMAIN t[i] = RoomFields
    BY <1>3 DEF Refs, EntryRight
  <2>2. CASE moved(i - 1)
    <3>1. PICK rm \in found : h.roomIdx[rm] = i - 1
      BY <2>2
    <3>2. i - 1 + 1 = i
      BY <1>4
    <3>3. h.dmoves[rm] \in DOMAIN h.roomIdx /\ rm \in DOMAIN h.roomIdx
      BY DEF Moves
    <3>4. t[i].id = rm
      BY <3>1, <3>2, <3>3 DEF Refs, IndexRight
    <3>5. target(i - 1) \in 0..Top(h, "rooms")
      <4>1. target(i - 1) = h.roomIdx[h.dmoves[rm]]
        <5>1. h.tab["rooms"][(i - 1) + 1].id = rm
          BY <3>2, <3>4
        <5> HIDE DEF found, moved, u
        <5> QED BY <5>1
      <4> HIDE DEF target
      <4> QED BY <3>3, <4>1 DEF Refs, IndexRight
    <3>6. u[i] = [t[i] EXCEPT !.dmove = target(i - 1)]
      <4> HIDE DEF moved, target, t
      <4> QED BY <2>2
    <3> HIDE DEF u, t, moved, target
    <3>7. DOMAIN u[i] = RoomFields /\ u[i].dmove = target(i - 1) /\ u[i].id = t[i].id
      BY <2>1, <3>6 DEF RoomFields
    <3> QED BY <3>5, <3>7 DEF EntryRight
  <2>3. CASE ~moved(i - 1)
    <3> HIDE DEF moved, target, t
    <3> QED BY <2>3
  <2> HIDE DEF moved, target, t, u
  <2> QED BY <2>2, <2>3
<1> HIDE DEF u, found, moved, target
<1>7. Extends(h, Edited(h, "rooms", u))
  BY <1>3, <1>5, <1>6, EditedExtends
<1> QED BY <1>1, <1>2, <1>7, ExtendsError

LEMMA RankExtends ==
  ASSUME NEW h, IsGame(h), Refs(h), NEW b
  PROVE  Extends(h, rank_proc(h, b))
<1>1. \/ rank_proc(h, b) = Counted(push_back(h, "ranks", b.id), "ranks")
      \/ rank_proc(h, b) = LogFatal(h)
      \/ rank_proc(h, b) = LogError(h)
  BY DEF rank_proc
<1>2. "ranks" \in TableNames \ {"syntax_lines", "language_code"}
  BY DEF TableNames
<1>3. EntryRight(h, "ranks", b.id)
  BY DEF EntryRight
<1>4. Extends(h, Counted(push_back(h, "ranks", b.id), "ranks"))
  BY <1>2, <1>3, PushExtends
<1> QED BY <1>1, <1>4, FateExtends, LogErrorExtends

\* The index of a name is there, or -1.
LEMMA NamesFound ==
  ASSUME NEW h, IsGame(h), Refs(h), NEW name
  PROVE  /\ isRoomName(h, name) \in -1..Top(h, "rooms")
         /\ isRoomName(h, name) # -1 => isRoomName(h, name) \in 0..Top(h, "rooms")
         /\ isNoun(h, name) \in -2..Top(h, "objects") /\ IsVerb(h, name) \in -1..Top(h, "verbs")
         /\ \A s \in TableNames : IndexOfId(h, s, name) \in -1..Top(h, s)
<1>1. "rooms" \in TableNames /\ "objects" \in TableNames /\ "verbs" \in TableNames
  BY DEF TableNames
<1>2. \A s \in TableNames : Top(h, s) \in Int /\ -1 <= Top(h, s)
  <2> SUFFICES ASSUME NEW s \in TableNames PROVE Top(h, s) \in Int /\ -1 <= Top(h, s)
    OBVIOUS
  <2>1. Len(h.tab[s]) \in Nat
    BY TopIs
  <2> QED BY <2>1 DEF Top
<1>3. \A s \in TableNames : IndexOfId(h, s, name) \in -1..Top(h, s)
  BY IndexRange DEF Top
<1>4. name \in DOMAIN h.roomIdx => h.roomIdx[name] \in 0..Top(h, "rooms")
  BY DEF Refs, IndexRight
<1>5. isRoomName(h, name) \in -1..Top(h, "rooms")
  BY <1>1, <1>2, <1>4 DEF isRoomName
<1>6. isRoomName(h, name) # -1 => isRoomName(h, name) \in 0..Top(h, "rooms")
  BY <1>4 DEF isRoomName
<1>7. isNoun(h, name) \in -2..Top(h, "objects")
  BY <1>1, <1>2, <1>3 DEF isNoun
<1>8. IsVerb(h, name) \in -1..Top(h, "verbs")
  BY <1>1, <1>3 DEF IsVerb
<1> QED BY <1>3, <1>5, <1>6, <1>7, <1>8

LEMMA NpcWordReaches ==
  ASSUME NEW h, IsGame(h), NEW a, DOMAIN a = {"g", "npc"}, NpcReached(h, a), NEW w
  PROVE  DOMAIN NpcWord(a, w) = {"g", "npc"} /\ NpcReached(h, NpcWord(a, w))
<1>1. /\ Extends(h, a.g) /\ IsGame(a.g) /\ Refs(a.g) /\ Extends(h, LogError(a.g)) /\ Extends(a.g, LogError(a.g))
      /\ DOMAIN a.npc = NpcFields /\ IsList(a.npc.texts) /\ EntryRight(a.g, "npc_classes", a.npc)
  BY ExtendsError, LogErrorExtends DEF NpcReached
<1>2. \/ NpcWord(a, w) = [a EXCEPT !.npc.deadstate = w.val]
      \/ NpcWord(a, w) = [a EXCEPT !.npc.dmove = isRoomName(a.g, w.val)]
      \/ NpcWord(a, w) = [a EXCEPT !.g = LogError(@)]
  BY DEF NpcWord
<1>3. EntryRight(LogError(a.g), "npc_classes", a.npc)
  <2>1. "npc_classes" \in TableNames
    BY DEF TableNames
  <2>2. Grows(a.g, LogError(a.g)) /\ \A of \in Nat : Types(LogError(a.g), of) = Types(a.g, of)
    BY <1>1 DEF Extends, SyntaxKept, Types
  <2> QED BY <1>1, <2>1, <2>2, EntryGrows
<1> DEFINE dead == [a.npc EXCEPT !.deadstate = w.val]
           moves == [a.npc EXCEPT !.dmove = isRoomName(a.g, w.val)]
<1>4. /\ DOMAIN dead = NpcFields /\ IsList(dead.texts) /\ EntryRight(a.g, "npc_classes", dead)
      /\ DOMAIN moves = NpcFields /\ IsList(moves.texts) /\ EntryRight(a.g, "npc_classes", moves)
  <2>1. isRoomName(a.g, w.val) \in -1..Top(a.g, "rooms")
    BY <1>1, NamesFound
  <2>2. /\ DOMAIN dead = NpcFields /\ dead.texts = a.npc.texts /\ dead.dmove = a.npc.dmove
        /\ DOMAIN moves = NpcFields /\ moves.texts = a.npc.texts /\ moves.dmove = isRoomName(a.g, w.val)
    BY <1>1 DEF NpcFields
  <2> HIDE DEF dead, moves
  <2> QED BY <1>1, <2>1, <2>2 DEF EntryRight
<1>5. /\ DOMAIN NpcWord(a, w) = {"g", "npc"}
      /\ \/ NpcWord(a, w).g = a.g /\ NpcWord(a, w).npc \in {dead, moves}
         \/ NpcWord(a, w).g = LogError(a.g) /\ NpcWord(a, w).npc = a.npc
  BY <1>2
<1> HIDE DEF dead, moves
<1> QED BY <1>1, <1>3, <1>4, <1>5 DEF NpcReached

LEMMA NpcTextReaches ==
  ASSUME NEW h, IsGame(h), NEW a, DOMAIN a = {"g", "npc", "ok"}, NpcReached(h, a), NEW w
  PROVE  DOMAIN NpcText(a, w) = {"g", "npc", "ok"} /\ NpcReached(h, NpcText(a, w))
<1> DEFINE text == getTextString(a.g, w.arg)
           npc(id) == [a.npc EXCEPT !.texts = Append(@, id)]
<1>1. /\ Extends(h, a.g) /\ IsGame(a.g) /\ Refs(a.g)
      /\ DOMAIN a.npc = NpcFields /\ IsList(a.npc.texts) /\ EntryRight(a.g, "npc_classes", a.npc)
  BY ExtendsError DEF NpcReached
<1>2. \/ NpcText(a, w) = a
      \/ NpcText(a, w) = [a EXCEPT !.ok = FALSE]
      \/ NpcText(a, w) = [a EXCEPT !.npc = npc(-1)]
      \/ NpcText(a, w) = [g |-> text.g, ok |-> text.id # -1, npc |-> npc(text.id)]
  BY DEF NpcText
<1>3. Extends(a.g, text.g) /\ text.id \in -1..Top(text.g, "string_index") /\ Extends(h, text.g)
  BY <1>1, TextArgumentRight, ExtendsOn
<1>4. "npc_classes" \in TableNames /\ "string_index" \in TableNames
  BY DEF TableNames
<1>5. EntryRight(text.g, "npc_classes", a.npc)
  BY <1>3, <1>1, <1>4, EntryGrows DEF Extends, SyntaxKept, Types
<1>6. ASSUME NEW k, EntryRight(k, "npc_classes", a.npc), NEW id \in -1..Top(k, "string_index")
      PROVE  DOMAIN npc(id) = NpcFields /\ IsList(npc(id).texts) /\ EntryRight(k, "npc_classes", npc(id))
  <2>1. DOMAIN npc(id) = NpcFields /\ npc(id).texts = Append(a.npc.texts, id) /\ npc(id).dmove = a.npc.dmove
    BY <1>1 DEF NpcFields
  <2> HIDE DEF npc
  <2>2. IsList(npc(id).texts) /\ ToSet(npc(id).texts) \subseteq ToSet(a.npc.texts) \cup {id}
    <3>1. /\ IsList(npc(id).texts) /\ Len(npc(id).texts) = Len(a.npc.texts) + 1
          /\ \A i \in 1..Len(a.npc.texts) : npc(id).texts[i] = a.npc.texts[i]
          /\ npc(id).texts[Len(a.npc.texts) + 1] = id
      BY <1>1, <2>1, ListAppend
    <3>2. /\ DOMAIN npc(id).texts = 1..(Len(a.npc.texts) + 1) /\ DOMAIN a.npc.texts = 1..Len(a.npc.texts)
          /\ Len(a.npc.texts) \in Nat
      BY <1>1, <3>1, ListParts
    <3> QED BY <3>1, <3>2 DEF ToSet
  <2> QED BY <1>6, <2>1, <2>2 DEF EntryRight
<1>7. -1 \in -1..Top(a.g, "string_index")
  BY <1>1, <1>4, TopIs DEF Top
<1>8. /\ DOMAIN npc(-1) = NpcFields /\ IsList(npc(-1).texts) /\ EntryRight(a.g, "npc_classes", npc(-1))
      /\ DOMAIN npc(text.id) = NpcFields /\ IsList(npc(text.id).texts)
      /\ EntryRight(text.g, "npc_classes", npc(text.id))
  <2> HIDE DEF npc, text
  <2> QED BY <1>1, <1>3, <1>5, <1>6, <1>7
<1> HIDE DEF npc, text
<1>9. /\ DOMAIN NpcText(a, w) = {"g", "npc", "ok"}
      /\ \/ NpcText(a, w).g = a.g /\ NpcText(a, w).npc \in {a.npc, npc(-1)}
         \/ NpcText(a, w).g = text.g /\ NpcText(a, w).npc = npc(text.id)
  BY <1>2
<1> QED BY <1>1, <1>3, <1>8, <1>9 DEF NpcReached

LEMMA NpcExtends ==
  ASSUME NEW h, IsGame(h), Refs(h), NEW b, IsBlock("npcs", b)
  PROVE  Extends(h, npc_proc(h, b))
<1> DEFINE named == consumeNpcIDLine(h, b)
           a0 == [g |-> named.g, npc |-> named.npc, ok |-> TRUE]
           a == NpcTextLines(a0, b.texts)
           ends == b.stats = "missing" \/ (b.stats = "ok" /\ a.ok)
<1>1. DOMAIN named = {"g", "npc"} /\ NpcReached(h, named)
  <2> DEFINE npc == [id |-> b.id, deadstate |-> -1, dmove |-> -1, texts |-> <<>>]
             n0 == [g |-> h, npc |-> npc]
             loop == [kind |-> "npc_words", from |-> h]
  <2>1. Rounds(loop, n0, b.words, named)
    BY NpcWordsRounds DEF consumeNpcIDLine, IsBlock
  <2>2. \A x, i : Reached(loop, x, i) <=> (DOMAIN x = {"g", "npc"} /\ NpcReached(h, x))
    BY DEF Reached
  <2>3. \A x, w : Round(loop, x, w) = NpcWord(x, w)
    BY DEF Round
  <2>4. DOMAIN n0 = {"g", "npc"} /\ NpcReached(h, n0)
    <3>1. DOMAIN npc = NpcFields /\ IsList(npc.texts) /\ npc.dmove = -1 /\ ToSet(npc.texts) = {}
      BY EmptyList DEF NpcFields, ToSet
    <3>2. -1 \in -1..Top(h, "rooms")
      BY TopIs DEF TableNames, Top
    <3> HIDE DEF npc
    <3>3. EntryRight(h, "npc_classes", npc)
      BY <3>1, <3>2 DEF EntryRight
    <3> QED BY <3>1, <3>3, GrowsNot DEF NpcReached
  <2>5. IsList(b.words)
    BY DEF IsBlock
  <2> HIDE DEF loop, n0, named
  <2>6. \A x : \A i \in 1..Len(b.words) : Reached(loop, x, i - 1) => Reached(loop, Round(loop, x, b.words[i]), i)
    BY <2>2, <2>3, NpcWordReaches
  <2> QED BY <2>1, <2>2, <2>4, <2>5, <2>6, RoundsReach
<1> HIDE DEF named
<1>2. DOMAIN a = {"g", "npc", "ok"} /\ NpcReached(h, a)
  <2> DEFINE loop == [kind |-> "npc_texts", from |-> h]
  <2>1. Rounds(loop, a0, b.texts, a)
    BY NpcTextLinesRounds DEF IsBlock
  <2>2. \A x, i : Reached(loop, x, i) <=> (DOMAIN x = {"g", "npc", "ok"} /\ NpcReached(h, x))
    BY DEF Reached
  <2>3. \A x, w : Round(loop, x, w) = NpcText(x, w)
    BY DEF Round
  <2>4. DOMAIN a0 = {"g", "npc", "ok"} /\ NpcReached(h, a0)
    BY <1>1 DEF NpcReached
  <2>5. IsList(b.texts)
    BY DEF IsBlock
  <2> HIDE DEF loop, a0, a
  <2>6. \A x : \A i \in 1..Len(b.texts) : Reached(loop, x, i - 1) => Reached(loop, Round(loop, x, b.texts[i]), i)
    BY <2>2, <2>3, NpcTextReaches
  <2> QED BY <2>1, <2>2, <2>4, <2>5, <2>6, RoundsReach
<1> HIDE DEF a, ends
<1>3. /\ IsGame(a.g) /\ Refs(a.g) /\ Extends(h, a.g) /\ EntryRight(a.g, "npc_classes", a.npc)
      /\ Extends(h, named.g) /\ IsGame(named.g) /\ Refs(named.g)
  BY <1>1, <1>2, ExtendsError DEF NpcReached
<1>4. "npc_classes" \in TableNames \ {"syntax_lines", "language_code"}
  BY DEF TableNames
<1>5. Extends(h, Counted(push_back(a.g, "npc_classes", a.npc), "npc_classes"))
  BY <1>3, <1>4, PushExtends, ExtendsOn
<1>6. Extends(h, [LogError(a.g) EXCEPT !.skip = ends]) /\ Extends(h, [LogError(named.g) EXCEPT !.skip = ends])
  BY <1>3, ExtendsError
<1>7. \/ npc_proc(h, b) = Counted(push_back(a.g, "npc_classes", a.npc), "npc_classes")
      \/ npc_proc(h, b) = [LogError(a.g) EXCEPT !.skip = ends]
      \/ npc_proc(h, b) = [LogError(named.g) EXCEPT !.skip = ends]
  BY DEF npc_proc, a, named, ends
<1> QED BY <1>5, <1>6, <1>7

-----------------------------------------------------------------------------
(***************************************************************************)
(* References of objects.                                                  *)
(***************************************************************************)
LEMMA LeastInteger ==
  ASSUME NEW S \in SUBSET Int, IsFiniteSet(S), S # {}
  PROVE  \E x \in S : \A y \in S : x <= y
<1> DEFINE HasLeast(T) == \E x \in T : \A y \in T : x <= y
           K == {k \in Nat : \A T \in SUBSET Int : IsFiniteSet(T) /\ Cardinality(T) = k + 1 => HasLeast(T)}
<1>1. 0 \in K
  <2> SUFFICES ASSUME NEW T \in SUBSET Int, IsFiniteSet(T), Cardinality(T) = 0 + 1 PROVE HasLeast(T)
    OBVIOUS
  <2>1. Cardinality(T) = 1
    OBVIOUS
  <2>2. \E x : T = {x}
    BY <2>1, FS_Singleton
  <2>3. PICK x : T = {x}
    BY <2>2
  <2>4. x \in T /\ x \in Int
    BY <2>3
  <2> QED BY <2>3, <2>4
<1>2. ASSUME NEW k \in Nat, k \in K
      PROVE  k + 1 \in K
  <2> SUFFICES ASSUME NEW T \in SUBSET Int, IsFiniteSet(T), Cardinality(T) = (k + 1) + 1 PROVE HasLeast(T)
    OBVIOUS
  <2>1. T # {}
    BY FS_EmptySet
  <2>2. PICK z \in T : TRUE
    BY <2>1
  <2>3. IsFiniteSet(T \ {z}) /\ Cardinality(T \ {z}) = k + 1 /\ T \ {z} \in SUBSET Int
    BY <2>2, FS_RemoveElement
  <2>4. HasLeast(T \ {z})
    BY <1>2, <2>3
  <2>5. PICK x \in T \ {z} : \A y \in T \ {z} : x <= y
    BY <2>4
  <2>6. CASE x <= z
    BY <2>5, <2>6
  <2>7. CASE z <= x
    BY <2>5, <2>7
  <2>8. x \in Int /\ z \in Int
    OBVIOUS
  <2> HIDE DEF HasLeast
  <2> QED BY <2>6, <2>7, <2>8
<1>3. \A k \in Nat : k \in K
  <2> HIDE DEF K
  <2> QED BY <1>1, <1>2, NatInduct
<1>4. Cardinality(S) \in Nat /\ Cardinality(S) # 0
  BY FS_CardinalityType, FS_EmptySet
<1>5. Cardinality(S) - 1 \in K /\ (Cardinality(S) - 1) + 1 = Cardinality(S)
  <2> HIDE DEF K
  <2> QED BY <1>3, <1>4
<1> QED BY <1>5

\* The numbers of a set in ascending order are numbers of the set.
LEMMA AscendingIn ==
  ASSUME NEW S \in SUBSET Int, IsFiniteSet(S)
  PROVE  \A i \in 1..Cardinality(S) : Ascending(S)[i] \in S
<1> DEFINE Below(x) == {y \in S : y < x}
           Nth(k) == \E x \in S : Cardinality(Below(x)) = k
           K == {k \in Nat : k < Cardinality(S) => Nth(k)}
<1>1. Cardinality(S) \in Nat
  BY FS_CardinalityType
<1>2. 0 \in K
  <2> SUFFICES ASSUME 0 < Cardinality(S) PROVE Nth(0)
    OBVIOUS
  <2>1. S # {}
    BY FS_EmptySet
  <2>2. PICK x \in S : \A y \in S : x <= y
    BY <2>1, LeastInteger
  <2>3. Below(x) = {}
    <3>1. \A y \in S : y \in Int /\ x \in Int /\ ~(y < x)
      BY <2>2
    <3> QED BY <3>1
  <2> QED BY <2>3, FS_EmptySet
<1>3. ASSUME NEW k \in Nat, k \in K
      PROVE  k + 1 \in K
  <2> SUFFICES ASSUME k + 1 < Cardinality(S) PROVE Nth(k + 1)
    OBVIOUS
  <2>1. PICK x \in S : Cardinality(Below(x)) = k
    BY <1>1, <1>3
  <2> DEFINE Above == {y \in S : y > x}
             Upto == Below(x) \cup {x}
  <2>2. IsFiniteSet(Below(x)) /\ IsFiniteSet(Above)
    BY FS_Subset
  <2>3. IsFiniteSet(Upto) /\ Cardinality(Upto) = k + 1
    <3>1. x \notin Below(x)
      OBVIOUS
    <3> HIDE DEF Below
    <3> QED BY <2>1, <2>2, <3>1, FS_AddElement
  <2>4. Above # {}
    <3> SUFFICES ASSUME Above = {} PROVE FALSE
      OBVIOUS
    <3>1. S = Upto
      <4>1. \A y \in S : y \in Int /\ (y < x \/ y = x)
        OBVIOUS
      <4> QED BY <4>1
    <3> HIDE DEF Upto
    <3> QED BY <1>1, <2>3, <3>1
  <2>5. PICK next \in Above : \A y \in Above : next <= y
    <3>1. Above \in SUBSET Int
      OBVIOUS
    <3> HIDE DEF Above
    <3> QED BY <2>2, <2>4, <3>1, LeastInteger
  <2>6. Below(next) = Upto
    <3>1. \A y \in S : y < next <=> (y < x \/ y = x)
      <4> SUFFICES ASSUME NEW y \in S PROVE y < next <=> (y < x \/ y = x)
        OBVIOUS
      <4>1. y \in Int /\ x \in Int /\ next \in Int /\ next > x
        OBVIOUS
      <4>2. y > x => next <= y
        BY <2>5
      <4> QED BY <4>1, <4>2
    <3> QED BY <3>1
  <2>7. next \in S /\ Cardinality(Below(next)) = k + 1
    BY <2>3, <2>6
  <2> QED BY <2>7
<1>4. \A k \in Nat : k \in K
  <2> HIDE DEF K
  <2> QED BY <1>2, <1>3, NatInduct
<1> SUFFICES ASSUME NEW i \in 1..Cardinality(S) PROVE Ascending(S)[i] \in S
  OBVIOUS
<1>5. i - 1 \in Nat /\ i - 1 < Cardinality(S)
  BY <1>1
<1>6. \E x \in S : Cardinality({y \in S : y < x}) = i - 1
  BY <1>4, <1>5
<1>7. Ascending(S)[i] = CHOOSE x \in S : Cardinality({y \in S : y < x}) = i - 1
  BY DEF Ascending
<1> QED BY <1>6, <1>7

\* A value of a field of a record that is updated.
LEMMA ObjectFound ==
  ASSUME NEW h, IsGame(h), Refs(h), NEW k, Extends(h, k), NEW obj, obj.npc \in -1..Top(h, "npc_classes")
  PROVE  obj.npc \in -1..Top(k, "npc_classes")
<1>1. "npc_classes" \in TableNames
  BY DEF TableNames
<1>2. Top(h, "npc_classes") <= Top(k, "npc_classes") /\ Top(h, "npc_classes") \in Int /\ Top(k, "npc_classes") \in Int
  BY <1>1, TopGrows DEF Extends
<1> QED BY <1>2

LEMMA ObjectWordReaches ==
  ASSUME NEW h, IsGame(h), NEW a, NEW offset, ObjectRead(a, offset, 0), ObjectReached(h, a), NEW w
  PROVE  ObjectReached(h, ObjectWord(a, w))
<1>1. /\ DOMAIN a = {"g", "obj", "ok"} /\ DOMAIN a.obj = ObjectFields
      /\ Extends(h, a.g) /\ IsGame(a.g) /\ Refs(a.g) /\ a.obj.npc \in -1..Top(a.g, "npc_classes")
  BY ExtendsError DEF ObjectRead, ObjectReached
<1> DEFINE k == Counted(push_back(a.g, "adjectives", w.val.name), "adjectives")
           class == IndexOfId(a.g, "npc_classes", w.val)
           flags == [a EXCEPT !.obj.flags = @ \cup {w.val}]
<1>2. Extends(h, LogError(a.g)) /\ a.obj.npc \in -1..Top(LogError(a.g), "npc_classes")
  BY <1>1, ExtendsError, LogErrorExtends, ObjectFound
<1>3. Extends(h, k) /\ a.obj.npc \in -1..Top(k, "npc_classes")
  <2>1. "adjectives" \in TableNames \ {"syntax_lines", "language_code"}
    BY DEF TableNames
  <2>2. EntryRight(a.g, "adjectives", w.val.name)
    BY DEF EntryRight
  <2>3. Extends(a.g, k)
    BY <1>1, <2>1, <2>2, PushExtends
  <2> HIDE DEF k
  <2> QED BY <1>1, <2>3, ExtendsOn, ObjectFound
<1>4. class \in -1..Top(a.g, "npc_classes")
  BY <1>1, NamesFound DEF TableNames
<1>5. \/ ObjectWord(a, w) = a
      \/ ObjectWord(a, w) = flags
      \/ ObjectWord(a, w) = [a EXCEPT !.g = k]
      \/ ObjectWord(a, w) = [a EXCEPT !.obj.npc = class]
      \/ ObjectWord(a, w) = [a EXCEPT !.obj.state = w.val]
      \/ ObjectWord(a, w) = [a EXCEPT !.obj.contains = w.val]
      \/ ObjectWord(a, w) = [a EXCEPT !.obj.putto = w.val]
      \/ ObjectWord(a, w) = [a EXCEPT !.g = LogError(@)]
      \/ ObjectWord(a, w) = [a EXCEPT !.g = LogError(@), !.ok = FALSE]
  <2>1. processObjectAdj(a, w) \in {[a EXCEPT !.g = k], [a EXCEPT !.g = LogError(@)]}
    BY DEF processObjectAdj
  <2>2. processObjectMob(a, w) \in {[a EXCEPT !.obj.npc = class], [a EXCEPT !.g = LogError(@)]}
    BY DEF processObjectMob
  <2> HIDE DEF k, class
  <2>3. \/ ObjectWord(a, w) = a
        \/ ObjectWord(a, w) = flags
        \/ ObjectWord(a, w) = processObjectAdj(a, w)
        \/ ObjectWord(a, w) = processObjectMob(a, w)
        \/ ObjectWord(a, w) = [a EXCEPT !.obj.state = w.val]
        \/ ObjectWord(a, w) = [a EXCEPT !.obj.contains = w.val]
        \/ ObjectWord(a, w) = [a EXCEPT !.obj.putto = w.val]
        \/ ObjectWord(a, w) = [a EXCEPT !.g = LogError(@)]
        \/ ObjectWord(a, w) = [a EXCEPT !.g = LogError(@), !.ok = FALSE]
    BY ObjectWordIs
  <2> HIDE DEF flags
  <2> QED BY <2>1, <2>2, <2>3
<1> HIDE DEF k, class
<1>6. \/ ObjectWord(a, w).g = a.g /\ ObjectWord(a, w).obj.npc \in {a.obj.npc, class}
      \/ ObjectWord(a, w).g \in {k, LogError(a.g)} /\ ObjectWord(a, w).obj.npc = a.obj.npc
  BY <1>1, <1>5 DEF ObjectFields
<1> QED BY <1>1, <1>2, <1>3, <1>4, <1>6 DEF ObjectReached

LEMMA StateLineReaches ==
  ASSUME NEW h, IsGame(h), NEW a, NEW offset, NEW nrooms, ObjectRead(a, offset, nrooms), ObjectReached(h, a),
         NEW line
  PROVE  ObjectReached(h, parseObjectState(a, line))
<1> DEFINE text == getTextString(a.g, line.desc[1])
<1>1. /\ DOMAIN a = {"g", "obj", "ok"} /\ DOMAIN a.obj = ObjectFields
      /\ Extends(h, a.g) /\ IsGame(a.g) /\ Refs(a.g) /\ a.obj.npc \in -1..Top(a.g, "npc_classes")
  BY ExtendsError DEF ObjectRead, ObjectReached
<1>2. Extends(a.g, text.g) /\ IsGame(text.g) /\ Refs(text.g)
  BY <1>1, TextArgumentRight, ExtendsError
<1> HIDE DEF text
<1>3. Extends(a.g, LogError(text.g)) /\ Extends(a.g, LogError(a.g))
  BY <1>1, <1>2, ExtendsError, LogErrorExtends
<1>4. ASSUME NEW state
      PROVE  Extends(a.g, Counted(push_back(text.g, "object_states", state), "object_states"))
  <2>1. "object_states" \in TableNames \ {"syntax_lines", "language_code"}
    BY DEF TableNames
  <2>2. EntryRight(text.g, "object_states", state)
    BY DEF EntryRight
  <2>3. Extends(text.g, Counted(push_back(text.g, "object_states", state), "object_states"))
    BY <1>2, <2>1, <2>2, PushExtends
  <2> QED BY <1>1, <1>2, <2>3, ExtendsOn
<1>5. \E k : Extends(a.g, k) /\ parseObjectState(a, line).g = k /\ parseObjectState(a, line).obj.npc = a.obj.npc
  <2>1. CASE parseObjectState(a, line) = [a EXCEPT !.g = LogError(@)]
    BY <1>1, <1>3, <2>1
  <2>2. CASE parseObjectState(a, line) = [a EXCEPT !.g = LogError(text.g)]
    BY <1>1, <1>3, <2>2
  <2>3. CASE \E state : parseObjectState(a, line) = Stated(a, text.g, state)
    <3>1. PICK state : parseObjectState(a, line) = Stated(a, text.g, state)
      BY <2>3
    <3> DEFINE k == Counted(push_back(text.g, "object_states", state), "object_states")
    <3>2. Extends(a.g, k)
      BY <1>4
    <3>3. parseObjectState(a, line) = [a EXCEPT !.g = k, !.obj.nstates = @ + 1]
      BY <3>1 DEF Stated
    <3> HIDE DEF k
    <3>4. parseObjectState(a, line).g = k /\ parseObjectState(a, line).obj.npc = a.obj.npc
      BY <1>1, <3>3 DEF ObjectFields
    <3> QED BY <3>2, <3>4
  <2> QED BY <2>1, <2>2, <2>3, StateLineIs DEF text
<1> QED BY <1>1, <1>5, ExtendsOn, ObjectFound DEF ObjectReached

\* A name of a place is that of a room, of an object that can hold things, or of neither.
LEMMA ContainerFound ==
  ASSUME NEW h, IsGame(h), NEW name
  PROVE  \/ isContainer(h, name) = -1
         \/ /\ isContainer(h, name) \in 0..Top(h, "objects")
            /\ h.tab["objects"][isContainer(h, name) + 1].contains > 0
<1> DEFINE x == h.tab["objects"]
           Is == {i \in 1..Len(x) : x[i].contains > 0 /\ x[i].id = name}
<1>1. IsList(x) /\ Len(x) \in Nat /\ DOMAIN x = 1..Len(x)
  BY TopIs DEF TableNames
<1>2. isContainer(h, name) = (IF Is = {} THEN 0 ELSE Min(Is)) - 1
  BY <1>1 DEF isContainer, SelectInSeq
<1>3. ASSUME Is # {}
      PROVE  Min(Is) \in Is
  <2>1. Is \in SUBSET Nat
    BY <1>1
  <2>2. PICK i \in Is : \A j \in Is : i <= j
    <3> HIDE DEF Is
    <3> QED BY <1>3, <2>1, LeastNumber
  <2> QED BY <2>2 DEF Min
<1>4. CASE Is = {}
  BY <1>2, <1>4
<1>5. CASE Is # {}
  <2>1. Min(Is) \in 1..Len(x) /\ x[Min(Is)].contains > 0 /\ isContainer(h, name) = Min(Is) - 1
    BY <1>2, <1>3, <1>5
  <2> HIDE DEF Is
  <2>2. isContainer(h, name) \in 0..(Len(x) - 1) /\ isContainer(h, name) + 1 = Min(Is)
    BY <1>1, <2>1
  <2> QED BY <2>1, <2>2 DEF Top
<1> QED BY <1>4, <1>5

LEMMA LocationFound ==
  ASSUME NEW h, IsGame(h), Refs(h), NEW name
  PROVE  /\ Location(h, name) \in Int
         /\ \/ Location(h, name) = -1
            \/ Location(h, name) \in 0..Top(h, "rooms")
            \/ \E j \in 0..Top(h, "objects") :
                 Location(h, name) = Inside(j) /\ h.tab["objects"][j + 1].contains > 0
<1>1. isRoomName(h, name) # -1 => isRoomName(h, name) \in 0..Top(h, "rooms")
  BY NamesFound
<1>2. \A j \in Int : Inside(j) \in Int
  BY LimitsAssumption DEF Inside, INS
<1>3. CASE isRoomName(h, name) # -1
  BY <1>1, <1>3 DEF Location
<1>4. CASE isRoomName(h, name) = -1 /\ isContainer(h, name) # -1
  <2>1. Location(h, name) = Inside(isContainer(h, name))
    BY <1>4 DEF Location
  <2>2. /\ isContainer(h, name) \in 0..Top(h, "objects")
        /\ h.tab["objects"][isContainer(h, name) + 1].contains > 0
    BY <1>4, ContainerFound
  <2> QED BY <1>2, <2>1, <2>2
<1>5. CASE isRoomName(h, name) = -1 /\ isContainer(h, name) = -1
  BY <1>5 DEF Location
<1> QED BY <1>3, <1>4, <1>5

LEMMA PlacesRight ==
  ASSUME NEW h, IsGame(h), Refs(h), NEW names, IsList(names), NEW entries, IsList(entries),
         \A i \in DOMAIN entries : entries[i].of = Len(h.tab["objects"]), StartsAt(h, names, entries)
  PROVE  /\ \A i \in DOMAIN entries : EntryRight(h, "object_locations", entries[i])
         /\ Extends(h, Appended(h, "object_locations", entries))
<1> DEFINE S == Starts(h, names)
<1>1. S \in SUBSET Int /\ IsFiniteSet(S)
  BY LocationFound DEF Starts, StartsAt, ToSet
<1>2. \A x \in S : \/ x \in 0..Top(h, "rooms")
                   \/ \E j \in 0..Top(h, "objects") : x = Inside(j) /\ h.tab["objects"][j + 1].contains > 0
  BY LocationFound DEF Starts, ToSet
<1> HIDE DEF S
<1>3. \A i \in DOMAIN entries : entries[i].place \in S
  <2>1. \A i \in 1..Cardinality(S) : Ascending(S)[i] \in S
    BY <1>1, AscendingIn
  <2>2. DOMAIN entries = 1..Cardinality(S) /\ \A i \in DOMAIN entries : entries[i].place = Ascending(S)[i]
    BY ListParts DEF StartsAt, S
  <2> QED BY <2>1, <2>2
<1>4. \A j \in 0..Top(h, "objects") : j < Len(h.tab["objects"])
  BY TopIs DEF Top, TableNames
<1>5. \A i \in DOMAIN entries : EntryRight(h, "object_locations", entries[i])
  <2> SUFFICES ASSUME NEW i \in DOMAIN entries PROVE PlaceRight(h, entries[i])
    BY DEF EntryRight
  <2>1. entries[i].place \in S /\ entries[i].of = Len(h.tab["objects"])
    BY <1>3
  <2> QED BY <1>2, <1>4, <2>1 DEF PlaceRight
<1>6. "object_locations" \in TableNames \ {"syntax_lines"} /\ "object_locations" # "language_code"
  BY DEF TableNames
<1> QED BY <1>5, <1>6, AppendedGrows

LEMMA ObjectWordsReach ==
  ASSUME NEW h, IsGame(h), Refs(h), NEW b, IsBlock("objects", b),
         NEW a, a = ObjectWords([g |-> h, obj |-> NewObject(h, b), ok |-> TRUE], b.words)
  PROVE  ObjectReached(h, a)
<1> DEFINE offset == Len(h.tab["object_locations"])
           a0 == [g |-> h, obj |-> NewObject(h, b), ok |-> TRUE]
           loop == [kind |-> "object_words", from |-> h, offset |-> offset]
<1>1. IsList(b.words)
  BY DEF IsBlock
<1>2. Rounds(loop, a0, b.words, a)
  BY <1>1, ObjectWordsRounds
<1>3. \A x, i : Reached(loop, x, i) <=> (ObjectRead(x, offset, 0) /\ WordsRead(h, x) /\ ObjectReached(h, x))
  BY DEF Reached
<1>4. \A x, w : Round(loop, x, w) = ObjectWord(x, w)
  BY DEF Round
<1>5. ObjectRead(a0, offset, 0) /\ WordsRead(h, a0)
  BY EvolvesNot DEF ObjectRead, WordsRead, CountKept, NewObject, ObjectFields, Size
<1>6. ObjectReached(h, a0)
  <2>1. a0.obj.npc = -1 /\ a0.g = h
    BY DEF NewObject
  <2>2. -1 \in -1..Top(h, "npc_classes")
    BY TopIs DEF TableNames, Top
  <2> HIDE DEF a0
  <2> QED BY <2>1, <2>2, GrowsNot DEF ObjectReached
<1> HIDE DEF loop, a0, offset
<1>7. \A x : \A i \in 1..Len(b.words) : Reached(loop, x, i - 1) => Reached(loop, Round(loop, x, b.words[i]), i)
  BY <1>3, <1>4, ObjectWordKeeps, ObjectWordReaches
<1>8. Reached(loop, a, Len(b.words))
  BY <1>1, <1>2, <1>3, <1>5, <1>6, <1>7, RoundsReach
<1> QED BY <1>3, <1>8

LEMMA StateLinesReach ==
  ASSUME NEW h, IsGame(h), NEW a, NEW offset, NEW nrooms, ObjectRead(a, offset, nrooms), a.g = h,
         ObjectReached(h, a), NEW lines, IsList(lines)
  PROVE  ObjectReached(h, parseObjectStates(a, lines))
<1> DEFINE loop == [kind |-> "object_states", from |-> h, offset |-> offset, nrooms |-> nrooms]
           r == parseObjectStates(a, lines)
<1>1. Rounds(loop, a, lines, r)
  BY ParseObjectStatesRounds
<1>2. \A x, i : Reached(loop, x, i) <=>
                  (ObjectRead(x, offset, nrooms) /\ StatesRead(h, x) /\ ObjectReached(h, x))
  BY DEF Reached
<1>3. \A x, w : Round(loop, x, w) = parseObjectState(x, w)
  BY DEF Round
<1>4. StatesRead(h, a)
  BY EvolvesNot DEF StatesRead, CountKept
<1> HIDE DEF loop, r
<1>5. \A x : \A i \in 1..Len(lines) : Reached(loop, x, i - 1) => Reached(loop, Round(loop, x, lines[i]), i)
  BY <1>2, <1>3, StateLineKeeps, StateLineReaches
<1>6. Reached(loop, r, Len(lines))
  BY <1>1, <1>2, <1>4, <1>5, RoundsReach
<1> QED BY <1>2, <1>6 DEF r

LEMMA ObjectExtends ==
  ASSUME NEW h, IsGame(h), Refs(h), NEW b, IsBlock("objects", b)
  PROVE  Extends(h, objs_proc(h, b))
<1> DEFINE a == ObjectWords([g |-> h, obj |-> NewObject(h, b), ok |-> TRUE], b.words)
           placed == processObjectRooms(a, b.rooms)
           stated == parseObjectStates(placed, b.states)
           offset == Len(h.tab["object_locations"])
           pushed == Counted(push_back(stated.g, "objects", stated.obj), "objects")
<1>1. ObjectRead(a, offset, 0) /\ ObjectReached(h, a)
  BY ObjectWordsKeep, ObjectWordsReach
<1>2. \/ objs_proc(h, b) = a.g
      \/ objs_proc(h, b) = [LogError(a.g) EXCEPT !.skip = TRUE]
      \/ a.ok /\ ~placed.ok /\ objs_proc(h, b) = placed.g
      \/ placed.ok /\ objs_proc(h, b) \in {LogError(stated.g), pushed}
  <2> DEFINE p == IF a.ok THEN placed ELSE a
             q == parseObjectStates(p, b.states)
  <2>1. objs_proc(h, b) =
          CASE ~a.ok -> a.g
            [] a.ok /\ b.rooms = <<>> -> [LogError(a.g) EXCEPT !.skip = TRUE]
            [] a.ok /\ b.rooms # <<>> /\ ~p.ok -> p.g
            [] p.ok /\ q.obj.state >= q.obj.nstates -> LogError(q.g)
            [] OTHER -> Counted(push_back(q.g, "objects", q.obj), "objects")
    BY DEF objs_proc, a
  <2>2. p.ok => a.ok
    OBVIOUS
  <2>3. a.ok => p = placed /\ q = stated
    OBVIOUS
  <2> HIDE DEF p, q, placed, stated, a
  <2>4. \/ objs_proc(h, b) = a.g
        \/ objs_proc(h, b) = [LogError(a.g) EXCEPT !.skip = TRUE]
        \/ a.ok /\ ~p.ok /\ objs_proc(h, b) = p.g
        \/ p.ok /\ objs_proc(h, b) \in {LogError(q.g), Counted(push_back(q.g, "objects", q.obj), "objects")}
    BY <2>1
  <2> QED BY <2>2, <2>3, <2>4
<1> HIDE DEF a
<1>3. /\ Extends(h, a.g) /\ IsGame(a.g) /\ Refs(a.g) /\ a.obj.npc \in -1..Top(a.g, "npc_classes")
      /\ IsList(b.rooms) /\ IsList(b.states) /\ DOMAIN a = {"g", "obj", "ok"} /\ DOMAIN a.obj = ObjectFields
  BY <1>1, ExtendsError DEF ObjectReached, IsBlock, ObjectRead
<1>4. Extends(h, [LogError(a.g) EXCEPT !.skip = TRUE])
  BY <1>3, ExtendsError
<1>5. CASE \E i \in Nat \ {0} : placed = [a EXCEPT !.g = Errors(@, i), !.ok = FALSE]
  <2>1. PICK i \in Nat \ {0} : placed = [a EXCEPT !.g = Errors(@, i), !.ok = FALSE]
    BY <1>5
  <2> HIDE DEF placed, stated, pushed
  <2>2. ~placed.ok /\ placed.g = Errors(a.g, i)
    BY <1>3, <2>1
  <2>3. Extends(h, placed.g)
    BY <1>3, <2>2, ExtendsError
  <2> QED BY <1>2, <1>3, <1>4, <2>2, <2>3
<1>6. CASE \E entries :
             /\ IsList(entries) /\ \A i \in DOMAIN entries : entries[i].of = Len(a.g.tab["objects"])
             /\ StartsAt(a.g, b.rooms, entries)
             /\ placed = [a EXCEPT !.g = Appended(@, "object_locations", entries), !.obj.nrooms = Len(entries)]
  <2>1. PICK entries :
             /\ IsList(entries) /\ \A i \in DOMAIN entries : entries[i].of = Len(a.g.tab["objects"])
             /\ StartsAt(a.g, b.rooms, entries)
             /\ placed = [a EXCEPT !.g = Appended(@, "object_locations", entries), !.obj.nrooms = Len(entries)]
    BY <1>6
  <2> HIDE DEF placed
  <2>2. DOMAIN placed = {"g", "obj", "ok"} /\ placed.g = Appended(a.g, "object_locations", entries) /\ placed.ok = a.ok
    BY <1>3, <2>1
  <2>3. /\ DOMAIN placed.obj = ObjectFields /\ placed.obj.roomsOffset = a.obj.roomsOffset
        /\ placed.obj.nrooms = Len(entries) /\ placed.obj.npc = a.obj.npc
    BY <1>3, <2>1 DEF ObjectFields
  <2>4. ObjectRead(placed, offset, Len(entries))
    BY <1>1, <2>2, <2>3 DEF ObjectRead
  <2>5. Extends(a.g, placed.g)
    BY <1>3, <2>1, <2>2, PlacesRight
  <2>6. IsGame(placed.g) /\ Refs(placed.g) /\ placed.obj.npc \in -1..Top(placed.g, "npc_classes")
    BY <1>3, <2>3, <2>5, ExtendsError, ObjectFound
  <2>7. ObjectReached(placed.g, placed)
    BY <2>6, GrowsNot DEF ObjectReached
  <2>8. ObjectReached(placed.g, stated)
    BY <1>3, <2>4, <2>6, <2>7, StateLinesReach
  <2> HIDE DEF stated
  <2>9. /\ Extends(placed.g, stated.g) /\ IsGame(stated.g) /\ Refs(stated.g)
        /\ stated.obj.npc \in -1..Top(stated.g, "npc_classes")
    BY <2>6, <2>8, ExtendsError DEF ObjectReached
  <2>10. Extends(h, stated.g)
    BY <1>3, <2>5, <2>6, <2>9, ExtendsOn
  <2>11. Extends(h, pushed)
    <3>1. "objects" \in TableNames \ {"syntax_lines", "language_code"}
      BY DEF TableNames
    <3>2. \A e : EntryRight(stated.g, "objects", e) =>
                   Extends(stated.g, Counted(push_back(stated.g, "objects", e), "objects"))
      BY <2>9, <3>1, PushExtends
    <3>3. EntryRight(stated.g, "objects", stated.obj)
      BY <2>9 DEF EntryRight
    <3>4. Extends(stated.g, pushed)
      BY <3>2, <3>3
    <3> HIDE DEF pushed
    <3> QED BY <2>10, <3>4, ExtendsOn
  <2> HIDE DEF pushed
  <2>12. Extends(h, LogError(stated.g))
    BY <2>10, ExtendsError
  <2> QED BY <1>2, <1>3, <1>4, <2>2, <2>11, <2>12
<1>7. \/ \E i \in Nat \ {0} : placed = [a EXCEPT !.g = Errors(@, i), !.ok = FALSE]
      \/ \E entries :
           /\ IsList(entries) /\ \A i \in DOMAIN entries : entries[i].of = Len(a.g.tab["objects"])
           /\ StartsAt(a.g, b.rooms, entries)
           /\ placed = [a EXCEPT !.g = Appended(@, "object_locations", entries), !.obj.nrooms = Len(entries)]
  BY <1>3, ObjectRoomsAre
<1> HIDE DEF placed, stated, pushed
<1> QED BY <1>5, <1>6, <1>7

-----------------------------------------------------------------------------
(***************************************************************************)
(* References of lines.                                                    *)
(***************************************************************************)
\* The parameters of the operations the compiler writes by itself.
LEMMA OwnOperations ==
  /\ "always" \in DOMAIN conditions /\ conditions["always"] = <<>>
  /\ "endparse" \in DOMAIN actions /\ actions["endparse"] = <<>>
  /\ "goto" \in DOMAIN actions /\ actions["goto"] = <<"room">>
<1>1. ASSUME NEW row \in conditionRows, "always" \in row.names
      PROVE  row.kinds = <<>>
  BY <1>1 DEF conditionRows, Bare, One, Many
<1>2. ASSUME NEW row \in actionRows
      PROVE  ("endparse" \in row.names => row.kinds = <<>>) /\ ("goto" \in row.names => row.kinds = <<"room">>)
  BY <1>2 DEF actionRows, Bare, One, Many
<1>3. \E row \in conditionRows : "always" \in row.names
  BY DEF conditionRows, Bare, Many
<1>4. \E row \in actionRows : "endparse" \in row.names
  BY DEF actionRows, Bare, Many
<1>5. \E row \in actionRows : "goto" \in row.names
  BY DEF actionRows, One, Many
<1>6. "always" \in DOMAIN conditions /\ conditions["always"] = <<>>
  BY <1>1, <1>3 DEF conditions, Parameters
<1>7. "endparse" \in DOMAIN actions /\ actions["endparse"] = <<>>
  BY <1>2, <1>4 DEF actions, Parameters
<1>8. "goto" \in DOMAIN actions /\ actions["goto"] = <<"room">>
  BY <1>2, <1>5 DEF actions, Parameters
<1> QED BY <1>6, <1>7, <1>8

\* A label of a word stands for one of the type that is wanted.
LEMMA LabelFits ==
  ASSUME NEW v, NEW arg, NEW kind
  PROVE  /\ actualval(v, arg, kind)[1] \notin {"room", "noun", "verb", "daemon", "text"}
         /\ ArgFits(actualval(v, arg, kind), kind, v.wtype)
<1>1. ASSUME NEW name
      PROVE  /\ SlotValue(v, name, kind)[1] \in {"slot", "refused"}
             /\ ArgFits(SlotValue(v, name, kind), kind, v.wtype)
  <2> DEFINE j == SlotLabels[name]
  <2>1. \/ SlotValue(v, name, kind) = Refused
        \/ v.wtype[j] = kind /\ SlotValue(v, name, kind) = ArgSlot(j)
        \/ v.wtype[j + 3] = kind /\ SlotValue(v, name, kind) = ArgSlot(j + 3)
        \/ kind = "real" /\ SlotValue(v, name, kind) = ArgSlot(j)
    BY DEF SlotValue
  <2> HIDE DEF j
  <2> QED BY <2>1 DEF ArgFits, ArgSlot, Refused
<1>2. ASSUME NEW name
      PROVE  /\ PlainValue(v, name, kind)[1] \in {"slot", "refused", "verb_of_the_command", "own", "literal"}
             /\ ArgFits(PlainValue(v, name, kind), kind, v.wtype)
  BY <1>1 DEF PlainValue, ArgFits, Refused, NotALabel, ArgOwn
<1>3. ModifiedValue(v, arg, kind)[1] \in {"refused", "random", "around", "figure"}
  <2> DEFINE plain == PlainValue(v, arg.name, "real")
  <2>1. \/ ModifiedValue(v, arg, kind) \in {Refused, <<"figure", arg.mod, plain>>}
        \/ arg.mod \in {"random", "around"} /\ ModifiedValue(v, arg, kind) = <<arg.mod, arg.name>>
    BY DEF ModifiedValue
  <2> HIDE DEF plain
  <2> QED BY <2>1 DEF Refused
<1>4. actualval(v, arg, kind) \in {NotALabel, ModifiedValue(v, arg, kind), PlainValue(v, arg.name, kind)}
  BY DEF actualval
<1> QED BY <1>2, <1>3, <1>4 DEF ArgFits, NotALabel

LEMMA VocabularyKinds == DOMAIN Vocabulary = {"announce", "stat", "spell", "gender", "verbosity", "rdmode"}
BY DEF Vocabulary

\* What a word is taken for is there.
LEMMA LiteralRight ==
  ASSUME NEW h, IsGame(h), Refs(h), NEW arg, NEW kind
  PROVE  /\ Extends(h, Literal(h, arg, kind).g)
         /\ Literal(h, arg, kind).value # Refused =>
              /\ ArgRight(Literal(h, arg, kind).g, Literal(h, arg, kind).value, kind)
              /\ Literal(h, arg, kind).value[1] # "slot"
<1> DEFINE r == Literal(h, arg, kind)
           text == getTextString(h, arg)
           Right(k, value) == value # Refused => ArgRight(k, value, kind) /\ value[1] # "slot"
<1>1. Extends(h, h) /\ Extends(h, LogError(h)) /\ Extends(h, text.g)
  BY GrowsNot, LogErrorExtends, TextArgumentRight
<1>2. \/ r.g \in {h, LogError(h)} /\ r.value = Refused
      \/ r.g = h /\ kind \in {"onoff", "number"} \cup DOMAIN Vocabulary /\ \E x : r.value = <<kind, x>>
      \/ r.g = h /\ kind = "room" /\ r.value = Found(kind, isRoomName(h, arg.name))
      \/ r.g = h /\ kind \in {"verb", "daemon"} /\ r.value = Found(kind, IsVerb(h, arg.name))
      \/ r.g = h /\ kind = "real" /\ r.value = <<"noun", -1>>
      \/ r.g = h /\ kind \in {"noun", "real"} /\ r.value = Found("noun", isNoun(h, arg.name))
      \/ r.g = text.g /\ kind = "text" /\ r.value = Found(kind, text.id)
  <2> DEFINE r1 == [g |-> h, value |-> <<kind, arg.name \in {"on", "yes"}>>]
             bad == [g |-> LogError(h), value |-> Refused]
             known(words) == [g |-> h, value |-> IF arg.name \in words THEN <<kind, arg.name>> ELSE Refused]
             r3 == [g |-> h, value |-> Found(kind, isRoomName(h, arg.name))]
             r4 == [g |-> h, value |-> Found(kind, IsVerb(h, arg.name))]
             r5 == [g |-> h, value |-> IF arg.name \in Daemons THEN Found(kind, IsVerb(h, arg.name)) ELSE Refused]
             r6 == [g |-> h, value |-> <<"noun", -1>>]
             r7 == [g |-> h, value |-> Found("noun", isNoun(h, arg.name))]
             r8 == [g |-> text.g, value |-> Found(kind, text.id)]
             none == [g |-> h, value |-> Refused]
  <2>1. r = CASE kind = "onoff" -> r1
              [] kind = "announce" /\ arg.name \notin Vocabulary[kind] -> bad
              [] kind \in DOMAIN Vocabulary -> known(Vocabulary[kind])
              [] kind = "room" -> r3
              [] kind = "verb" -> r4
              [] kind = "daemon" -> r5
              [] kind = "real" /\ arg = Name("none") -> r6
              [] kind \in {"noun", "real"} -> r7
              [] kind = "text" -> r8
              [] kind = "number" -> known(Numerals)
              [] OTHER -> none
    BY DEF Literal
  <2>2. r1.g = h /\ r1.value = <<kind, arg.name \in {"on", "yes"}>>
    OBVIOUS
  <2>3. bad.g = LogError(h) /\ bad.value = Refused /\ none.g = h /\ none.value = Refused
    OBVIOUS
  <2>4. \A words : known(words).g = h /\ known(words).value \in {<<kind, arg.name>>, Refused}
    OBVIOUS
  <2>5. r3.g = h /\ r3.value = Found(kind, isRoomName(h, arg.name))
    OBVIOUS
  <2>6. r4.g = h /\ r4.value = Found(kind, IsVerb(h, arg.name))
    OBVIOUS
  <2>7. r5.g = h /\ r5.value \in {Found(kind, IsVerb(h, arg.name)), Refused}
    OBVIOUS
  <2>8. r6.g = h /\ r6.value = <<"noun", -1>>
    OBVIOUS
  <2>9. r7.g = h /\ r7.value = Found("noun", isNoun(h, arg.name))
    OBVIOUS
  <2>10. r8.g = text.g /\ r8.value = Found(kind, text.id)
    OBVIOUS
  <2> HIDE DEF r, text, r1, bad, known, r3, r4, r5, r6, r7, r8, none
  <2>11. \/ r \in {bad, none}
         \/ kind = "onoff" /\ r = r1
         \/ kind \in DOMAIN Vocabulary \cup {"number"} /\ \E words : r = known(words)
         \/ kind = "room" /\ r = r3
         \/ kind = "verb" /\ r = r4
         \/ kind = "daemon" /\ r = r5
         \/ kind = "real" /\ r = r6
         \/ kind \in {"noun", "real"} /\ r = r7
         \/ kind = "text" /\ r = r8
    BY <2>1
  <2> QED BY <2>2, <2>3, <2>4, <2>5, <2>6, <2>7, <2>8, <2>9, <2>10, <2>11
<1>3. \A k : Right(k, Refused)
  OBVIOUS
<1>4. ASSUME kind \in {"onoff", "number"} \cup DOMAIN Vocabulary, NEW x
      PROVE  Right(h, <<kind, x>>)
  BY <1>4, VocabularyKinds DEF ArgRight
<1>5. ASSUME kind = "room"
      PROVE  Right(h, Found(kind, isRoomName(h, arg.name)))
  BY <1>5, NamesFound DEF ArgRight, Found
<1>6. ASSUME kind \in {"verb", "daemon"}
      PROVE  Right(h, Found(kind, IsVerb(h, arg.name)))
  BY <1>6, NamesFound DEF ArgRight, Found
<1>7. ASSUME kind = "real"
      PROVE  Right(h, <<"noun", -1>>)
  <2>1. Len(h.tab["objects"]) \in Nat
    BY TopIs DEF TableNames
  <2>2. -1 \in -1..Top(h, "objects")
    BY <2>1 DEF Top
  <2> QED BY <1>7, <2>2 DEF ArgRight
<1>8. ASSUME kind \in {"noun", "real"}
      PROVE  Right(h, Found("noun", isNoun(h, arg.name)))
  <2>1. Len(h.tab["objects"]) \in Nat /\ Top(h, "objects") \in Int
    BY TopIs DEF TableNames
  <2>2. isNoun(h, arg.name) \in -2..Top(h, "objects")
    BY NamesFound
  <2> QED BY <2>1, <2>2 DEF ArgRight, Found
<1>9. ASSUME kind = "text"
      PROVE  Right(text.g, Found(kind, text.id))
  <2>1. text.id \in -1..Top(text.g, "string_index")
    BY TextArgumentRight
  <2>2. Top(text.g, "string_index") \in Int
    BY <1>1, ExtendsError, TopIs DEF TableNames
  <2> HIDE DEF text
  <2> QED BY <1>9, <2>1, <2>2 DEF ArgRight, Found
<1>10. Extends(h, r.g)
  <2> HIDE DEF text, r
  <2> QED BY <1>1, <1>2
<1>11. Right(r.g, r.value)
  <2> HIDE DEF text, r, Right
  <2> QED BY <1>2, <1>3, <1>4, <1>5, <1>6, <1>7, <1>8, <1>9
<1> QED BY <1>10, <1>11

LEMMA ParameterRight ==
  ASSUME NEW h, IsGame(h), Refs(h), NEW arg, NEW kind
  PROVE  /\ Extends(h, checkParameter(h, arg, kind).g)
         /\ checkParameter(h, arg, kind).value # Refused =>
              /\ ArgRight(checkParameter(h, arg, kind).g, checkParameter(h, arg, kind).value, kind)
              /\ ArgFits(checkParameter(h, arg, kind).value, kind, h.vbslot.wtype)
<1> DEFINE c == checkParameter(h, arg, kind)
           r == Literal(h, arg, kind)
           label == actualval(h.vbslot, arg, kind)
<1>1. \/ c = badParameter([g |-> r.g, value |-> r.value])
      \/ c = badParameter([g |-> h, value |-> label])
  BY LiteralIs DEF checkParameter
<1>2. ASSUME NEW k, Extends(h, k), NEW value
      PROVE  /\ Extends(h, badParameter([g |-> k, value |-> value]).g)
             /\ badParameter([g |-> k, value |-> value]).value = value
             /\ value # Refused => badParameter([g |-> k, value |-> value]).g = k
  BY <1>2, ExtendsError DEF badParameter
<1>3. Extends(h, r.g) /\ (r.value # Refused => ArgRight(r.g, r.value, kind) /\ r.value[1] # "slot")
  BY LiteralRight
<1>4. ArgRight(h, label, kind) /\ ArgFits(label, kind, h.vbslot.wtype)
  BY LabelFits DEF ArgRight
<1>5. Extends(h, h)
  BY GrowsNot
<1> HIDE DEF r, label, c
<1>6. CASE c = badParameter([g |-> r.g, value |-> r.value])
  BY <1>2, <1>3, <1>6 DEF ArgFits, c
<1>7. CASE c = badParameter([g |-> h, value |-> label])
  BY <1>2, <1>4, <1>5, <1>7 DEF c
<1> QED BY <1>1, <1>6, <1>7

\* One argument more.
LEMMA ArgumentJoins ==
  ASSUME NEW h, IsGame(h), NEW a, NEW params, NEW i \in Nat \ {0}, ArgumentsReached(h, a, params, i - 1), a.ok,
         NEW k, Extends(a.g, k), NEW value, ArgRight(k, value, params[i]),
         ArgFits(value, params[i], h.vbslot.wtype), NEW rest
  PROVE  ArgumentsReached(h, Compiled(k, rest, Append(a.args, value), TRUE), params, i)
<1> DEFINE args == Append(a.args, value)
<1>1. /\ Extends(h, a.g) /\ IsGame(a.g) /\ IsList(a.args) /\ Len(a.args) = i - 1
      /\ \A j \in 1..(i - 1) : /\ ArgRight(a.g, a.args[j], params[j])
                               /\ ArgFits(a.args[j], params[j], h.vbslot.wtype)
  BY DEF ArgumentsReached, Extends, Grows
<1>2. IsList(args) /\ Len(args) = i /\ args[i] = value /\ \A j \in 1..(i - 1) : args[j] = a.args[j]
  <2>1. /\ IsList(args) /\ Len(args) = Len(a.args) + 1 /\ args[Len(a.args) + 1] = value
        /\ \A j \in 1..Len(a.args) : args[j] = a.args[j]
    BY <1>1, ListAppend
  <2>2. Len(a.args) + 1 = i
    BY <1>1
  <2> HIDE DEF args
  <2> QED BY <1>1, <2>1, <2>2
<1> HIDE DEF args
<1>3. Extends(h, k) /\ \A j \in 1..(i - 1) : ArgRight(k, a.args[j], params[j])
  BY <1>1, ExtendsOn, ArgGrows DEF Extends
<1>4. \A j \in 1..i : ArgRight(k, args[j], params[j]) /\ ArgFits(args[j], params[j], h.vbslot.wtype)
  <2> TAKE j \in 1..i
  <2>1. CASE j = i
    BY <1>2, <2>1
  <2>2. CASE j \in 1..(i - 1)
    BY <1>1, <1>2, <1>3, <2>2
  <2> QED BY <2>1, <2>2
<1> QED BY <1>2, <1>3, <1>4 DEF ArgumentsReached, Compiled, args

LEMMA CheckNextReaches ==
  ASSUME NEW h, IsGame(h), NEW a, NEW params, NEW i \in Nat \ {0}, ArgumentsReached(h, a, params, i - 1),
         NEW inLang
  PROVE  ArgumentsReached(h, CheckNext(a, params[i], inLang), params, i)
<1> DEFINE kind == params[i]
           r == CheckNext(a, kind, inLang)
<1>1. Extends(h, a.g) /\ IsGame(a.g) /\ Refs(a.g) /\ a.g.vbslot = h.vbslot
  BY DEF ArgumentsReached, Extends, Grows, SyntaxKept
<1>2. \A k, rest, args : Extends(h, k) => ArgumentsReached(h, Compiled(k, rest, args, FALSE), params, i)
  BY DEF ArgumentsReached, Compiled
<1>3. CASE ~a.ok
  BY <1>3, <1>1 DEF CheckNext, ArgumentsReached
<1>4. CASE a.ok /\ r = Missing(a, kind, inLang)
  <2> DEFINE r1 == Compiled(LogError(a.g), <<>>, a.args, FALSE)
             r2 == Compiled(Crash(LogError(a.g)), <<>>, a.args, FALSE)
             r3 == Compiled(LogError(a.g), <<>>, Append(a.args, <<kind, FALSE>>), TRUE)
             r4 == Compiled(Errors(a.g, 2), <<>>, a.args, FALSE)
  <2>1. Missing(a, kind, inLang) =
          CASE ~inLang -> r1 [] kind = "number" -> r2 [] kind = "onoff" -> r3 [] OTHER -> r4
    BY DEF Missing
  <2>2. Extends(a.g, LogError(a.g)) /\ Extends(h, LogError(a.g)) /\ Extends(h, Errors(a.g, 2))
    BY <1>1, ExtendsError, LogErrorExtends
  <2>3. Extends(h, Crash(LogError(a.g)))
    BY <2>2, ExtendsError
  <2>4. ArgumentsReached(h, r1, params, i) /\ ArgumentsReached(h, r2, params, i) /\ ArgumentsReached(h, r4, params, i)
    BY <1>2, <2>2, <2>3
  <2>5. kind = "onoff" => ArgumentsReached(h, r3, params, i)
    <3> SUFFICES ASSUME kind = "onoff" PROVE ArgumentsReached(h, r3, params, i)
      OBVIOUS
    <3>1. ArgRight(LogError(a.g), <<kind, FALSE>>, kind) /\ ArgFits(<<kind, FALSE>>, kind, h.vbslot.wtype)
      BY DEF ArgRight, ArgFits
    <3> QED BY <1>4, <2>2, <3>1, ArgumentJoins
  <2> HIDE DEF r1, r2, r3, r4, kind, r
  <2> QED BY <1>4, <2>1, <2>4, <2>5 DEF r, kind
<1>5. ASSUME a.ok, NEW arg, NEW rest
      PROVE  ArgumentsReached(h, Checked(a, rest, checkParameter(a.g, arg, kind)), params, i)
  <2> DEFINE c == checkParameter(a.g, arg, kind)
  <2>1. /\ Extends(a.g, c.g)
        /\ c.value # Refused => ArgRight(c.g, c.value, kind) /\ ArgFits(c.value, kind, h.vbslot.wtype)
    BY <1>1, ParameterRight
  <2>2. Extends(h, c.g)
    BY <1>1, <2>1, ExtendsOn
  <2> HIDE DEF c
  <2>3. CASE c.value = Refused
    BY <1>2, <2>2, <2>3 DEF Checked, c
  <2>4. CASE c.value # Refused
    BY <1>5, <2>1, <2>4, ArgumentJoins DEF Checked, c
  <2> QED BY <2>3, <2>4
<1>6. \/ r = a /\ ~a.ok
      \/ a.ok /\ r = Missing(a, kind, inLang)
      \/ a.ok /\ \E arg, rest : r = Checked(a, rest, checkParameter(a.g, arg, kind))
  BY DEF CheckNext
<1> QED BY <1>3, <1>4, <1>5, <1>6

LEMMA ParametersReach ==
  ASSUME NEW h, IsGame(h), Refs(h), NEW words, NEW params, IsList(params), NEW inLang \in BOOLEAN
  PROVE  ParametersReady(h, checkParameters(h, words, params, inLang), params)
<1> DEFINE loop == [kind |-> "parameters", from |-> h, inLang |-> inLang, params |-> params]
           base == Compiled(h, words, <<>>, TRUE)
           r == checkParameters(h, words, params, inLang)
<1>1. Rounds(loop, base, params, r)
  BY CheckParametersRounds
<1>2. \A x, i : Reached(loop, x, i) <=> ArgumentsReached(h, x, params, i)
  BY DEF Reached
<1>3. \A x, w : Round(loop, x, w) = CheckNext(x, w, inLang)
  BY DEF Round
<1>4. ArgumentsReached(h, base, params, 0)
  <2>1. base.g = h /\ base.args = <<>>
    BY DEF Compiled
  <2> HIDE DEF base
  <2> QED BY <2>1, GrowsNot, EmptyList DEF ArgumentsReached
<1> HIDE DEF loop, base, r
<1>5. \A x : \A i \in 1..Len(params) : Reached(loop, x, i - 1) => Reached(loop, Round(loop, x, params[i]), i)
  BY <1>2, <1>3, CheckNextReaches
<1>6. Reached(loop, r, Len(params))
  BY <1>1, <1>2, <1>4, <1>5, RoundsReach
<1>7. ArgumentsReached(h, r, params, Len(params)) /\ DOMAIN params = 1..Len(params)
  BY <1>2, <1>6, ListParts
<1>8. ASSUME r.ok, NEW op
      PROVE  /\ OperationRight(r.g, Operation(op, r.args), params)
             /\ OperationFits(Operation(op, r.args), params, h.vbslot.wtype)
  <2>1. DOMAIN r.args = 1..Len(params) /\ Len(r.args) = Len(params)
    BY <1>7, <1>8, ListParts DEF ArgumentsReached
  <2>2. Operation(op, r.args).args = r.args
    BY DEF Operation
  <2> QED BY <1>7, <1>8, <2>1, <2>2 DEF ArgumentsReached, OperationRight, OperationFits
<1> QED BY <1>7, <1>8 DEF ArgumentsReached, ParametersReady, OperationReady, r

LEMMA LinesReach ==
  ASSUME NEW h, IsGame(h), NEW k, Extends(h, k)
  PROVE  /\ LineReached(h, NoLine(k))
         /\ LineReached(h, NoLine(LogError(k)))
         /\ \A not, condition, action :
              /\ OperationReady(h, k, condition, conditions[condition.op])
              /\ OperationReady(h, k, action, actions[action.op])
              => LineReached(h, Line(k, not, condition, action))
<1>1. LineReached(h, NoLine(k))
  BY DEF LineReached, NoLine
<1>2. LineReached(h, NoLine(LogError(k)))
  BY ExtendsError DEF LineReached, NoLine
<1>3. ASSUME NEW not, NEW condition, NEW action,
             OperationReady(h, k, condition, conditions[condition.op]),
             OperationReady(h, k, action, actions[action.op])
      PROVE  LineReached(h, Line(k, not, condition, action))
  <2> DEFINE e == [not |-> not, condition |-> condition, action |-> action]
  <2>1. Line(k, not, condition, action) = [g |-> k, lines |-> <<e>>]
    BY DEF Line
  <2>2. e.condition = condition /\ e.action = action
    OBVIOUS
  <2> HIDE DEF e
  <2>3. LineRight(k, e) /\ LineFits(e, h.vbslot.wtype)
    BY <1>3, <2>2 DEF LineRight, LineFits, OperationReady
  <2> QED BY <2>1, <2>3 DEF LineReached
<1> QED BY <1>1, <1>2, <1>3

\* The operations the compiler writes by itself.
LEMMA OwnReady ==
  ASSUME NEW h, NEW k
  PROVE  /\ OperationReady(h, k, Always, conditions[Always.op])
         /\ OperationReady(h, k, Operation("endparse", <<>>), actions["endparse"])
         /\ \A op \in DOMAIN actions : OperationReady(h, k, Unset(op, actions[op]), actions[op])
<1>1. Always.op = "always" /\ Always.args = <<>> /\ Operation("endparse", <<>>).args = <<>>
  BY DEF Always, Operation
<1>2. \A op : op.args = <<>> => OperationReady(h, k, op, <<>>)
  BY DEF OperationReady, OperationRight, OperationFits
<1>3. ASSUME NEW op \in DOMAIN actions
      PROVE  OperationReady(h, k, Unset(op, actions[op]), actions[op])
  <2> DEFINE params == actions[op]
             args == [i \in DOMAIN params |-> Zero]
  <2>1. IsList(params) /\ DOMAIN params = 1..Len(params) /\ Len(params) \in Nat
    BY OperationsTakeLists, ListParts
  <2>2. Unset(op, params).args = args
    BY DEF Unset, Operation
  <2>3. DOMAIN args = DOMAIN params /\ \A i \in DOMAIN params : args[i] = Zero
    OBVIOUS
  <2>4. Len(args) = Len(params)
    BY <2>1, ListForm
  <2>5. \A kind : ArgRight(k, Zero, kind) /\ ArgFits(Zero, kind, h.vbslot.wtype)
    BY DEF ArgRight, ArgFits, Zero
  <2> HIDE DEF params, args
  <2>6. OperationReady(h, k, Unset(op, params), params)
    BY <2>2, <2>3, <2>4, <2>5 DEF OperationReady, OperationRight, OperationFits
  <2> QED BY <2>6 DEF params
<1> QED BY <1>1, <1>2, <1>3, OwnOperations

\* A line that goes to a room.
LEMMA GotoReaches ==
  ASSUME NEW h, IsGame(h), NEW k, Extends(h, k), NEW not, NEW condition,
         OperationReady(h, k, condition, conditions[condition.op]), NEW name, isRoomName(k, name) # -1
  PROVE  LineReached(h, GotoRoom(k, not, condition, name))
<1> DEFINE arg == <<"room", isRoomName(k, name)>>
           op == Operation("goto", <<arg>>)
<1>1. IsGame(k) /\ Refs(k)
  BY DEF Extends, Grows
<1>2. isRoomName(k, name) \in 0..Top(k, "rooms")
  BY <1>1, NamesFound, TopIs DEF TableNames
<1>3. ArgRight(k, arg, "room") /\ ArgFits(arg, "room", h.vbslot.wtype)
  BY <1>2 DEF ArgRight, ArgFits
<1>4. op.op = "goto" /\ op.args = <<arg>>
  BY DEF Operation
<1>5. GotoRoom(k, not, condition, name) = Line(k, not, condition, op)
  BY DEF GotoRoom
<1> HIDE DEF op, arg
<1>6. OperationReady(h, k, op, <<"room">>)
  BY <1>3, <1>4 DEF OperationReady, OperationRight, OperationFits
<1>7. OperationReady(h, k, op, actions[op.op])
  BY <1>4, <1>6, OwnOperations
<1> QED BY <1>5, <1>7, LinesReach

\* What was ready stays so.
LEMMA ReadyOn ==
  ASSUME NEW h, IsGame(h), NEW k, Extends(h, k), NEW l, Extends(k, l), NEW op, NEW params,
         OperationReady(h, k, op, params)
  PROVE  Extends(h, l) /\ OperationReady(k, l, op, params) /\ OperationReady(h, l, op, params)
<1>1. Extends(h, l) /\ IsGame(k) /\ Grows(k, l) /\ k.vbslot = h.vbslot
  BY ExtendsOn DEF Extends, Grows, SyntaxKept
<1>2. OperationRight(l, op, params)
  BY <1>1, OperationGrows DEF OperationReady
<1> QED BY <1>1, <1>2 DEF OperationReady

LEMMA ReachesOn ==
  ASSUME NEW h, IsGame(h), NEW k, Extends(h, k), NEW r, LineReached(k, r)
  PROVE  LineReached(h, r)
BY ExtendsOn DEF LineReached, Extends, SyntaxKept

LEMMA ActingReaches ==
  ASSUME NEW h, IsGame(h), Refs(h), NEW not, NEW condition,
         OperationReady(h, h, condition, conditions[condition.op]),
         NEW op \in DOMAIN actions, NEW a, ParametersReady(h, a, actions[op])
  PROVE  LineReached(h, Acting(a, not, condition, op)) /\ LineReached(h, TravelActing(a, condition, op))
<1> DEFINE action == Operation(op, a.args)
<1>1. Extends(h, h) /\ Extends(h, a.g)
  BY GrowsNot DEF ParametersReady
<1>2. LineReached(h, NoLine(a.g)) /\ LineReached(h, NoLine(LogError(a.g)))
  BY <1>1, LinesReach
<1>3. OperationReady(h, a.g, condition, conditions[condition.op])
  BY <1>1, ReadyOn
<1>4. a.ok => OperationReady(h, a.g, action, actions[action.op])
  BY DEF ParametersReady, Operation
<1> HIDE DEF action
<1>5. a.ok => \A no : LineReached(h, Line(a.g, no, condition, action))
  BY <1>1, <1>3, <1>4, LinesReach
<1>6. Acting(a, not, condition, op) = IF a.ok THEN Line(a.g, not, condition, action) ELSE NoLine(a.g)
  BY DEF Acting, action
<1>7. \/ TravelActing(a, condition, op) = NoLine(a.g)
      \/ TravelActing(a, condition, op) = NoLine(LogError(a.g))
      \/ a.ok /\ TravelActing(a, condition, op) = Line(a.g, FALSE, condition, action)
  <2> DEFINE line == Line(a.g, FALSE, condition, action)
  <2>1. TravelActing(a, condition, op) =
          CASE ~a.ok -> NoLine(a.g) [] a.rest # <<>> -> NoLine(LogError(a.g)) [] OTHER -> line
    BY DEF TravelActing, action
  <2> HIDE DEF line
  <2>2. \/ TravelActing(a, condition, op) = NoLine(a.g)
        \/ TravelActing(a, condition, op) = NoLine(LogError(a.g))
        \/ a.ok /\ TravelActing(a, condition, op) = line
    BY <2>1
  <2> QED BY <2>2 DEF line
<1> QED BY <1>2, <1>5, <1>6, <1>7

LEMMA ActionReaches ==
  ASSUME NEW h, IsGame(h), Refs(h), NEW not, NEW condition,
         OperationReady(h, h, condition, conditions[condition.op]),
         NEW words, words[1].name \in DOMAIN actions
  PROVE  LineReached(h, ActionLine(h, not, condition, words))
BY OperationsTakeLists, ParametersReach, ActingReaches DEF ActionLine

LEMMA AfterConditionReaches ==
  ASSUME NEW h, IsGame(h), Refs(h), NEW not, NEW condition,
         OperationReady(h, h, condition, conditions[condition.op]), NEW words
  PROVE  LineReached(h, AfterCondition(h, not, condition, words))
<1>1. Extends(h, h)
  BY GrowsNot
<1>2. \/ AfterCondition(h, not, condition, words) = NoLine(LogError(h))
      \/ /\ words[1].name \in DOMAIN actions
         /\ AfterCondition(h, not, condition, words) = ActionLine(h, not, condition, words)
      \/ /\ isRoomName(h, words[1].name) # -1
         /\ AfterCondition(h, not, condition, words) = GotoRoom(h, not, condition, words[1].name)
  BY DEF AfterCondition
<1> QED BY <1>1, <1>2, LinesReach, ActionReaches, GotoReaches

LEMMA ConditionReaches ==
  ASSUME NEW h, IsGame(h), Refs(h), NEW not, NEW words, words[1].name \in DOMAIN conditions
  PROVE  LineReached(h, ConditionLine(h, not, words))
<1> DEFINE op == words[1].name
           a == checkParameters(h, Tail(words), conditions[op], TRUE)
           condition == Operation(op, a.args)
<1>1. ParametersReady(h, a, conditions[op])
  BY OperationsTakeLists, ParametersReach
<1>2. ConditionLine(h, not, words) = Conditional(a, not, op)
  BY DEF ConditionLine
<1> HIDE DEF a
<1>3. Extends(h, a.g) /\ IsGame(a.g) /\ Refs(a.g) /\ a.g.vbslot = h.vbslot
  BY <1>1 DEF ParametersReady, Extends, Grows, SyntaxKept
<1>4. LineReached(h, NoLine(a.g)) /\ LineReached(h, NoLine(LogError(a.g)))
  BY <1>3, LinesReach
<1>5. op \in DOMAIN actions => LineReached(h, Line(a.g, not, Always, Unset(op, actions[op])))
  BY <1>3, OwnReady, LinesReach DEF Unset, Operation
<1>6. ASSUME a.ok, NEW w1
      PROVE  LineReached(h, AfterCondition(a.g, not, condition, w1))
  <2>1. condition.op = op
    BY DEF Operation
  <2>2. OperationReady(a.g, a.g, condition, conditions[condition.op])
    BY <1>1, <1>3, <1>6, <2>1 DEF ParametersReady, OperationReady
  <2> HIDE DEF condition
  <2>3. LineReached(a.g, AfterCondition(a.g, not, condition, w1))
    BY <1>3, <2>2, AfterConditionReaches
  <2> QED BY <1>3, <2>3, ReachesOn
<1>7. \/ Conditional(a, not, op) = NoLine(a.g)
      \/ Conditional(a, not, op) = NoLine(LogError(a.g))
      \/ op \in DOMAIN actions /\ Conditional(a, not, op) = Line(a.g, not, Always, Unset(op, actions[op]))
      \/ a.ok /\ Conditional(a, not, op) =
           AfterCondition(a.g, not, condition, Leading(a.rest, PreActionWords))
  BY DEF Conditional
<1> HIDE DEF condition, op
<1> QED BY <1>2, <1>4, <1>5, <1>6, <1>7 DEF op

LEMMA LanguageLineReaches ==
  ASSUME NEW h, IsGame(h), Refs(h), NEW words
  PROVE  LineReached(h, langLine(h, words))
<1>1. Extends(h, h)
  BY GrowsNot
<1>2. \E rest, not :
        \/ langLine(h, words) = NoLine(LogError(h))
        \/ langLine(h, words) = Line(h, not, Always, Operation("endparse", <<>>))
        \/ rest[1].name \in DOMAIN conditions /\ langLine(h, words) = ConditionLine(h, not, rest)
        \/ rest[1].name \in DOMAIN actions /\ langLine(h, words) = ActionLine(h, not, Always, rest)
        \/ isRoomName(h, rest[1].name) # -1 /\ langLine(h, words) = GotoRoom(h, not, Always, rest[1].name)
  <2> DEFINE rest == Leading(words, PreConditionWords \cup Negations)
             negations == SelectSeq(SubSeq(words, 1, Len(words) - Len(rest)), LAMBDA w : w.name \in Negations)
             not == Len(negations) % 2 = 1
  <2>1. langLine(h, words) =
          CASE rest = <<>> -> NoLine(LogError(h))
            [] rest[1].name = ALWAYSEP -> Line(h, not, Always, Operation("endparse", <<>>))
            [] rest[1].name \in DOMAIN conditions -> ConditionLine(h, not, rest)
            [] rest[1].name \in DOMAIN actions -> ActionLine(h, not, Always, rest)
            [] isRoomName(h, rest[1].name) # -1 -> GotoRoom(h, not, Always, rest[1].name)
            [] OTHER -> NoLine(LogError(h))
    BY DEF langLine
  <2> HIDE DEF rest, not, negations
  <2>2. \/ langLine(h, words) = NoLine(LogError(h))
        \/ langLine(h, words) = Line(h, not, Always, Operation("endparse", <<>>))
        \/ rest[1].name \in DOMAIN conditions /\ langLine(h, words) = ConditionLine(h, not, rest)
        \/ rest[1].name \in DOMAIN actions /\ langLine(h, words) = ActionLine(h, not, Always, rest)
        \/ isRoomName(h, rest[1].name) # -1 /\ langLine(h, words) = GotoRoom(h, not, Always, rest[1].name)
    BY <2>1
  <2> QED BY <2>2
<1>3. /\ OperationReady(h, h, Always, conditions[Always.op])
      /\ OperationReady(h, h, Operation("endparse", <<>>), actions[Operation("endparse", <<>>).op])
  BY OwnReady DEF Operation
<1> QED BY <1>1, <1>2, <1>3, LinesReach, ConditionReaches, ActionReaches, GotoReaches

LEMMA TravelActionReaches ==
  ASSUME NEW h, IsGame(h), Refs(h), NEW condition,
         OperationReady(h, h, condition, conditions[condition.op]), NEW words
  PROVE  LineReached(h, TravelAction(h, condition, words))
<1> DEFINE op == words[1].name
           a == checkParameters(h, Tail(words), actions[op], FALSE)
           there == GotoRoom(h, FALSE, condition, op)
<1>1. Extends(h, h)
  BY GrowsNot
<1>2. op \in DOMAIN actions => ParametersReady(h, a, actions[op])
  BY OperationsTakeLists, ParametersReach
<1>3. TravelAction(h, condition, words) =
        CASE words = <<>> -> NoLine(LogError(h))
          [] isRoomName(h, op) # -1 -> there
          [] op \notin DOMAIN actions \/ op = "travel" -> NoLine(LogError(h))
          [] OTHER -> TravelActing(a, condition, op)
  BY DEF TravelAction
<1>4. isRoomName(h, op) # -1 => LineReached(h, there)
  BY <1>1, GotoReaches
<1> HIDE DEF there, a
<1>5. LineReached(h, NoLine(LogError(h))) /\ (op \in DOMAIN actions => LineReached(h, TravelActing(a, condition, op)))
  BY <1>1, <1>2, LinesReach, ActingReaches
<1> HIDE DEF op
<1> QED BY <1>3, <1>4, <1>5

LEMMA TravelLineReaches ==
  ASSUME NEW h, IsGame(h), Refs(h), NEW line
  PROVE  LineReached(h, processTravelCnALine(h, line))
<1> DEFINE words == Leading(line, PreConditionWords \cup {"is"} \cup Negations)
           op == words[1].name
           a == checkParameters(h, Tail(words), conditions[op], FALSE)
           end == Line(h, FALSE, Always, Operation("endparse", <<>>))
<1>1. Extends(h, h)
  BY GrowsNot
<1>2. op \in DOMAIN conditions => ParametersReady(h, a, conditions[op])
  BY OperationsTakeLists, ParametersReach
<1>3. processTravelCnALine(h, line) =
        CASE words = <<>> -> NoLine(LogError(h))
          [] op = ALWAYSEP -> end
          [] op \notin DOMAIN conditions -> TravelAction(h, Always, Leading(words, TravelPreActionWords))
          [] OTHER -> TravelConditional(a, op)
  BY DEF processTravelCnALine
<1>4. LineReached(h, end)
  BY OwnReady, <1>1, LinesReach DEF Operation
<1> HIDE DEF a, words, end
<1>5. ASSUME op \in DOMAIN conditions
      PROVE  LineReached(h, TravelConditional(a, op))
  <2> DEFINE condition == Operation(op, a.args)
  <2>1. Extends(h, a.g) /\ IsGame(a.g) /\ Refs(a.g) /\ a.g.vbslot = h.vbslot
    BY <1>2, <1>5 DEF ParametersReady, Extends, Grows, SyntaxKept
  <2>2. LineReached(h, NoLine(a.g))
    BY <2>1, LinesReach
  <2>3. ASSUME a.ok, NEW w1
        PROVE  LineReached(h, TravelAction(a.g, condition, w1))
    <3>1. condition.op = op
      BY DEF Operation
    <3>2. OperationReady(a.g, a.g, condition, conditions[condition.op])
      BY <1>2, <1>5, <2>1, <2>3, <3>1 DEF ParametersReady, OperationReady
    <3> HIDE DEF condition
    <3>3. LineReached(a.g, TravelAction(a.g, condition, w1))
      BY <2>1, <3>2, TravelActionReaches
    <3> QED BY <2>1, <3>3, ReachesOn
  <2> QED BY <2>2, <2>3 DEF TravelConditional
<1>6. LineReached(h, NoLine(LogError(h))) /\ LineReached(h, TravelAction(h, Always, Leading(words, TravelPreActionWords)))
  BY <1>1, LinesReach, TravelActionReaches, OwnReady
<1> QED BY <1>3, <1>4, <1>5, <1>6

-----------------------------------------------------------------------------
(***************************************************************************)
(* References of verbs and syntax lines.                                   *)
(***************************************************************************)
LEMMA VerbsEdited ==
  ASSUME NEW h, IsGame(h), Refs(h), NEW i, NEW e
  PROVE  Extends(h, Edited(h, "verbs", [h.tab["verbs"] EXCEPT ![i] = e]))
<1> DEFINE verbs == h.tab["verbs"]
           t == [verbs EXCEPT ![i] = e]
<1>1. "verbs" \in TableNames \ {"syntax_lines", "language_code", "objects"} /\ IsList(verbs)
  BY DEF TableNames, IsGame
<1>2. IsList(t) /\ Len(t) = Len(verbs)
  BY <1>1, ListExcept
<1> HIDE DEF t
<1>3. \A j \in DOMAIN t : EntryRight(h, "verbs", t[j])
  BY DEF EntryRight
<1>4. Extends(h, Edited(h, "verbs", t))
  BY <1>1, <1>2, <1>3, EditedExtends
<1> QED BY <1>4 DEF t

LEMMA VerbPushed ==
  ASSUME NEW h, IsGame(h), Refs(h), NEW e
  PROVE  /\ Extends(h, push_back(h, "verbs", e))
         /\ Extends(h, Counted(push_back(h, "verbs", e), "verbs"))
<1>1. "verbs" \in TableNames \ {"syntax_lines", "language_code"} /\ EntryRight(h, "verbs", e)
  BY DEF TableNames, EntryRight
<1>2. \A x : EntryRight(h, "verbs", x) => /\ Extends(h, push_back(h, "verbs", x))
                                           /\ Extends(h, Counted(push_back(h, "verbs", x), "verbs"))
  BY <1>1, PushExtends
<1> QED BY <1>1, <1>2

LEMMA TravelVerbExtends ==
  ASSUME NEW h, IsGame(h), Refs(h), NEW word
  PROVE  Extends(h, registerTravelVerb(h, word))
<1> DEFINE i == IsVerb(h, word) + 1
           marked == [h EXCEPT !.tab["verbs"][i].flags = @ + VB_TRAVEL]
           e == [h.tab["verbs"][i] EXCEPT !.flags = @ + VB_TRAVEL]
<1>1. \/ registerTravelVerb(h, word) = Counted(push_back(h, "verbs", NewVerb(word, VB_TRAVEL)), "verbs")
      \/ registerTravelVerb(h, word) = LogError(h)
      \/ registerTravelVerb(h, word) = marked
  BY DEF registerTravelVerb
<1>2. marked = Edited(h, "verbs", [h.tab["verbs"] EXCEPT ![i] = e])
  BY DEF Edited
<1>3. Extends(h, marked)
  <2> HIDE DEF marked, e, i
  <2> QED BY <1>2, VerbsEdited
<1> HIDE DEF marked
<1> QED BY <1>1, <1>3, VerbPushed, LogErrorExtends

LEMMA TravelVerbsExtend ==
  ASSUME NEW h, IsGame(h), Refs(h), NEW words, IsList(words)
  PROVE  Extends(h, registerTravelVerbs(h, words))
<1> DEFINE loop == [kind |-> "travel_verbs", from |-> h]
           r == registerTravelVerbs(h, words)
<1>1. Rounds(loop, h, words, r)
  BY RegisterTravelVerbsRounds
<1>2. \A x, i : Reached(loop, x, i) <=> Extends(h, x)
  BY DEF Reached
<1>3. \A x, w : Round(loop, x, w) = registerTravelVerb(x, w)
  BY DEF Round
<1>4. Extends(h, h)
  BY GrowsNot
<1> HIDE DEF loop, r
<1>5. \A x, w : Extends(h, x) => Extends(h, registerTravelVerb(x, w))
  <2> SUFFICES ASSUME NEW x, NEW w, Extends(h, x) PROVE Extends(h, registerTravelVerb(x, w))
    OBVIOUS
  <2>1. Extends(x, registerTravelVerb(x, w))
    BY TravelVerbExtends DEF Extends, Grows
  <2> QED BY <2>1, ExtendsOn
<1>6. \A x : \A i \in 1..Len(words) : Reached(loop, x, i - 1) => Reached(loop, Round(loop, x, words[i]), i)
  BY <1>2, <1>3, <1>5
<1>7. Reached(loop, r, Len(words))
  BY <1>1, <1>2, <1>4, <1>6, RoundsReach
<1> QED BY <1>2, <1>7 DEF r

LEMMA VerbNamedExtends ==
  ASSUME NEW h, IsGame(h), Refs(h), NEW id
  PROVE  Extends(h, getLangVerb(h, id).g)
<1> DEFINE at(k, verbId) == Edited(k, "verbs", Started(k.tab["verbs"], verbId, Size(k, "syntax_lines")))
           added == push_back(h, "verbs", NewVerb(id, 0))
           again == [h EXCEPT !.twice = TRUE]
<1>1. \/ getLangVerb(h, id).g = LogError(h)
      \/ \E i : getLangVerb(h, id).g = at(added, i)
      \/ \E i : getLangVerb(h, id).g = at(again, i)
  <2> DEFINE to(k, verbId) == [g |-> at(k, verbId), verbId |-> verbId]
             refused == [g |-> LogError(h), verbId |-> -1]
  <2>1. \/ getLangVerb(h, id) = refused
        \/ getLangVerb(h, id) = to(added, Size(h, "verbs"))
        \/ getLangVerb(h, id) = to(again, IsVerb(h, id))
    BY DEF getLangVerb, Edited, Started, Size
  <2>2. refused.g = LogError(h) /\ \A k, i : to(k, i).g = at(k, i)
    OBVIOUS
  <2> HIDE DEF to, refused, at, added, again
  <2> QED BY <2>1, <2>2
<1>2. ASSUME NEW k, Extends(h, k), NEW i
      PROVE  Extends(h, at(k, i))
  <2> DEFINE e == [k.tab["verbs"][i + 1] EXCEPT !.slotOffset = Size(k, "syntax_lines")]
  <2>1. at(k, i) = Edited(k, "verbs", [k.tab["verbs"] EXCEPT ![i + 1] = e])
    BY DEF Started
  <2>2. IsGame(k) /\ Refs(k)
    BY <1>2 DEF Extends, Grows
  <2> HIDE DEF e, at
  <2>3. Extends(k, at(k, i))
    BY <2>1, <2>2, VerbsEdited
  <2> QED BY <1>2, <2>3, ExtendsOn
<1>3. Extends(h, added)
  BY VerbPushed
<1>4. Extends(h, again)
  BY AlikeExtends DEF IsGame, GameFields, Alike
<1> HIDE DEF at, added, again
<1> QED BY <1>1, <1>2, <1>3, <1>4, LogErrorExtends

LEMMA VerbFlagsExtend ==
  ASSUME NEW h, IsGame(h), Refs(h), NEW verbId, NEW words, IsList(words)
  PROVE  Extends(h, getVerbFlags(h, verbId, words))
<1> DEFINE loop == [kind |-> "verb_flags", from |-> h]
           base == [g |-> h, flags |-> VB_TRAVEL, precedence |-> 0, stop |-> FALSE]
           a == VerbFlags(base, words)
           fields == {"g", "flags", "precedence", "stop"}
<1>1. Rounds(loop, base, words, a)
  BY VerbFlagsRounds
<1>2. \A x, i : Reached(loop, x, i) <=> (DOMAIN x = fields /\ Extends(h, x.g))
  BY DEF Reached
<1>3. \A x, w : Round(loop, x, w) = VerbFlag(x, w)
  BY DEF Round
<1>4. DOMAIN base = fields /\ Extends(h, base.g)
  BY GrowsNot
<1> HIDE DEF loop, base, a
<1>5. ASSUME NEW x, DOMAIN x = fields, Extends(h, x.g), NEW w
      PROVE  DOMAIN VerbFlag(x, w) = fields /\ Extends(h, VerbFlag(x, w).g)
  <2>1. \/ VerbFlag(x, w) = x
        \/ VerbFlag(x, w) = [x EXCEPT !.flags = 0]
        \/ VerbFlag(x, w) = [x EXCEPT !.flags = @ + VB_DREAM]
        \/ VerbFlag(x, w) = [x EXCEPT !.precedence = @ + 1]
        \/ VerbFlag(x, w) = [x EXCEPT !.g = LogError(@)]
        \/ VerbFlag(x, w) = [x EXCEPT !.g = LogError(@), !.stop = TRUE]
    BY DEF VerbFlag
  <2>2. VerbFlag(x, w).g \in {x.g, LogError(x.g)} /\ DOMAIN VerbFlag(x, w) = fields
    BY <1>5, <2>1
  <2>3. Extends(h, LogError(x.g))
    BY <1>5, ExtendsError
  <2> QED BY <1>5, <2>2, <2>3
<1>6. \A x : \A i \in 1..Len(words) : Reached(loop, x, i - 1) => Reached(loop, Round(loop, x, words[i]), i)
  BY <1>2, <1>3, <1>5
<1>7. Reached(loop, a, Len(words))
  BY <1>1, <1>2, <1>4, <1>6, RoundsReach
<1>8. Extends(h, a.g) /\ IsGame(a.g) /\ Refs(a.g)
  BY <1>2, <1>7 DEF Extends, Grows
<1> DEFINE e == [a.g.tab["verbs"][verbId + 1] EXCEPT !.flags = a.flags]
<1>9. getVerbFlags(h, verbId, words) = Edited(a.g, "verbs", [a.g.tab["verbs"] EXCEPT ![verbId + 1] = e])
  BY DEF getVerbFlags, Edited, a, base
<1> HIDE DEF e
<1>10. Extends(a.g, getVerbFlags(h, verbId, words))
  BY <1>8, <1>9, VerbsEdited
<1> QED BY <1>8, <1>10, ExtendsOn

\* When no line waits for its syntax line, another one may begin.
LEMMA SyntaxBegins ==
  ASSUME NEW h, IsGame(h), Refs(h), Calm(h), NEW v
  PROVE  Grows(h, [h EXCEPT !.vbslot = v]) /\ Refs([h EXCEPT !.vbslot = v])
<1> DEFINE k == [h EXCEPT !.vbslot = v]
<1>1. /\ IsGame(k) /\ k.tab = h.tab /\ k.labels = h.labels /\ k.roomIdx = h.roomIdx
      /\ k.quiet = h.quiet /\ k.dmoves = h.dmoves
  BY DEF IsGame, GameFields
<1> HIDE DEF k
<1>2. \A s \in TableNames : Len(h.tab[s]) <= Len(k.tab[s])
  BY <1>1, TopIs
<1>3. Grows(h, k)
  BY <1>1, <1>2 DEF Grows, LabelsKept, Moves
<1>4. IndexRight(k)
  BY <1>1 DEF Refs, IndexRight, Top
<1>5. ASSUME NEW s \in TableNames, NEW i \in DOMAIN h.tab[s]
      PROVE  EntryRight(k, s, h.tab[s][i])
  <2> DEFINE e == h.tab[s][i]
  <2> SUFFICES EntryRight(k, s, e)
    OBVIOUS
  <2>1. EntryRight(h, s, e) /\ e = h.tab[s][i]
    BY DEF Refs
  <2> HIDE DEF e
  <2>2. CASE s # "language_code"
    <3>1. \A t : Top(k, t) = Top(h, t)
      BY <1>1 DEF Top
    <3>2. s = "object_locations" => PlaceRight(k, e)
      BY <1>3, <2>1, PlaceGrows DEF EntryRight
    <3>3. s = "travel" => LineRight(k, e)
      BY <1>3, <2>1, LineGrows DEF EntryRight
    <3> QED BY <2>1, <2>2, <3>1, <3>2, <3>3 DEF EntryRight
  <2>3. CASE s = "language_code"
    <3>1. e.of \in Nat /\ LineRight(k, e) /\ LineFits(e, Types(h, e.of))
      BY <1>3, <2>1, <2>3, LineGrows DEF EntryRight
    <3>2. e.of < Len(h.tab["syntax_lines"])
      <4>1. Len(h.tab["syntax_lines"]) \in Nat
        BY TopIs DEF TableNames
      <4>2. e.of \in 0..(Len(h.tab["syntax_lines"]) - 1)
        BY <2>1, <2>3 DEF Calm, Belong
      <4> QED BY <4>1, <4>2
    <3>3. Types(k, e.of) = Types(h, e.of)
      BY <1>1, <3>2 DEF Types
    <3> QED BY <2>3, <3>1, <3>3 DEF EntryRight
  <2> QED BY <2>2, <2>3
<1>6. Refs(k)
  BY <1>1, <1>4, <1>5 DEF Refs
<1> QED BY <1>3, <1>6 DEF k

\* The lines of a result as they join the code of the syntax line that comes next.
LEMMA CodedGrows ==
  ASSUME NEW h, IsGame(h), Refs(h), NEW r, Extends(h, r.g), IsList(r.lines),
         \A i \in DOMAIN r.lines : LineRight(r.g, r.lines[i]) /\ LineFits(r.lines[i], h.vbslot.wtype),
         Belong(h.tab["language_code"], Len(h.tab["syntax_lines"]) + 1)
  PROVE  /\ Grows(h, Coded(r)) /\ Refs(Coded(r)) /\ Coded(r).vbslot = h.vbslot
         /\ Coded(r).tab["syntax_lines"] = h.tab["syntax_lines"]
         /\ Belong(Coded(r).tab["language_code"], Len(h.tab["syntax_lines"]) + 1)
<1> DEFINE of == Len(h.tab["syntax_lines"])
           lines == [i \in DOMAIN r.lines |-> CodeLine(r.lines[i], of)]
           k == Appended(r.g, "language_code", lines)
<1>1. /\ IsGame(r.g) /\ Refs(r.g) /\ Grows(h, r.g) /\ r.g.vbslot = h.vbslot
      /\ r.g.tab["syntax_lines"] = h.tab["syntax_lines"] /\ r.g.tab["language_code"] = h.tab["language_code"]
  BY DEF Extends, Grows, SyntaxKept
<1>2. of \in Nat /\ "language_code" \in TableNames /\ "syntax_lines" \in TableNames
  BY TopIs DEF TableNames
<1>3. Coded(r) = k
  BY <1>1 DEF Coded, Appended, Size
<1>4. IsList(lines) /\ DOMAIN lines = DOMAIN r.lines
  <2>1. Len(r.lines) \in Nat /\ DOMAIN r.lines = 1..Len(r.lines)
    BY ListParts
  <2>2. lines = [i \in 1..Len(r.lines) |-> lines[i]] /\ DOMAIN lines = DOMAIN r.lines
    BY <2>1
  <2> HIDE DEF lines
  <2> QED BY <2>1, <2>2, ListForm
<1>5. \A i \in DOMAIN lines : /\ lines[i].of = of /\ lines[i].condition = r.lines[i].condition
                              /\ lines[i].action = r.lines[i].action
  BY DEF CodeLine
<1> HIDE DEF lines, of
<1>6. Types(r.g, of) = h.vbslot.wtype
  BY <1>1, <1>2 DEF of, Types
<1>7. ASSUME NEW i \in DOMAIN lines
      PROVE  EntryRight(r.g, "language_code", lines[i])
  <2>1. LineRight(r.g, r.lines[i]) /\ LineFits(r.lines[i], h.vbslot.wtype)
    BY <1>4
  <2>2. LineRight(r.g, lines[i]) /\ LineFits(lines[i], h.vbslot.wtype)
    BY <1>5, <2>1 DEF LineRight, LineFits
  <2> QED BY <1>2, <1>5, <1>6, <2>2 DEF EntryRight
<1>8. Grows(r.g, k) /\ Refs(k)
  BY <1>1, <1>2, <1>4, <1>7, AppendedGrows
<1>9. /\ k.tab["language_code"] = h.tab["language_code"] \o lines
      /\ k.tab["syntax_lines"] = h.tab["syntax_lines"]
  <2>1. Evolves(r.g, k, {"language_code"}) /\ k.tab["language_code"] = r.g.tab["language_code"] \o lines
    BY <1>1, <1>2, <1>4, AppendedEvolves
  <2>2. k.tab["syntax_lines"] = r.g.tab["syntax_lines"]
    BY <1>2, <2>1 DEF Evolves
  <2> HIDE DEF k
  <2> QED BY <1>1, <2>1, <2>2
<1>10. k.vbslot = h.vbslot
  BY <1>1 DEF Appended, IsGame, GameFields
<1>11. Belong(h.tab["language_code"] \o lines, of + 1)
  <2>1. Belong(lines, of + 1) /\ of + 1 \in Nat
    BY <1>2, <1>5 DEF Belong
  <2>2. IsList(h.tab["language_code"])
    BY <1>2 DEF IsGame
  <2> QED BY <1>4, <2>1, <2>2, BelongConcat DEF of
<1> HIDE DEF k
<1> QED BY <1>1, <1>3, <1>8, <1>9, <1>10, <1>11, GrowsOn DEF of

LEMMA SyntaxEntryReaches ==
  ASSUME NEW h, IsGame(h), NEW a, NEW slot, SyntaxReached(h, a, slot), NEW words
  PROVE  SyntaxReached(h, SyntaxEntry(a, words), slot)
<1>1. CASE a.g.fate # "alive"
  BY <1>1 DEF SyntaxEntry
<1>2. CASE a.g.fate = "alive"
  <2> DEFINE r == langLine(a.g, words)
             more == [a.slot EXCEPT !.ents = @ + 1]
  <2>1. SyntaxEntry(a, words) = [slot |-> more, g |-> Coded(r)] /\ h.fate = "alive"
    BY <1>2 DEF SyntaxEntry, SyntaxReached
  <2>2. /\ Grows(h, a.g) /\ Refs(a.g) /\ a.g.vbslot = h.vbslot /\ IsGame(a.g)
        /\ a.g.tab["syntax_lines"] = h.tab["syntax_lines"]
        /\ DOMAIN a.slot = SlotFields /\ a.slot.wtype = slot.wtype
        /\ Belong(a.g.tab["language_code"], Len(h.tab["syntax_lines"]) + 1)
    BY <2>1 DEF SyntaxReached, Grows
  <2>3. LineReached(a.g, r) /\ IsList(r.lines)
    BY <2>2, LanguageLineReaches, LanguageLineComes DEF Coming
  <2> HIDE DEF r
  <2>4. /\ Grows(a.g, Coded(r)) /\ Refs(Coded(r)) /\ Coded(r).vbslot = a.g.vbslot
        /\ Coded(r).tab["syntax_lines"] = a.g.tab["syntax_lines"]
        /\ Belong(Coded(r).tab["language_code"], Len(a.g.tab["syntax_lines"]) + 1)
    BY <2>2, <2>3, CodedGrows DEF LineReached
  <2>5. DOMAIN more = SlotFields /\ more.wtype = slot.wtype
    BY <2>2 DEF SlotFields
  <2>6. Grows(h, Coded(r))
    BY <2>2, <2>4, GrowsOn
  <2> HIDE DEF more
  <2> QED BY <2>1, <2>2, <2>4, <2>5, <2>6 DEF SyntaxReached
<1> QED BY <1>1, <1>2

LEMMA SyntaxEntriesReach ==
  ASSUME NEW h, IsGame(h), NEW slot, SyntaxReached(h, [g |-> h, slot |-> slot], slot), NEW lines, IsList(lines)
  PROVE  SyntaxReached(h, SyntaxEntries([g |-> h, slot |-> slot], lines), slot)
<1> DEFINE loop == [kind |-> "syntax_entries", from |-> h, slot |-> slot]
           base == [g |-> h, slot |-> slot]
           r == SyntaxEntries(base, lines)
<1>1. Rounds(loop, base, lines, r)
  BY SyntaxEntriesRounds
<1>2. \A x, i : Reached(loop, x, i) <=> SyntaxReached(h, x, slot)
  BY DEF Reached
<1>3. \A x, w : Round(loop, x, w) = SyntaxEntry(x, w)
  BY DEF Round
<1> HIDE DEF loop, base, r
<1>4. \A x : \A i \in 1..Len(lines) : Reached(loop, x, i - 1) => Reached(loop, Round(loop, x, lines[i]), i)
  BY <1>2, <1>3, SyntaxEntryReaches
<1>5. Reached(loop, r, Len(lines))
  BY <1>1, <1>2, <1>4, RoundsReach DEF base
<1> QED BY <1>2, <1>5 DEF r, base

\* The syntax line that joins its table: the lines that wait for it now have it.
LEMMA SyntaxEnds ==
  ASSUME NEW h, IsGame(h), Refs(h), NEW slot, slot.wtype = h.vbslot.wtype,
         Belong(h.tab["language_code"], Len(h.tab["syntax_lines"]) + 1)
  PROVE  LET k == Counted(push_back(h, "syntax_lines", slot), "syntax_lines")
         IN Grows(h, k) /\ Refs(k) /\ Calm(k)
<1> DEFINE l == push_back(h, "syntax_lines", slot)
           k == Counted(l, "syntax_lines")
           syntax == h.tab["syntax_lines"]
<1>1. {"syntax_lines", "language_code", "objects"} \subseteq TableNames /\ IsList(syntax)
  BY DEF TableNames, IsGame
<1>2. /\ Evolves(h, l, {"syntax_lines"}) /\ l.tab["syntax_lines"] = Append(syntax, slot)
      /\ l.vbslot = h.vbslot /\ l.labels = h.labels /\ l.roomIdx = h.roomIdx /\ l.dmoves = h.dmoves /\ IsGame(l)
  <2>1. \A e : Evolves(h, push_back(h, "syntax_lines", e), {"syntax_lines"})
               /\ push_back(h, "syntax_lines", e).tab["syntax_lines"] = Append(syntax, e)
    BY <1>1, PushEvolves
  <2>2. l.vbslot = h.vbslot /\ l.labels = h.labels /\ l.roomIdx = h.roomIdx /\ l.dmoves = h.dmoves
    BY DEF push_back, IsGame, GameFields
  <2> QED BY <2>1, <2>2 DEF Evolves
<1>3. \A t \in TableNames \ {"syntax_lines"} : l.tab[t] = h.tab[t]
  BY <1>2 DEF Evolves
<1> HIDE DEF l
<1>4. /\ Len(syntax) \in Nat /\ Len(l.tab["syntax_lines"]) = Len(syntax) + 1
      /\ \A i \in 1..Len(syntax) : l.tab["syntax_lines"][i] = syntax[i]
      /\ l.tab["syntax_lines"][Len(syntax) + 1] = slot
  BY <1>1, <1>2, ListParts, ListAppend
<1>5. ASSUME NEW t \in TableNames
      PROVE  Len(h.tab[t]) <= Len(l.tab[t])
  <2>1. Len(h.tab[t]) \in Nat
    BY TopIs
  <2>2. CASE t = "syntax_lines"
    BY <1>4, <2>2
  <2>3. CASE t # "syntax_lines"
    BY <1>3, <2>1, <2>3
  <2> QED BY <2>2, <2>3
<1>6. NamesKept(h, l)
  BY <1>3 DEF NamesKept, TableNames
<1>7. IndexRight(l) /\ LabelsKept(h, l)
  BY <1>2, <1>5, <1>6, IndexGrows DEF Refs
<1>8. Grows(h, l)
  <2>1. l.tab["objects"] = h.tab["objects"] /\ l.quiet = h.quiet
    BY <1>1, <1>2, <1>3 DEF Evolves
  <2>2. Moves(h) => Moves(l)
    BY <1>2 DEF Moves
  <2> QED BY <1>2, <1>5, <1>7, <2>1, <2>2 DEF Grows
<1>9. ASSUME NEW of \in Nat
      PROVE  Types(l, of) = Types(h, of)
  <2>1. CASE of < Len(syntax)
    <3>1. of < Len(l.tab["syntax_lines"]) /\ of + 1 \in 1..Len(syntax)
      BY <1>4, <2>1
    <3> QED BY <1>4, <2>1, <3>1 DEF Types
  <2>2. CASE of = Len(syntax)
    BY <1>4, <2>2 DEF Types
  <2>3. CASE of > Len(syntax)
    BY <1>4, <2>3, <1>2 DEF Types
  <2> QED BY <1>4, <2>1, <2>2, <2>3
<1>10. Refs(l)
  <2>1. \A t \in TableNames : \A i \in DOMAIN l.tab[t] :
          (i \in DOMAIN h.tab[t] /\ l.tab[t][i] = h.tab[t][i]) \/ EntryRight(l, t, l.tab[t][i])
    BY <1>3 DEF EntryRight
  <2>2. \A of \in Nat : Types(l, of) = Types(h, of)
    BY <1>9
  <2>3. IndexRight(l) /\ Grows(h, l)
    BY <1>7, <1>8
  <2> HIDE DEF syntax, k
  <2> QED BY <2>1, <2>2, <2>3, RefsGrow
<1>11. Extends(l, k) /\ k.tab = l.tab
  BY <1>1, <1>2, <1>10, CountedExtends DEF Counted, IsGame, GameFields
<1>12. Calm(k)
  BY <1>1, <1>3, <1>4, <1>11 DEF Calm
<1>13. Grows(h, k) /\ Refs(k)
  BY <1>8, <1>11, GrowsOn DEF Extends
<1> HIDE DEF k
<1> QED BY <1>12, <1>13 DEF k, l

LEMMA SyntaxBlockReaches ==
  ASSUME NEW h, IsGame(h), Refs(h), Calm(h), NEW verbId, NEW s, IsList(s.words), IsList(s.lines)
  PROVE  BlocksReached(h, SyntaxBlock(h, verbId, s))
<1> DEFINE v == SyntaxLine(s.words, {w \in ToSet(s.words) : KnownTag(h, w.type, w.tag)})
           slot == [wtype |-> v.wtype, slot |-> v.slot, ents |-> 0, of |-> verbId,
                    lineOffset |-> Size(h, "language_code")]
           e == Errors(h, v.errors)
           grown == [e.tab["verbs"][verbId + 1] EXCEPT !.ents = @ + 1]
           d == Edited(e, "verbs", [e.tab["verbs"] EXCEPT ![verbId + 1] = grown])
           begun == [d EXCEPT !.vbslot = v]
           a == SyntaxEntries([g |-> begun, slot |-> slot], s.lines)
           l == Counted(push_back(a.g, "syntax_lines", a.slot), "syntax_lines")
<1>1. SyntaxBlock(h, verbId, s) = EndSyntax(a)
  BY DEF SyntaxBlock, Edited
<1>2. v.errors \in Nat
  BY SyntaxLineReads
<1>3. DOMAIN slot = SlotFields /\ slot.wtype = v.wtype
  BY DEF SlotFields
<1> HIDE DEF v, slot
<1>4. Extends(h, e) /\ IsGame(e) /\ Refs(e)
  BY <1>2, ErrorsExtend DEF Extends, Grows
<1> HIDE DEF e, grown
<1>5. Extends(e, d)
  BY <1>4, VerbsEdited
<1> HIDE DEF d
<1>6. Extends(h, d) /\ IsGame(d) /\ Refs(d) /\ Calm(d)
  BY <1>4, <1>5, ExtendsOn DEF Extends, Grows, SyntaxKept, Calm
<1>7. Grows(d, begun) /\ Refs(begun) /\ IsGame(begun) /\ begun.vbslot = v /\ begun.tab = d.tab
  BY <1>6, SyntaxBegins DEF Grows, IsGame, GameFields
<1> HIDE DEF begun
<1>8. Grows(h, begun)
  BY <1>6, <1>7, GrowsOn DEF Extends
<1>9. SyntaxReached(begun, [g |-> begun, slot |-> slot], slot)
  <2>1. Belong(begun.tab["language_code"], Len(begun.tab["syntax_lines"]) + 1)
    <3>1. Len(d.tab["syntax_lines"]) \in Nat
      BY <1>6, TopIs DEF TableNames
    <3>2. Belong(d.tab["language_code"], Len(d.tab["syntax_lines"]) + 1)
      BY <1>6, <3>1, BelongMore DEF Calm
    <3> QED BY <1>7, <3>2
  <2>2. Grows(begun, begun)
    BY <1>7, GrowsNot
  <2> QED BY <1>3, <1>7, <2>1, <2>2 DEF SyntaxReached
<1>10. SyntaxReached(begun, a, slot)
  BY <1>7, <1>9, SyntaxEntriesReach
<1> HIDE DEF a
<1>11. CASE a.g.fate # "alive"
  BY <1>7, <1>10, <1>1, <1>11 DEF SyntaxReached, Grows, EndSyntax, BlocksReached
<1>12. CASE a.g.fate = "alive"
  <2>1. /\ Grows(begun, a.g) /\ IsGame(a.g) /\ Refs(a.g) /\ a.g.vbslot = v
        /\ a.g.tab["syntax_lines"] = begun.tab["syntax_lines"] /\ a.slot.wtype = v.wtype
        /\ Belong(a.g.tab["language_code"], Len(begun.tab["syntax_lines"]) + 1)
    BY <1>3, <1>7, <1>10, <1>12 DEF SyntaxReached, Grows
  <2>2. \A x : x.wtype = a.g.vbslot.wtype =>
          LET k == Counted(push_back(a.g, "syntax_lines", x), "syntax_lines")
          IN Grows(a.g, k) /\ Refs(k) /\ Calm(k)
    BY <2>1, SyntaxEnds
  <2>3. Grows(a.g, l) /\ Refs(l) /\ Calm(l)
    BY <2>1, <2>2
  <2>4. EndSyntax(a) = l
    BY <1>12 DEF EndSyntax
  <2> HIDE DEF l
  <2>5. Grows(h, l)
    BY <1>7, <1>8, <2>1, <2>3, GrowsOn
  <2> QED BY <1>1, <2>3, <2>4, <2>5 DEF BlocksReached, Grows
<1> QED BY <1>11, <1>12

\* Once the run is over nothing is compiled.
LEMMA DeadBlocks ==
  ASSUME NEW h, IsGame(h), h.fate # "alive", NEW verbId, NEW s, IsList(s.lines), IsList(s.words)
  PROVE  IsGame(SyntaxBlock(h, verbId, s)) /\ SyntaxBlock(h, verbId, s).fate # "alive"
<1> DEFINE v == SyntaxLine(s.words, {w \in ToSet(s.words) : KnownTag(h, w.type, w.tag)})
           slot == [wtype |-> v.wtype, slot |-> v.slot, ents |-> 0, of |-> verbId,
                    lineOffset |-> Size(h, "language_code")]
           e == Errors(h, v.errors)
           grown == [e.tab["verbs"][verbId + 1] EXCEPT !.ents = @ + 1]
           t == [e.tab["verbs"] EXCEPT ![verbId + 1] = grown]
           d == Edited(e, "verbs", t)
           begun == [d EXCEPT !.vbslot = v]
           base == [g |-> begun, slot |-> slot]
           a == SyntaxEntries(base, s.lines)
           loop == [kind |-> "syntax_entries", from |-> begun, slot |-> slot]
<1>1. SyntaxBlock(h, verbId, s) = EndSyntax(a)
  BY DEF SyntaxBlock, Edited
<1>2. v.errors \in Nat
  BY SyntaxLineReads
<1> HIDE DEF v, slot
<1>3. IsGame(e) /\ e.fate # "alive"
  BY <1>2, ErrorsEvolve DEF Evolves
<1> HIDE DEF e, grown
<1>4. IsList(t) /\ "verbs" \in TableNames
  BY <1>3, ListExcept DEF IsGame, TableNames
<1> HIDE DEF t
<1>5. IsGame(d) /\ d.fate # "alive"
  BY <1>3, <1>4, EditedEvolves DEF Evolves
<1> HIDE DEF d
<1>6. IsGame(begun) /\ begun.fate # "alive"
  BY <1>5 DEF IsGame, GameFields
<1> HIDE DEF begun
<1>7. SyntaxReached(begun, a, slot)
  BY <1>6, SyntaxEntriesReach DEF SyntaxReached
<1> HIDE DEF a
<1> QED BY <1>1, <1>6, <1>7 DEF SyntaxReached, EndSyntax

LEMMA SyntaxBlocksReach ==
  ASSUME NEW h, IsGame(h), Refs(h), Calm(h), NEW verbId, NEW syntaxes, IsList(syntaxes),
         \A s \in ToSet(syntaxes) : IsList(s.words) /\ IsList(s.lines)
  PROVE  BlocksReached(h, SyntaxBlocks(h, verbId, syntaxes))
<1> DEFINE loop == [kind |-> "syntax_blocks", from |-> h, verbId |-> verbId]
           r == SyntaxBlocks(h, verbId, syntaxes)
<1>1. Rounds(loop, h, syntaxes, r)
  BY SyntaxBlocksRounds
<1>2. \A x, i : Reached(loop, x, i) <=> BlocksReached(h, x)
  BY DEF Reached
<1>3. \A x, s : Round(loop, x, s) = SyntaxBlock(x, verbId, s)
  BY DEF Round
<1>4. BlocksReached(h, h)
  BY GrowsNot DEF BlocksReached
<1> HIDE DEF loop, r
<1>5. ASSUME NEW x, BlocksReached(h, x), NEW s \in ToSet(syntaxes)
      PROVE  BlocksReached(h, SyntaxBlock(x, verbId, s))
  <2>1. CASE x.fate = "alive"
    <3>1. Grows(h, x) /\ IsGame(x) /\ Refs(x) /\ Calm(x)
      BY <1>5, <2>1 DEF BlocksReached, Grows
    <3>2. BlocksReached(x, SyntaxBlock(x, verbId, s))
      BY <3>1, SyntaxBlockReaches
    <3> QED BY <3>1, <3>2, GrowsOn DEF BlocksReached
  <2>2. CASE x.fate # "alive"
    BY <1>5, <2>2, DeadBlocks DEF BlocksReached
  <2> QED BY <2>1, <2>2
<1>6. \A x : \A i \in 1..Len(syntaxes) : Reached(loop, x, i - 1) => Reached(loop, Round(loop, x, syntaxes[i]), i)
  BY ListParts, <1>2, <1>3, <1>5 DEF ToSet
<1>7. Reached(loop, r, Len(syntaxes))
  BY <1>1, <1>2, <1>4, <1>6, RoundsReach
<1> QED BY <1>2, <1>7 DEF r

LEMMA ExtendsCalmly ==
  ASSUME NEW h, Calm(h), NEW k, Extends(h, k)
  PROVE  IsGame(k) /\ Grows(h, k) /\ Refs(k) /\ Calm(k) /\ BlocksReached(h, k)
<1>1. IsGame(k) /\ Grows(h, k) /\ Refs(k)
  BY DEF Extends, Grows
<1>2. Calm(k)
  BY DEF Extends, SyntaxKept, Calm
<1> QED BY <1>1, <1>2 DEF BlocksReached

LEMMA VerbBlockReaches ==
  ASSUME NEW h, IsGame(h), Refs(h), Calm(h), NEW b, IsList(b.words), IsList(b.syntaxes),
         \A s \in ToSet(b.syntaxes) : IsList(s.words) /\ IsList(s.lines)
  PROVE  BlocksReached(h, VerbBlock(h, b))
<1> DEFINE named == getLangVerb(h, b.id)
           verbId == named.verbId
           flagged == getVerbFlags(named.g, verbId, b.words)
           written == SyntaxBlocks(flagged, verbId, b.syntaxes)
           eof == Crash(LogError(flagged))
           l == Counted(written, "verbs")
<1>1. VerbBlock(h, b) \in {named.g, eof, LogError(flagged), l}
  BY DEF VerbBlock
<1>2. \A k : Extends(h, k) => IsGame(k) /\ Refs(k) /\ Calm(k) /\ BlocksReached(h, k)
  BY ExtendsCalmly
<1>3. Extends(h, named.g) /\ IsGame(named.g) /\ Refs(named.g)
  BY <1>2, VerbNamedExtends
<1> HIDE DEF named
<1>4. Extends(named.g, flagged)
  BY <1>3, VerbFlagsExtend
<1> HIDE DEF flagged
<1>5. Extends(h, flagged)
  BY <1>3, <1>4, ExtendsOn
<1>6. Extends(h, LogError(flagged)) /\ Extends(h, eof)
  BY <1>5, ExtendsError
<1>7. BlocksReached(h, l)
  <2>1. IsGame(flagged) /\ Refs(flagged) /\ Calm(flagged) /\ Grows(h, flagged)
    BY <1>2, <1>5 DEF Extends
  <2>2. BlocksReached(flagged, written)
    BY <2>1, SyntaxBlocksReach
  <2> HIDE DEF written
  <2>3. IsGame(written) /\ IsGame(l) /\ (written.fate # "alive" => l.fate # "alive")
    BY <2>2, CountedEvolves DEF BlocksReached, TableNames, Evolves
  <2>4. CASE written.fate = "alive"
    <3>1. Grows(flagged, written) /\ Refs(written) /\ Calm(written) /\ IsGame(written) /\ "verbs" \in TableNames
      BY <2>2, <2>4 DEF BlocksReached, Grows, TableNames
    <3>2. Extends(written, l)
      BY <3>1, CountedExtends
    <3> HIDE DEF l
    <3>3. Grows(h, written)
      BY <2>1, <3>1, GrowsOn
    <3>4. Grows(written, l) /\ Refs(l) /\ Calm(l) /\ IsGame(l)
      BY <3>1, <3>2, ExtendsCalmly
    <3> QED BY <2>1, <3>3, <3>4, <3>1, GrowsOn DEF BlocksReached
  <2>5. CASE written.fate # "alive"
    BY <2>3, <2>5 DEF BlocksReached
  <2> QED BY <2>4, <2>5
<1> HIDE DEF l, eof
<1> QED BY <1>1, <1>2, <1>3, <1>5, <1>6, <1>7

LEMMA LangReaches ==
  ASSUME NEW h, IsGame(h), Refs(h), Calm(h), NEW b, IsBlock("lang", b)
  PROVE  BlocksReached(h, lang_proc(h, b))
<1>1. IsList(b.words) /\ (b.type # "travel" => /\ IsList(b.syntaxes)
                                               /\ \A s \in ToSet(b.syntaxes) : IsList(s.words) /\ IsList(s.lines))
  BY DEF IsBlock
<1>2. CASE b.type = "travel"
  <2>1. lang_proc(h, b) = registerTravelVerbs(h, b.words)
    BY <1>2 DEF lang_proc
  <2>2. Extends(h, registerTravelVerbs(h, b.words))
    BY <1>1, TravelVerbsExtend
  <2> QED BY <2>1, <2>2, ExtendsCalmly
<1>3. CASE b.type # "travel"
  BY <1>3, <1>1, VerbBlockReaches DEF lang_proc
<1> QED BY <1>2, <1>3

-----------------------------------------------------------------------------
(***************************************************************************)
(* References of travel tables and synonyms.                               *)
(***************************************************************************)
\* The rooms may be other ones as long as they have their names and lead where they led.
LEMMA RoomsEdited ==
  ASSUME NEW h, IsGame(h), Refs(h), NEW u, IsList(u), Len(u) = Len(h.tab["rooms"]),
         \A i \in DOMAIN u : DOMAIN h.tab["rooms"][i] = RoomFields =>
           /\ DOMAIN u[i] = RoomFields /\ u[i].id = h.tab["rooms"][i].id
           /\ u[i].dmove = h.tab["rooms"][i].dmove
  PROVE  IsGame(Edited(h, "rooms", u)) /\ Extends(h, Edited(h, "rooms", u))
<1>1. "rooms" \in TableNames \ {"syntax_lines", "language_code", "objects"} /\ "rooms" \in TableNames
  BY DEF TableNames
<1>2. DOMAIN u = DOMAIN h.tab["rooms"]
  BY <1>1, TopIs, ListParts
<1>3. ASSUME NEW i \in DOMAIN u
      PROVE  EntryRight(h, "rooms", u[i]) /\ u[i].id = h.tab["rooms"][i].id
  <2>1. EntryRight(h, "rooms", h.tab["rooms"][i])
    BY <1>1, <1>2 DEF Refs
  <2>2. DOMAIN u[i] = RoomFields /\ u[i].id = h.tab["rooms"][i].id /\ u[i].dmove = h.tab["rooms"][i].dmove
    BY <2>1 DEF EntryRight
  <2> QED BY <2>1, <2>2 DEF EntryRight
<1> QED BY <1>1, <1>3, EditedExtends

LEMMA TravelVerbsReach ==
  ASSUME NEW h, IsGame(h), NEW a, TravelReached(h, a), NEW names, IsList(names)
  PROVE  TravelReached(h, getTravelVerbs(a, names))
<1> DEFINE unknown == SelectInSeq(names, LAMBDA name : IsVerb(a.g, name) = -1)
           read == IF unknown = 0 THEN names ELSE SubSeq(names, 1, unknown - 1)
           others == {i \in DOMAIN read : ~IsTravelVerb(a.g.tab["verbs"][IsVerb(a.g, read[i]) + 1])}
           verbs == {IsVerb(a.g, name) : name \in ToSet(names)}
           bad == [a EXCEPT !.g = Errors(@, Cardinality(others) + 1), !.ok = FALSE]
           good == [a EXCEPT !.g = Errors(@, Cardinality(others)), !.verbs = Ascending(verbs)]
           Unknown == {i \in 1..Len(names) : IsVerb(a.g, names[i]) = -1}
<1>1. \/ getTravelVerbs(a, names) = bad
      \/ getTravelVerbs(a, names) = good /\ ~(unknown > 0)
  BY DEF getTravelVerbs
<1>2. DOMAIN a = TravelFields /\ IsList(a.verbs) /\ Extends(h, a.g) /\ IsGame(a.g) /\ Refs(a.g)
      /\ ToSet(a.verbs) \subseteq 0..Top(a.g, "verbs")
  BY DEF TravelReached, Extends, Grows
<1>3. IsFiniteSet(DOMAIN names) /\ IsFiniteSet(ToSet(names)) /\ Len(names) \in Nat /\ DOMAIN names = 1..Len(names)
  BY ListFinite, ListParts
<1>4. unknown = (IF Unknown = {} THEN 0 ELSE Min(Unknown)) /\ (Unknown # {} => Min(Unknown) \in 1..Len(names))
  <2>1. unknown = IF Unknown = {} THEN 0 ELSE Min(Unknown)
    BY <1>3 DEF SelectInSeq
  <2>2. ASSUME Unknown # {}
        PROVE  Min(Unknown) \in 1..Len(names)
    <3>1. Unknown \in SUBSET Nat
      BY <1>3
    <3>2. PICK i \in Unknown : \A j \in Unknown : i <= j
      <4> HIDE DEF Unknown
      <4> QED BY <2>2, <3>1, LeastNumber
    <3>3. Min(Unknown) \in Unknown
      BY <3>2 DEF Min
    <3> QED BY <3>3
  <2> HIDE DEF Unknown, unknown
  <2> QED BY <2>1, <2>2
<1>5. unknown \in 0..Len(names) /\ (~(unknown > 0) => Unknown = {})
  <2> HIDE DEF Unknown, unknown
  <2> QED BY <1>3, <1>4
<1>6. ~(unknown > 0) => \A name \in ToSet(names) : IsVerb(a.g, name) # -1
  <2> HIDE DEF unknown
  <2> QED BY <1>3, <1>5 DEF ToSet
<1>7. Cardinality(others) \in Nat /\ Cardinality(others) + 1 \in Nat
  <2>1. DOMAIN read \subseteq 1..Len(names)
    <3> HIDE DEF unknown
    <3>1. CASE unknown = 0
      BY <1>3, <3>1
    <3>2. CASE unknown # 0
      <4>1. unknown \in 1..Len(names) /\ unknown - 1 \in 0..Len(names)
        BY <1>3, <1>5, <3>2
      <4>2. DOMAIN SubSeq(names, 1, unknown - 1) = 1..(unknown - 1)
        BY <4>1, <1>3 DEF IsList
      <4> QED BY <1>3, <3>2, <4>1, <4>2
    <3> QED BY <3>1, <3>2
  <2>2. others \subseteq DOMAIN names
    BY <1>3, <2>1
  <2> HIDE DEF others
  <2> QED BY <1>3, <2>2, FS_Subset, FS_CardinalityType
<1>8. IsFiniteSet(verbs)
  <2> DEFINE index == [name \in ToSet(names) |-> IsVerb(a.g, name)]
  <2>1. index \in Surjection(ToSet(names), verbs)
    BY DEF Surjection
  <2> HIDE DEF index, verbs
  <2> QED BY <1>3, <2>1, FS_Surjection
<1>9. ASSUME ~(unknown > 0)
      PROVE  verbs \subseteq 0..Top(a.g, "verbs") /\ verbs \in SUBSET Int
  <2>1. Top(a.g, "verbs") \in Int
    BY <1>2, TopIs DEF TableNames
  <2>2. \A name \in ToSet(names) : IsVerb(a.g, name) \in 0..Top(a.g, "verbs")
    BY <1>2, NamesFound, <1>6, <1>9, <2>1
  <2> QED BY <2>1, <2>2
<1>10. ASSUME ~(unknown > 0)
       PROVE  IsList(Ascending(verbs)) /\ ToSet(Ascending(verbs)) \subseteq 0..Top(a.g, "verbs")
  <2>1. verbs \subseteq 0..Top(a.g, "verbs") /\ verbs \in SUBSET Int
    BY <1>9, <1>10
  <2> HIDE DEF verbs, unknown
  <2>2. IsList(Ascending(verbs))
    BY <1>8, AscendingIsList
  <2>3. \A i \in 1..Cardinality(verbs) : Ascending(verbs)[i] \in verbs
    BY <1>8, <2>1, AscendingIn
  <2>4. DOMAIN Ascending(verbs) = 1..Cardinality(verbs)
    BY DEF Ascending
  <2> QED BY <2>1, <2>2, <2>3, <2>4 DEF ToSet
<1> HIDE DEF unknown, Unknown, read, others, verbs
<1>11. \A i \in Nat : Extends(h, Errors(a.g, i)) /\ Errors(a.g, i).tab = a.g.tab
  BY <1>2, ExtendsError DEF Errors, IsGame, GameFields
<1>12. TravelReached(h, bad)
  <2>1. DOMAIN bad = TravelFields /\ bad.verbs = a.verbs /\ bad.g = Errors(a.g, Cardinality(others) + 1)
    BY <1>2 DEF TravelFields
  <2> HIDE DEF bad
  <2> QED BY <1>2, <1>7, <1>11, <2>1 DEF TravelReached, Top
<1>13. ASSUME ~(unknown > 0)
       PROVE  TravelReached(h, good)
  <2>1. DOMAIN good = TravelFields /\ good.verbs = Ascending(verbs) /\ good.g = Errors(a.g, Cardinality(others))
    BY <1>2 DEF TravelFields
  <2> HIDE DEF good
  <2> QED BY <1>7, <1>10, <1>11, <1>13, <2>1 DEF TravelReached, Top
<1> QED BY <1>1, <1>12, <1>13

LEMMA TravelReachedOn ==
  ASSUME NEW h, IsGame(h), NEW a, TravelReached(h, a), NEW k, Extends(a.g, k)
  PROVE  Extends(h, k) /\ ToSet(a.verbs) \subseteq 0..Top(k, "verbs")
<1>1. Extends(h, a.g) /\ IsGame(a.g) /\ ToSet(a.verbs) \subseteq 0..Top(a.g, "verbs")
  BY DEF TravelReached, Extends, Grows
<1>2. Extends(h, k)
  BY <1>1, ExtendsOn
<1>3. "verbs" \in TableNames /\ Grows(a.g, k)
  BY DEF TableNames, Extends
<1>4. Top(a.g, "verbs") <= Top(k, "verbs") /\ Top(a.g, "verbs") \in Int /\ Top(k, "verbs") \in Int
  BY <1>1, <1>3, TopGrows
<1> QED BY <1>1, <1>2, <1>4

LEMMA TravelLinesReach ==
  ASSUME NEW h, IsGame(h), NEW a, TravelReached(h, a), NEW r, LineReached(a.g, r), IsList(r.lines), NEW room
  PROVE  TravelReached(h, TravelLine(a, r, room))
<1> DEFINE lines == [i \in DOMAIN a.verbs |-> TravelTableLine(r.lines[1], a.verbs[i], room)]
           none == [a EXCEPT !.g = r.g, !.ok = FALSE]
           k == [r.g EXCEPT !.tab["travel"] = @ \o lines, !.num["travel"] = @ + Len(lines),
                            !.tab["rooms"][room + 1].ttlines = @ + Len(lines)]
           some == [a EXCEPT !.g = k]
           m0 == Appended(r.g, "travel", lines)
           u == Lined(r.g.tab["rooms"], room, Len(lines))
<1>1. \/ TravelLine(a, r, room) = none
      \/ TravelLine(a, r, room) = some /\ r.lines # <<>>
  BY DEF TravelLine
<1>2. DOMAIN a = TravelFields /\ IsList(a.verbs) /\ Extends(a.g, r.g) /\ IsGame(r.g) /\ Refs(r.g)
  BY DEF TravelReached, LineReached, Extends, Grows
<1>3. Extends(h, r.g) /\ ToSet(a.verbs) \subseteq 0..Top(r.g, "verbs")
  BY <1>2, TravelReachedOn
<1>4. TravelReached(h, none)
  BY <1>2, <1>3 DEF TravelReached, TravelFields
<1>5. IsList(lines) /\ DOMAIN lines = DOMAIN a.verbs
  <2>1. Len(a.verbs) \in Nat /\ DOMAIN a.verbs = 1..Len(a.verbs)
    BY <1>2, ListParts
  <2>2. lines = [i \in 1..Len(a.verbs) |-> lines[i]] /\ DOMAIN lines = DOMAIN a.verbs
    BY <2>1
  <2> HIDE DEF lines
  <2> QED BY <2>1, <2>2, ListForm
<1>6. \A i \in DOMAIN lines : /\ lines[i].verb = a.verbs[i] /\ lines[i].condition = r.lines[1].condition
                              /\ lines[i].action = r.lines[1].action
  BY DEF TravelTableLine
<1>7. k = Edited(m0, "rooms", u)
  BY <1>2 DEF Edited, Appended, Lined, IsGame, GameFields, TableNames
<1> HIDE DEF lines, k
<1>8. ASSUME r.lines # <<>>
      PROVE  TravelReached(h, some)
  <2>1. LineRight(r.g, r.lines[1])
    <3>1. 1 \in DOMAIN r.lines
      BY <1>8 DEF IsList
    <3> QED BY <3>1 DEF LineReached
  <2>2. ASSUME NEW i \in DOMAIN lines
        PROVE  EntryRight(r.g, "travel", lines[i])
    <3>1. LineRight(r.g, lines[i])
      BY <1>6, <2>1 DEF LineRight
    <3>2. lines[i].verb \in 0..Top(r.g, "verbs")
      BY <1>3, <1>5, <1>6 DEF ToSet
    <3> QED BY <3>1, <3>2 DEF EntryRight
  <2>3. "travel" \in TableNames \ {"syntax_lines"} /\ "travel" \in TableNames /\ "rooms" \in TableNames /\ "travel" # "rooms"
    BY DEF TableNames
  <2>4. Extends(r.g, m0)
    BY <1>2, <1>5, <2>2, <2>3, AppendedGrows
  <2>5. IsGame(m0) /\ Refs(m0) /\ m0.tab["rooms"] = r.g.tab["rooms"]
    <3>1. Evolves(r.g, m0, {"travel"})
      BY <1>2, <1>5, <2>3, AppendedEvolves
    <3> QED BY <2>3, <2>4, <3>1 DEF Evolves, Extends
  <2> HIDE DEF m0
  <2>6. IsList(u) /\ Len(u) = Len(m0.tab["rooms"])
    <3>1. IsList(m0.tab["rooms"])
      BY <2>3, <2>5 DEF IsGame
    <3> QED BY <2>5, <3>1, ListExcept DEF Lined
  <2>7. ASSUME NEW i \in DOMAIN u, DOMAIN m0.tab["rooms"][i] = RoomFields
        PROVE  /\ DOMAIN u[i] = RoomFields /\ u[i].id = m0.tab["rooms"][i].id
               /\ u[i].dmove = m0.tab["rooms"][i].dmove
    <3> DEFINE old == m0.tab["rooms"][i]
               new == [old EXCEPT !.ttlines = @ + Len(lines)]
    <3>1. u[i] = old \/ u[i] = new
      BY <2>5 DEF Lined
    <3>2. DOMAIN old = RoomFields
      BY <2>7
    <3> HIDE DEF old, u
    <3>3. DOMAIN new = RoomFields /\ new.id = old.id /\ new.dmove = old.dmove
      BY <3>2 DEF RoomFields
    <3> HIDE DEF new
    <3>4. DOMAIN u[i] = RoomFields /\ u[i].id = old.id /\ u[i].dmove = old.dmove
      BY <3>1, <3>2, <3>3
    <3> QED BY <3>4 DEF old
  <2> HIDE DEF u
  <2>8. Extends(m0, Edited(m0, "rooms", u))
    BY <2>5, <2>6, <2>7, RoomsEdited
  <2>9. Extends(r.g, k)
    BY <1>2, <1>7, <2>4, <2>8, ExtendsOn
  <2>10. Extends(a.g, k)
    BY <1>2, <2>9, ExtendsOn DEF TravelReached, Extends, Grows
  <2>11. Extends(h, k) /\ ToSet(a.verbs) \subseteq 0..Top(k, "verbs")
    BY <2>10, TravelReachedOn
  <2> QED BY <1>2, <2>11 DEF TravelReached, TravelFields
<1> HIDE DEF none, some
<1> QED BY <1>1, <1>4, <1>8

LEMMA TravelEntryReaches ==
  ASSUME NEW h, IsGame(h), NEW a, TravelReached(h, a), NEW room, NEW entry, entry.key = "verbs" => IsList(entry.names)
  PROVE  TravelReached(h, TravelEntry(a, entry, room))
<1> DEFINE named == getTravelVerbs(a, entry.names)
           early == [a EXCEPT !.g = LogError(@), !.ok = FALSE]
           r == processTravelCnALine(a.g, entry.words)
           line == TravelLine(a, r, room)
<1>1. \/ TravelEntry(a, entry, room) = a
      \/ entry.key = "verbs" /\ TravelEntry(a, entry, room) = named
      \/ TravelEntry(a, entry, room) = early
      \/ TravelEntry(a, entry, room) = line
  BY DEF TravelEntry
<1>2. DOMAIN a = TravelFields /\ IsGame(a.g) /\ Refs(a.g) /\ IsList(a.verbs)
  BY DEF TravelReached, Extends, Grows
<1>3. entry.key = "verbs" => TravelReached(h, named)
  BY TravelVerbsReach
<1>4. TravelReached(h, early)
  <2>1. Extends(a.g, LogError(a.g))
    BY <1>2, LogErrorExtends
  <2>2. Extends(h, LogError(a.g)) /\ ToSet(a.verbs) \subseteq 0..Top(LogError(a.g), "verbs")
    BY <2>1, TravelReachedOn
  <2>3. DOMAIN early = TravelFields /\ early.g = LogError(a.g) /\ early.verbs = a.verbs
    BY <1>2 DEF TravelFields
  <2> HIDE DEF early
  <2> QED BY <1>2, <2>2, <2>3 DEF TravelReached
<1>5. TravelReached(h, line)
  <2>1. Coming(a.g, r) /\ LineReached(a.g, r)
    BY <1>2, TravelLineComes, TravelLineReaches
  <2> HIDE DEF r
  <2>2. IsList(r.lines)
    BY <2>1 DEF Coming
  <2> QED BY <2>1, <2>2, TravelLinesReach
<1> HIDE DEF named, early, line
<1> QED BY <1>1, <1>3, <1>4, <1>5

LEMMA TravelEntriesReach ==
  ASSUME NEW h, IsGame(h), NEW a, TravelReached(h, a), NEW room, NEW entries, IsList(entries),
         \A e \in ToSet(entries) : e.key = "verbs" => IsList(e.names)
  PROVE  TravelReached(h, TravelEntries(a, entries, room))
<1> DEFINE loop == [kind |-> "travel_entries", from |-> h, room |-> room]
           r == TravelEntries(a, entries, room)
<1>1. Rounds(loop, a, entries, r)
  BY TravelEntriesRounds
<1>2. \A x, i : Reached(loop, x, i) <=> TravelReached(h, x)
  BY DEF Reached
<1>3. \A x, e : Round(loop, x, e) = TravelEntry(x, e, room)
  BY DEF Round
<1> HIDE DEF loop, r
<1>4. \A x : \A i \in 1..Len(entries) : Reached(loop, x, i - 1) => Reached(loop, Round(loop, x, entries[i]), i)
  <2> SUFFICES ASSUME NEW x, NEW i \in 1..Len(entries), TravelReached(h, x)
               PROVE  TravelReached(h, TravelEntry(x, entries[i], room))
    BY <1>2, <1>3
  <2>1. entries[i] \in ToSet(entries)
    BY ListParts DEF ToSet
  <2>2. entries[i].key = "verbs" => IsList(entries[i].names)
    BY <2>1
  <2> QED BY <2>2, TravelEntryReaches
<1>5. Reached(loop, r, Len(entries))
  BY <1>1, <1>2, <1>4, RoundsReach
<1> QED BY <1>2, <1>5 DEF r

LEMMA TravelExtends ==
  ASSUME NEW h, IsGame(h), Refs(h), NEW b, IsBlock("travel", b)
  PROVE  Extends(h, trav_proc(h, b))
<1> DEFINE room == isRoomName(h, b.id)
           rooms == h.tab["rooms"]
           u == Placed(rooms, room, Size(h, "travel"))
           begun == Edited(h, "rooms", u)
           base == [g |-> begun, verbs |-> <<>>, ok |-> TRUE]
           a == TravelEntries(base, b.entries, room)
<1>1. trav_proc(h, b) \in {LogError(h), a.g}
  BY DEF trav_proc, Edited, Placed
<1>2. "rooms" \in TableNames /\ IsList(rooms)
  BY DEF IsGame, TableNames
<1>3. IsList(u) /\ Len(u) = Len(rooms)
  BY <1>2, ListExcept DEF Placed
<1>4. ASSUME NEW i \in DOMAIN u, DOMAIN rooms[i] = RoomFields
      PROVE  DOMAIN u[i] = RoomFields /\ u[i].id = rooms[i].id /\ u[i].dmove = rooms[i].dmove
  <2> DEFINE old == rooms[i]
             new == [old EXCEPT !.ttOffset = Size(h, "travel")]
  <2>1. u[i] = old \/ u[i] = new
    BY DEF Placed
  <2>2. DOMAIN old = RoomFields
    BY <1>4
  <2> HIDE DEF old, u, rooms
  <2>3. DOMAIN new = RoomFields /\ new.id = old.id /\ new.dmove = old.dmove
    BY <2>2 DEF RoomFields
  <2> HIDE DEF new
  <2>4. DOMAIN u[i] = RoomFields /\ u[i].id = old.id /\ u[i].dmove = old.dmove
    BY <2>1, <2>2, <2>3
  <2> QED BY <2>4 DEF old
<1> HIDE DEF u
<1>5. Extends(h, begun)
  BY <1>3, <1>4, RoomsEdited
<1> HIDE DEF begun
<1>6. TravelReached(h, base)
  BY EmptyList, <1>5 DEF ToSet, TravelReached, TravelFields
<1>7. IsList(b.entries) /\ \A e \in ToSet(b.entries) : e.key = "verbs" => IsList(e.names)
  BY DEF IsBlock
<1> HIDE DEF base
<1>8. TravelReached(h, a)
  BY <1>6, <1>7, TravelEntriesReach
<1> HIDE DEF a
<1> QED BY <1>1, <1>8, LogErrorExtends DEF TravelReached

LEMMA SynonymsEndExtend ==
  ASSUME NEW h, IsGame(h), Refs(h)
  PROVE  Extends(h, syn_end(h))
<1>0. "synonyms" \in TableNames
  BY DEF TableNames
<1>1. IsGame(syn_end(h))
  <2> DEFINE k == syn_end(h)
  <2>1. k = [h EXCEPT !.num["synonyms"] = Len(h.tab["synonyms"])]
    BY DEF syn_end, Size
  <2>2. Len(h.tab["synonyms"]) \in Nat
    BY <1>0, TopIs
  <2> HIDE DEF k
  <2>3. /\ DOMAIN k = GameFields /\ k.tab = h.tab /\ DOMAIN k.num = TableNames
        /\ k.num["synonyms"] = Len(h.tab["synonyms"])
        /\ \A s \in TableNames \ {"synonyms"} : k.num[s] = h.num[s]
        /\ k.errors = h.errors /\ k.quiet = h.quiet /\ k.dmoves = h.dmoves /\ k.fate = h.fate
    BY <1>0, <2>1 DEF IsGame, GameFields
  <2>4. \A s \in TableNames : k.num[s] \in Nat /\ IsList(k.tab[s])
    BY <2>2, <2>3 DEF IsGame
  <2>5. IsGame(k)
    BY <2>3, <2>4 DEF IsGame
  <2> QED BY <2>5 DEF k
<1>2. Alike(h, syn_end(h))
  BY DEF Alike, syn_end, IsGame, GameFields
<1> QED BY <1>1, <1>2, AlikeExtends

LEMMA SynonymsExtend ==
  ASSUME NEW h, IsGame(h), Refs(h), NEW b, IsBlock("syns", b)
  PROVE  Extends(h, syn_proc(h, b))
<1> DEFINE type == IF isNoun(h, b.id) # -1 THEN "noun" ELSE "verb"
           aliases == IF isNoun(h, b.id) # -1 THEN isNoun(h, b.id) ELSE IsVerb(h, b.id)
           fitting == {i \in DOMAIN b.words : b.words[i] # TooLong}
           words == [k \in 1..Cardinality(fitting) |-> b.words[Ascending(fitting)[k]]]
           entries == [k \in DOMAIN words |-> [word |-> words[k], type |-> type, aliases |-> aliases]]
           long == Cardinality(DOMAIN b.words \ fitting)
           e0 == Errors(h, long)
           t0 == e0.tab["synonyms"] \o entries
           k0 == Edited(e0, "synonyms", t0)
<1>1. syn_proc(h, b) = LogError(h) \/ (syn_proc(h, b) = k0 /\ aliases # -1)
  BY DEF syn_proc, Edited
<1>2. long \in Nat /\ Cardinality(fitting) \in Nat
  <2>1. IsFiniteSet(DOMAIN b.words)
    BY ListFinite DEF IsBlock
  <2>2. fitting \subseteq DOMAIN b.words /\ (DOMAIN b.words \ fitting) \subseteq DOMAIN b.words
    OBVIOUS
  <2> HIDE DEF fitting
  <2> QED BY <2>1, <2>2, FS_Subset, FS_CardinalityType
<1>3. IsList(entries)
  <2>1. entries = [k \in 1..Cardinality(fitting) |-> entries[k]]
    OBVIOUS
  <2> HIDE DEF entries, fitting
  <2> QED BY <1>2, <2>1, ListForm
<1>4. \A i \in DOMAIN entries : entries[i].type = type /\ entries[i].aliases = aliases
  OBVIOUS
<1>5. "synonyms" \in TableNames \ {"syntax_lines"} /\ "objects" \in TableNames /\ "verbs" \in TableNames
      /\ "synonyms" \in TableNames
  BY DEF TableNames
<1>6. aliases # -1 => aliases \in -2..Top(h, IF type = "noun" THEN "objects" ELSE "verbs") \ {-1}
  <2>1. isNoun(h, b.id) \in -2..Top(h, "objects") /\ IsVerb(h, b.id) \in -1..Top(h, "verbs")
    BY NamesFound
  <2>2. Top(h, "verbs") \in Int
    BY <1>5, TopIs
  <2>3. CASE isNoun(h, b.id) # -1
    BY <2>1, <2>3
  <2>4. CASE isNoun(h, b.id) = -1
    BY <2>2, <2>1, <2>4
  <2> QED BY <2>3, <2>4
<1> HIDE DEF entries, long, type, aliases
<1>7. Extends(h, e0) /\ IsGame(e0) /\ Refs(e0) /\ e0.tab = h.tab
  <2>1. Extends(h, e0)
    BY <1>2, ErrorsExtend
  <2>2. e0.tab = h.tab
    BY DEF Errors, IsGame, GameFields
  <2> QED BY <2>1, <2>2 DEF Extends, Grows
<1> HIDE DEF e0
<1>8. ASSUME aliases # -1
      PROVE  Extends(e0, k0)
  <2>1. IsList(e0.tab["synonyms"])
    BY <1>5, <1>7 DEF IsGame
  <2>2. IsList(t0) /\ Len(e0.tab["synonyms"]) \in Nat /\ Len(entries) \in Nat
        /\ Len(t0) = Len(e0.tab["synonyms"]) + Len(entries)
    BY <1>3, <2>1, ListConcat, ListParts
  <2>3. ASSUME NEW i \in DOMAIN t0
        PROVE  (i \in DOMAIN e0.tab["synonyms"] /\ t0[i] = e0.tab["synonyms"][i])
                 \/ EntryRight(e0, "synonyms", t0[i])
    <3>1. DOMAIN t0 = 1..Len(t0) /\ DOMAIN e0.tab["synonyms"] = 1..Len(e0.tab["synonyms"])
          /\ DOMAIN entries = 1..Len(entries)
      BY <1>3, <2>1, <2>2, ListParts
    <3>2. /\ \A j \in 1..Len(e0.tab["synonyms"]) : t0[j] = e0.tab["synonyms"][j]
          /\ \A j \in 1..Len(entries) : t0[Len(e0.tab["synonyms"]) + j] = entries[j]
      BY <1>3, <2>1, ListConcat
    <3>3. CASE i \in 1..Len(e0.tab["synonyms"])
      BY <3>1, <3>2, <3>3
    <3>4. CASE i \notin 1..Len(e0.tab["synonyms"])
      <4>1. \A x, y \in Nat : \A z \in 1..(x + y) : z \notin 1..x => z - x \in 1..y /\ x + (z - x) = z
        OBVIOUS
      <4>2. i - Len(e0.tab["synonyms"]) \in 1..Len(entries)
            /\ Len(e0.tab["synonyms"]) + (i - Len(e0.tab["synonyms"])) = i
        BY <2>2, <3>1, <3>4, <4>1
      <4>3. t0[i] = entries[i - Len(e0.tab["synonyms"])]
        BY <3>2, <4>2
      <4>4. t0[i].type = type /\ t0[i].aliases = aliases
        BY <1>4, <3>1, <4>2, <4>3
      <4>5. \A s : Top(e0, s) = Top(h, s)
        BY <1>7 DEF Top
      <4> HIDE DEF t0
      <4> QED BY <1>6, <1>8, <4>4, <4>5 DEF EntryRight
    <3> QED BY <3>3, <3>4
  <2> HIDE DEF t0
  <2>4. Evolves(e0, k0, {"synonyms"}) /\ IsGame(k0) /\ k0.tab["synonyms"] = t0
    BY <1>5, <1>7, <2>2, EditedEvolves DEF Evolves
  <2>5. /\ k0.vbslot = e0.vbslot /\ k0.labels = e0.labels /\ k0.roomIdx = e0.roomIdx
        /\ k0.dmoves = e0.dmoves /\ k0.quiet = e0.quiet
    BY <1>7 DEF Edited, IsGame, GameFields
  <2> HIDE DEF k0
  <2>6. \A t \in TableNames \ {"synonyms"} : k0.tab[t] = e0.tab[t]
    BY <2>4 DEF Evolves
  <2>7. Len(e0.tab["synonyms"]) <= Len(k0.tab["synonyms"])
    BY <2>2, <2>4
  <2>8. \A t \in TableNames : Len(e0.tab[t]) <= Len(k0.tab[t])
    <3> SUFFICES ASSUME NEW t \in TableNames PROVE Len(e0.tab[t]) <= Len(k0.tab[t])
      OBVIOUS
    <3>1. Len(e0.tab[t]) \in Nat
      BY <1>7, TopIs
    <3> QED BY <2>6, <2>7, <3>1
  <2>9. IndexRight(k0) /\ LabelsKept(e0, k0)
    BY <2>6, <1>7, <2>4, <2>5, <2>8, IndexGrows DEF NamesKept, TableNames, Refs
  <2>10. Moves(e0) => Moves(k0)
    BY <2>5 DEF Moves
  <2>11. \A i \in DOMAIN k0.tab["synonyms"] :
           (i \in DOMAIN e0.tab["synonyms"] /\ k0.tab["synonyms"][i] = e0.tab["synonyms"][i])
             \/ EntryRight(e0, "synonyms", k0.tab["synonyms"][i])
    BY <2>3, <2>4
  <2> QED BY <1>5, <1>7, <2>4, <2>5, <2>6, <2>7, <2>9, <2>10, <2>11, TableGrows
<1> HIDE DEF k0
<1> QED BY <1>1, <1>7, <1>8, ExtendsOn, LogErrorExtends

-----------------------------------------------------------------------------
(***************************************************************************)
(* References in every phase, and the numbers of the system messages.      *)
(***************************************************************************)
LEMMA SkipReaches ==
  ASSUME NEW h, IsGame(h), Refs(h), Calm(h)
  PROVE  BlocksReached(h, [h EXCEPT !.skip = FALSE])
BY SkipExtends, ExtendsCalmly

LEMMA HandlersReach ==
  ASSUME NEW h, IsGame(h), Refs(h), Calm(h), NEW b, Phase \in PhaseNames, IsBlock(Phase, b)
  PROVE  BlocksReached(h, Handler(h, b))
<1> DEFINE k == Handler(h, b)
<1>1. /\ Phase = "title" => k = title_proc(h, b)
      /\ Phase = "sysmsg" => k = smsg_proc(h, b)
      /\ Phase \in {"umsg", "obdescs"} => k = umsg_proc(h, b)
      /\ Phase = "rooms" => k = room_proc(h, b)
      /\ Phase = "ranks" => k = rank_proc(h, b)
  BY DEF Handler
<1>2. /\ Phase = "npcs" => k = npc_proc(h, b)
      /\ Phase = "objects" => k = objs_proc(h, b)
      /\ Phase = "lang" => k = lang_proc(h, b)
      /\ Phase = "travel" => k = trav_proc(h, b)
      /\ Phase = "syns" => k = syn_proc(h, b)
  BY DEF Handler
<1> HIDE DEF k
<1>3. \A l : Extends(h, l) => BlocksReached(h, l)
  BY ExtendsCalmly
<1>4. CASE Phase \in {"title", "sysmsg", "umsg", "obdescs"}
  BY <1>1, <1>3, <1>4, TitleExtends, MessagesExtend DEF k
<1>5. CASE Phase = "rooms"
  BY <1>1, <1>3, <1>5, RoomExtends DEF k
<1>6. CASE Phase = "ranks"
  BY <1>1, <1>3, <1>6, RankExtends DEF k
<1>7. CASE Phase = "npcs"
  BY <1>2, <1>3, <1>7, NpcExtends DEF k
<1>8. CASE Phase = "objects"
  BY <1>2, <1>3, <1>8, ObjectExtends DEF k
<1>9. CASE Phase = "lang"
  BY <1>2, <1>9, LangReaches DEF k
<1>10. CASE Phase = "travel"
  BY <1>2, <1>3, <1>10, TravelExtends DEF k
<1>11. CASE Phase = "syns"
  BY <1>2, <1>3, <1>11, SynonymsExtend DEF k
<1> QED BY <1>4, <1>5, <1>6, <1>7, <1>8, <1>9, <1>10, <1>11 DEF PhaseNames

LEMMA EndsReach ==
  ASSUME NEW h, IsGame(h), Refs(h), Calm(h), Moves(h)
  PROVE  /\ Grows(h, AtEnd(h)) /\ IsGame(AtEnd(h)) /\ Refs(AtEnd(h)) /\ Calm(AtEnd(h)) /\ Moves(AtEnd(h))
<1>1. AtEnd(h) \in {smsg_end(h), room_end(h), syn_end(h), h}
  BY DEF AtEnd
<1>2. Extends(h, smsg_end(h)) /\ Extends(h, room_end(h)) /\ Extends(h, h)
  BY MessagesEndExtends, RoomEndExtends, GrowsNot
<1>3. Extends(h, syn_end(h))
  BY SynonymsEndExtend
<1>4. Extends(h, AtEnd(h))
  BY <1>1, <1>2, <1>3
<1>5. Grows(h, AtEnd(h)) /\ IsGame(AtEnd(h)) /\ Refs(AtEnd(h)) /\ Calm(AtEnd(h))
  BY <1>4, ExtendsCalmly
<1> QED BY <1>5 DEF Grows

LEMMA InPlaceStays ==
  ASSUME NEW h, InPlace(h), NEW k, LabelsKept(h, k)
  PROVE  InPlace(k)
<1>1. \A i \in 0..NSMSGS : Sys(i) \in DOMAIN k.labels /\ k.labels[Sys(i)] = h.labels[Sys(i)]
  BY DEF InPlace, LabelsKept
<1>2. \A i \in 1..NSMSGS : i \in 0..NSMSGS
  BY LimitsAssumption
<1> QED BY <1>1, <1>2 DEF InPlace

LEMMA NewGameRefers ==
  ASSUME NEW quiet \in BOOLEAN
  PROVE  Refs(NewGame(quiet)) /\ Calm(NewGame(quiet)) /\ Moves(NewGame(quiet)) /\ Blank(NewGame(quiet))
<1> DEFINE h == NewGame(quiet)
<1>1. h.tab = [s \in TableNames |-> <<>>] /\ h.roomIdx = <<>> /\ h.dmoves = <<>> /\ h.labels = <<>>
  BY SectionNames DEF NewGame
<1> HIDE DEF h
<1>2. \A s \in TableNames : h.tab[s] = <<>>
  BY <1>1
<1>3. DOMAIN <<>> = {} /\ Len(<<>>) = 0
  OBVIOUS
<1>4. Refs(h) /\ Moves(h)
  BY <1>1, <1>2, <1>3 DEF Refs, IndexRight, Moves
<1>5. Calm(h) /\ Blank(h)
  BY <1>1, <1>2, <1>3 DEF Calm, Belong, Blank, TableNames
<1> QED BY <1>4, <1>5 DEF h

LEMMA TitleComes ==
  ASSUME NEW h, IsGame(h), Blank(h) \/ Messages(h), NEW b, title_proc(h, b).fate = "alive"
  PROVE  Messages(title_proc(h, b))
<1> DEFINE k == RegisterTextString(h, Sys(0))
<1>1. title_proc(h, b) = LogFatal(h) \/ title_proc(h, b) = k
  BY DEF title_proc
<1>2. LogFatal(h).fate = "fatal"
  BY DEF LogFatal, IsGame, GameFields
<1>3. title_proc(h, b) = k
  BY <1>1, <1>2
<1>4. CASE Messages(h)
  BY <1>3, <1>4 DEF RegisterTextString, Messages
<1>5. CASE Blank(h)
  <2>1. k.labels = Bind(h.labels, Sys(0), Len(h.tab["string_index"]))
        /\ k.tab["string_index"] = Append(h.tab["string_index"], Sys(0))
    BY <1>5 DEF RegisterTextString, AddTextString, push_back, Blank, IsGame, GameFields, TableNames, Size
  <2>2. DOMAIN k.labels = {Sys(0)} /\ k.labels[Sys(0)] = 0
    BY <1>5, <2>1 DEF Blank, Bind
  <2>3. IsList(h.tab["string_index"]) /\ Len(h.tab["string_index"]) = 0
    BY <1>5 DEF IsGame, TableNames, Blank
  <2>4. Len(k.tab["string_index"]) = 1
    <3>1. Len(Append(h.tab["string_index"], Sys(0))) = Len(h.tab["string_index"]) + 1
      BY <2>3, ListAppend
    <3> HIDE DEF k
    <3> QED BY <2>1, <2>3, <3>1
  <2>5. IsFiniteSet({Sys(0)}) /\ Cardinality({Sys(0)}) = 1
    BY FS_Singleton
  <2> HIDE DEF k
  <2>6. Messages(k)
    BY <2>2, <2>4, <2>5 DEF Messages
  <2> QED BY <1>3, <2>6
<1> QED BY <1>4, <1>5

LEMMA MessagesCome ==
  ASSUME NEW h, IsGame(h), Messages(h), NEW b
  PROVE  Messages(smsg_proc(h, b))
<1> DEFINE k == RegisterTextString(h, b.label)
           count == Cardinality(DOMAIN h.labels)
<1>1. \/ smsg_proc(h, b) = LogError(h)
      \/ smsg_proc(h, b) = k /\ check_smsg(b.label) /\ b.label \notin DOMAIN h.labels
  BY DEF smsg_proc, consumeMessage
<1>2. Messages(LogError(h))
  BY DEF LogError, Errors, IsGame, GameFields, Messages
<1>3. ASSUME check_smsg(b.label), b.label \notin DOMAIN h.labels
      PROVE  Messages(k)
  <2>1. k.labels = Bind(h.labels, b.label, Len(h.tab["string_index"]))
        /\ k.tab["string_index"] = Append(h.tab["string_index"], b.label)
    BY <1>3 DEF RegisterTextString, AddTextString, push_back, IsGame, GameFields, TableNames, Size
  <2>2. IsList(h.tab["string_index"]) /\ Len(h.tab["string_index"]) = count
    BY DEF IsGame, TableNames, Messages
  <2>3. count \in Nat /\ count # 0
    BY FS_CardinalityType, FS_EmptySet DEF Messages
  <2>4. Len(k.tab["string_index"]) = count + 1
    BY <2>1, <2>2, ListAppend
  <2>5. DOMAIN k.labels = DOMAIN h.labels \cup {b.label}
    BY <2>1 DEF Bind
  <2>6. \A label \in DOMAIN h.labels : k.labels[label] = h.labels[label]
    BY <1>3, <2>1 DEF Bind
  <2>7. k.labels[b.label] >= 1
    BY <2>1, <2>2, <2>3 DEF Bind
  <2>8. IsFiniteSet(DOMAIN k.labels) /\ Cardinality(DOMAIN k.labels) = count + 1
    BY <1>3, <2>5, FS_AddElement DEF Messages
  <2> HIDE DEF k, count
  <2> QED BY <1>3, <2>4, <2>5, <2>6, <2>7, <2>8 DEF Messages
<1> HIDE DEF k
<1> QED BY <1>1, <1>2, <1>3

\* Every message is there when the file has been read without errors; as many strings as there are
\* labels leave each label in order no place but its own.
LEMMA MessagesPlaced ==
  ASSUME NEW h, IsGame(h), Refs(h), Messages(h), smsg_end(h).errors = 0
  PROVE  h.quiet \/ InPlace(h)
<1> SUFFICES ASSUME ~h.quiet PROVE InPlace(h)
  OBVIOUS
<1> DEFINE lacking0 == {i \in 1..NSMSGS : Sys(i) \notin DOMAIN h.labels}
           labels == h.labels
           at(i) == labels[Sys(i)]
<1>1. NSMSGS \in Nat
  BY LimitsAssumption
<1>2. \A i \in 1..NSMSGS : Sys(i) \in DOMAIN labels
  <2>1. IsFiniteSet(lacking0)
    <3>1. IsFiniteSet(1..NSMSGS) /\ lacking0 \subseteq 1..NSMSGS
      BY <1>1, FS_Interval
    <3> QED BY <3>1, FS_Subset
  <2>2. Cardinality(lacking0) \in Nat
    BY <2>1, FS_CardinalityType
  <2>3. smsg_end(h).errors = h.errors + Cardinality(lacking0)
    BY DEF smsg_end, Errors, IsGame, GameFields
  <2>4. Cardinality(lacking0) = 0
    <3>1. h.errors \in Nat
      BY DEF IsGame
    <3> HIDE DEF lacking0
    <3> QED BY <2>2, <2>3, <3>1
  <2>5. lacking0 = {}
    <3> HIDE DEF lacking0
    <3> QED BY <2>1, <2>4, FS_EmptySet
  <2> QED BY <2>5
<1>3. Sys(0) \in DOMAIN labels /\ at(0) = 0
  BY DEF Messages
<1>4. \A i \in 0..NSMSGS : Sys(i) \in DOMAIN labels
  <2>1. \A i \in 0..NSMSGS : i = 0 \/ i \in 1..NSMSGS
    BY <1>1
  <2> HIDE DEF labels
  <2> QED BY <1>2, <1>3, <2>1
<1>5. \A i \in 1..NSMSGS : at(i) \in 1..NSMSGS
  <2> DEFINE S == 0..NSMSGS
             named == [i \in S |-> Sys(i)]
             T == {Sys(i) : i \in S}
  <2>1. IsFiniteSet(S) /\ Cardinality(S) = NSMSGS + 1
    BY <1>1, FS_Interval
  <2>2. named \in Surjection(S, T)
    BY DEF Surjection
  <2>3. IsFiniteSet(T) /\ Cardinality(T) <= NSMSGS + 1
    <3> HIDE DEF S, T, named
    <3> QED BY <2>1, <2>2, FS_Surjection
  <2>4. DOMAIN labels \subseteq T
    <3>1. \A i \in 1..NSMSGS : i \in S
      BY <1>1
    <3>2. 0 \in S
      BY <1>1
    <3> QED BY <3>1, <3>2 DEF Messages, check_smsg
  <2>5. Cardinality(DOMAIN labels) <= NSMSGS + 1 /\ Cardinality(DOMAIN labels) \in Nat
    <3>1. Cardinality(T) \in Nat
      BY <2>3, FS_CardinalityType
    <3>2. Cardinality(DOMAIN labels) <= Cardinality(T) /\ Cardinality(DOMAIN labels) \in Nat
      <4> HIDE DEF T
      <4> QED BY <2>3, <2>4, FS_Subset, FS_CardinalityType
    <3> HIDE DEF T, labels
    <3> QED BY <1>1, <2>3, <3>1, <3>2
  <2>6. Top(h, "string_index") = Cardinality(DOMAIN labels) - 1
    BY DEF Top, Messages
  <2>7. ASSUME NEW i \in 1..NSMSGS
        PROVE  at(i) \in 1..NSMSGS
    <3>1. Sys(i) \in DOMAIN labels
      BY <1>2
    <3>2. at(i) \in 0..Top(h, "string_index")
      BY <3>1 DEF Refs, IndexRight
    <3>3. Sys(i) # Sys(0)
      BY LabelsAssumption DEF check_smsg
    <3>4. at(i) >= 1
      BY <3>1, <3>3 DEF Messages
    <3> HIDE DEF at, labels
    <3> QED BY <1>1, <2>5, <2>6, <3>2, <3>4
  <2> QED BY <2>7
<1>6. ASSUME \A i, j \in 1..NSMSGS : i < j => at(i) < at(j)
      PROVE  \A i \in 0..NSMSGS : at(i) = i
  <2> HIDE DEF at
  <2> DEFINE Up == {i \in Nat : i + 1 <= NSMSGS => at(i + 1) >= i + 1}
             Down == {i \in Nat : i < NSMSGS => at(NSMSGS - i) <= NSMSGS - i}
  <2>1. \A i \in 1..NSMSGS : at(i) \in Nat
    BY <1>5
  <2>2. \A i \in Nat : i \in Up
    <3>1. 0 \in Up
      BY <1>1, <1>5
    <3>2. ASSUME NEW i \in Nat, i \in Up
          PROVE  i + 1 \in Up
      <4> SUFFICES ASSUME (i + 1) + 1 <= NSMSGS PROVE at((i + 1) + 1) >= (i + 1) + 1
        OBVIOUS
      <4>1. i + 1 \in 1..NSMSGS /\ (i + 1) + 1 \in 1..NSMSGS /\ i + 1 < (i + 1) + 1 /\ i + 1 <= NSMSGS
        BY <1>1
      <4>2. at(i + 1) >= i + 1 /\ at(i + 1) < at((i + 1) + 1)
        BY <1>6, <3>2, <4>1
      <4>3. at(i + 1) \in Nat /\ at((i + 1) + 1) \in Nat
        BY <2>1, <4>1
      <4> QED BY <4>2, <4>3
    <3> HIDE DEF Up
    <3> QED BY <3>1, <3>2, NatInduct
  <2>3. \A i \in Nat : i \in Down
    <3>1. 0 \in Down
      <4> SUFFICES ASSUME 0 < NSMSGS PROVE at(NSMSGS - 0) <= NSMSGS - 0
        OBVIOUS
      <4>1. NSMSGS - 0 = NSMSGS /\ NSMSGS \in 1..NSMSGS
        BY <1>1
      <4>2. at(NSMSGS) \in 1..NSMSGS
        BY <1>5, <4>1
      <4> QED BY <1>1, <4>1, <4>2
    <3>2. ASSUME NEW i \in Nat, i \in Down
          PROVE  i + 1 \in Down
      <4> SUFFICES ASSUME i + 1 < NSMSGS PROVE at(NSMSGS - (i + 1)) <= NSMSGS - (i + 1)
        OBVIOUS
      <4>1. NSMSGS - (i + 1) \in 1..NSMSGS /\ NSMSGS - i \in 1..NSMSGS /\ NSMSGS - (i + 1) < NSMSGS - i /\ i < NSMSGS
        BY <1>1
      <4>2. at(NSMSGS - i) <= NSMSGS - i /\ at(NSMSGS - (i + 1)) < at(NSMSGS - i)
        BY <1>6, <3>2, <4>1
      <4>3. at(NSMSGS - i) \in Nat /\ at(NSMSGS - (i + 1)) \in Nat
        BY <2>1, <4>1
      <4> QED BY <1>1, <4>2, <4>3
    <3> HIDE DEF Down
    <3> QED BY <3>1, <3>2, NatInduct
  <2>4. ASSUME NEW i \in 0..NSMSGS
        PROVE  at(i) = i
    <3>1. CASE i = 0
      BY <1>3, <3>1
    <3>2. CASE i # 0
      <4>1. i \in 1..NSMSGS /\ i - 1 \in Nat /\ (i - 1) + 1 = i /\ NSMSGS - i \in Nat /\ NSMSGS - (NSMSGS - i) = i
            /\ i <= NSMSGS /\ NSMSGS - i < NSMSGS
        BY <1>1, <3>2
      <4>2. i - 1 \in Up /\ NSMSGS - i \in Down
        BY <2>2, <2>3, <4>1
      <4>3. at(i) >= i
        BY <4>1, <4>2
      <4>4. at(i) <= i
        BY <4>1, <4>2
      <4>5. at(i) \in Nat
        BY <2>1, <4>1
      <4> QED BY <4>1, <4>3, <4>4, <4>5
    <3> QED BY <3>1, <3>2
  <2> QED BY <2>4
<1> QED BY <1>4, <1>6 DEF InPlace

LEMMA ReferringInit == Init => Referring
<1> SUFFICES ASSUME Init PROVE Referring
  OBVIOUS
<1>1. Refs(g) /\ Calm(g) /\ Moves(g) /\ Blank(g)
  BY NewGameRefers DEF Init
<1>2. pc = "register" /\ gameFile.by # "this_run"
  BY DEF Init, OldFile, NoFile
<1> QED BY <1>1, <1>2 DEF Referring

\* The run has ended, or closes its modules: only the game in the file matters.
LEMMA ReferringAtEnd ==
  ASSUME RunInv, Referring, g' = g, gameFile'.by = "this_run" => gameFile.by = "this_run",
         pc' \in {"close", "end"}
  PROVE  Referring'
<1>1. (g.fate = "alive" => Refs(g) /\ Calm(g) /\ Moves(g))'
  BY DEF Referring
<1>2. (gameFile.by = "this_run" => g.quiet \/ InPlace(g))'
  BY DEF Referring
<1> QED BY <1>1, <1>2 DEF Referring

LEMMA StartKeepsReferring ==
  ASSUME RunInv, Referring,
         RegisterModule \/ ParseCommandLine \/ CommandLineExits \/ StartLogging \/ StartCompiler \/ StartOther
  PROVE  Referring'
<1>1. pc \in {"register", "start"} /\ gameFile.by # "this_run" /\ gameFile' = gameFile
  BY NothingSaved DEF RegisterModule, ParseCommandLine, CommandLineExits, StartLogging, StartCompiler,
     StartOther
<1>2. Refs(g) /\ Calm(g) /\ Moves(g) /\ Blank(g)
  BY <1>1 DEF Referring, RunInv, Good
<1>3. g' = g \/ \E quiet \in BOOLEAN : g' = NewGame(quiet)
  BY DEF RegisterModule, ParseCommandLine, CommandLineExits, StartLogging, StartCompiler, StartOther
<1>4. (Refs(g) /\ Calm(g) /\ Moves(g) /\ Blank(g))'
  BY <1>2, <1>3, NewGameRefers
<1>5. pc' \in {"register", "start", "close", "end"} \/ (pc' = "open" /\ n' = 1)
  BY <1>1 DEF RegisterModule, ParseCommandLine, CommandLineExits, StartLogging, StartCompiler, StartOther,
     Registers, Exit
<1> QED BY <1>1, <1>4, <1>5 DEF Referring

LEMMA OpenKeepsReferring ==
  ASSUME RunInv, Referring, OpenPhase
  PROVE  Referring'
<1>1. pc = "open" /\ UNCHANGED <<n, g, gameFile>> /\ gameFile.by # "this_run"
  BY NothingSaved DEF OpenPhase
<1>2. n \in 1..11 /\ Good(g)
  BY <1>1, PhasesAre DEF OpenPhase, RunInv
<1>3. PICK content : \/ pc' = "end"
                     \/ pc' = "read" /\ src' = content /\ ~(content = <<>> /\ Phase \in NeedsData)
  BY DEF OpenPhase, Exit
<1>4. (g.fate = "alive" => Refs(g) /\ Calm(g) /\ Moves(g))'
  BY <1>1 DEF Referring
<1>5. CASE pc' = "end"
  BY <1>1, <1>5, ReferringAtEnd
<1>6. CASE pc' = "read" /\ src' = content /\ ~(content = <<>> /\ Phase \in NeedsData)
  <2>1. CASE n = 1
    <3>1. Phase = "title"
      BY <2>1 DEF Phase, phases
    <3>2. src' # <<>> /\ Blank(g') /\ ~g'.skip
      BY <1>1, <1>2, <1>6, <2>1, <3>1 DEF NeedsData, Referring, Good
    <3> QED BY <1>1, <1>4, <1>6, <2>1, <3>2 DEF Referring
  <2>2. CASE n # 1
    <3>1. (n = 2 => Messages(g)) /\ (n > 2 => g.quiet \/ InPlace(g))
      BY <1>1 DEF Referring
    <3>2. (n = 2 => Messages(g))' /\ (n > 2 => g.quiet \/ InPlace(g))'
      BY <1>1, <3>1
    <3>3. pc' = "read" /\ n' # 1 /\ gameFile'.by # "this_run"
      BY <1>1, <1>6, <2>2
    <3> QED BY <1>4, <3>2, <3>3 DEF Referring
  <2> QED BY <2>1, <2>2
<1> QED BY <1>3, <1>5, <1>6

LEMMA BlockKeepsReferring ==
  ASSUME RunInv, Referring, CompileBlock
  PROVE  Referring'
<1> DEFINE b == Head(src)
           skipped == [g EXCEPT !.skip = FALSE]
<1>1. /\ pc = "read" /\ src # <<>> /\ src' = Tail(src) /\ UNCHANGED <<n, gameFile>>
      /\ g' = IF g.skip THEN skipped ELSE Handler(g, b)
      /\ \/ g'.fate = "alive" /\ pc' = pc
         \/ g'.fate # "alive" /\ pc' = "end"
  BY DEF CompileBlock, Exit
<1>2. IsGame(g) /\ n \in 1..11 /\ Phase \in PhaseNames /\ IsFile(Phase, src) /\ g.fate = "alive"
  BY <1>1, PhasesAre DEF RunInv, Phase
<1>3. Refs(g) /\ Calm(g) /\ Moves(g)
  BY <1>2 DEF Referring
<1>4. IsBlock(Phase, b)
  BY <1>1, <1>2, ListTail DEF IsFile
<1>5. gameFile'.by # "this_run"
  BY <1>1, NothingSaved
<1>6. BlocksReached(g, skipped) /\ BlocksReached(g, Handler(g, b))
  BY <1>2, <1>3, <1>4, SkipReaches, HandlersReach
<1>7. skipped.labels = g.labels /\ skipped.tab = g.tab
  BY <1>2 DEF IsGame, GameFields
<1>8. n = 1 => Phase = "title"
  BY DEF Phase, phases
<1>9. n = 2 => Phase = "sysmsg"
  BY DEF Phase, phases
<1>10. /\ Phase = "title" => Handler(g, b) = title_proc(g, b)
       /\ Phase = "sysmsg" => Handler(g, b) = smsg_proc(g, b)
  BY DEF Handler
<1> HIDE DEF skipped, b
<1>11. g' = skipped \/ (~g.skip /\ g' = Handler(g, b))
  BY <1>1
<1>12. CASE pc' = "end"
  BY <1>1, <1>12, <1>5 DEF Referring
<1>13. CASE pc' = "read" /\ g'.fate = "alive"
  <2>1. BlocksReached(g, g')
    BY <1>6, <1>11
  <2>2. Grows(g, g') /\ Refs(g') /\ Calm(g') /\ Moves(g')
    BY <1>3, <1>13, <2>1 DEF BlocksReached, Grows
  <2>3. n = 1 => Messages(g')
    <3> SUFFICES ASSUME n = 1 PROVE Messages(g')
      OBVIOUS
    <3>1. (Blank(g) /\ ~g.skip) \/ Messages(g)
      BY <1>1 DEF Referring
    <3>2. CASE g' = Handler(g, b)
      <4>1. g' = title_proc(g, b)
        BY <1>8, <1>10, <3>2
      <4>2. title_proc(g, b).fate = "alive"
        BY <1>13, <4>1
      <4>3. Messages(title_proc(g, b))
        BY <1>2, <3>1, <4>2, TitleComes
      <4> QED BY <4>1, <4>3
    <3>3. CASE g.skip /\ g' = skipped
      BY <1>7, <3>1, <3>3 DEF Messages
    <3> QED BY <1>1, <3>2, <3>3
  <2>4. n = 2 => Messages(g')
    <3> SUFFICES ASSUME n = 2 PROVE Messages(g')
      OBVIOUS
    <3>1. Messages(g)
      BY <1>1 DEF Referring
    <3>2. CASE g' = Handler(g, b)
      BY <1>2, <1>9, <1>10, <3>1, <3>2, MessagesCome
    <3>3. CASE g' = skipped
      BY <1>7, <3>1, <3>3 DEF Messages
    <3> QED BY <1>11, <3>2, <3>3
  <2>5. n > 2 => g'.quiet \/ InPlace(g')
    <3> SUFFICES ASSUME n > 2 PROVE g'.quiet \/ InPlace(g')
      OBVIOUS
    <3>1. g.quiet \/ InPlace(g)
      BY <1>1 DEF Referring
    <3>2. g'.quiet = g.quiet /\ LabelsKept(g, g')
      BY <2>2 DEF Grows
    <3> QED BY <3>1, <3>2, InPlaceStays
  <2> QED BY <1>1, <1>5, <1>13, <2>2, <2>3, <2>4, <2>5 DEF Referring
<1> QED BY <1>1, <1>12, <1>13

LEMMA PhaseEndKeepsReferring ==
  ASSUME RunInv, Referring, EndPhase
  PROVE  Referring'
<1> DEFINE h == AtEnd(g)
<1>1. /\ pc = "read" /\ src = <<>> /\ UNCHANGED gameFile /\ g' = [h EXCEPT !.skip = FALSE]
      /\ \/ g'.errors = 0 /\ pc' = "open" /\ n' = n + 1
         \/ pc' = "end"
  BY DEF EndPhase, PhasePasses, Exit
<1>2. IsGame(g) /\ n \in 1..11 /\ g.fate = "alive" /\ gameFile'.by # "this_run"
  BY <1>1, PhasesAre, NothingSaved DEF RunInv
<1>3. Refs(g) /\ Calm(g) /\ Moves(g)
  BY <1>2 DEF Referring
<1>4. Grows(g, h) /\ IsGame(h) /\ Refs(h) /\ Calm(h) /\ Moves(h)
  BY <1>2, <1>3, EndsReach
<1>5. (n = 1 => h = g) /\ (n = 2 => h = smsg_end(g))
  BY DEF AtEnd, Phase, phases
<1> HIDE DEF h
<1>6. g'.labels = h.labels /\ g'.tab = h.tab /\ g'.errors = h.errors /\ g'.quiet = h.quiet
  BY <1>1, <1>4 DEF IsGame, GameFields
<1>7. Refs(g') /\ Calm(g') /\ Moves(g')
  <2>1. BlocksReached(h, g') /\ Extends(h, g')
    BY <1>1, <1>4, SkipReaches, SkipExtends
  <2>2. Grows(h, g') /\ Refs(g') /\ Calm(g')
    BY <1>4, <2>1, ExtendsCalmly
  <2> QED BY <1>4, <2>2 DEF Grows
<1>8. CASE pc' = "end"
  BY <1>2, <1>7, <1>8 DEF Referring
<1>9. CASE pc' = "open" /\ n' = n + 1 /\ g'.errors = 0
  <2>1. CASE n = 1
    <3>1. Messages(g)
      BY <1>1, <2>1 DEF Referring
    <3>2. Messages(g')
      BY <1>5, <1>6, <2>1, <3>1 DEF Messages
    <3>3. n' = 2
      BY <1>9, <2>1
    <3> QED BY <1>2, <1>7, <1>9, <3>2, <3>3 DEF Referring
  <2>2. CASE n = 2
    <3>1. Messages(g)
      BY <1>1, <2>2 DEF Referring
    <3>2. smsg_end(g).errors = 0
      BY <1>5, <1>6, <1>9, <2>2
    <3>3. g.quiet \/ InPlace(g)
      BY <1>2, <1>3, <3>1, <3>2, MessagesPlaced
    <3>4. h.quiet = g.quiet /\ LabelsKept(g, h)
      BY <1>4 DEF Grows
    <3>5. LabelsKept(g, g')
      BY <1>6, <3>4 DEF LabelsKept
    <3>6. g'.quiet \/ InPlace(g')
      BY <1>6, <3>3, <3>4, <3>5, InPlaceStays
    <3>7. n' = 3
      BY <1>9, <2>2
    <3> QED BY <1>2, <1>7, <1>9, <3>6, <3>7 DEF Referring
  <2>3. CASE n > 2
    <3>1. g.quiet \/ InPlace(g)
      BY <1>1, <2>3 DEF Referring
    <3>2. h.quiet = g.quiet /\ LabelsKept(g, h)
      BY <1>4 DEF Grows
    <3>3. LabelsKept(g, g')
      BY <1>6, <3>2 DEF LabelsKept
    <3>4. g'.quiet \/ InPlace(g')
      BY <1>6, <3>1, <3>2, <3>3, InPlaceStays
    <3>5. n' > 2
      BY <1>2, <1>9, <2>3
    <3>6. n' # 1 /\ n' # 2
      BY <1>2, <1>9, <2>3
    <3> QED BY <1>2, <1>7, <1>9, <3>4, <3>6 DEF Referring
  <2> QED BY <1>2, <2>1, <2>2, <2>3
<1> QED BY <1>1, <1>8, <1>9

LEMMA FileKeepsReferring ==
  ASSUME RunInv, Referring, OpenGameFile \/ SaveTable \/ UNCHANGED vars
  PROVE  Referring'
<1>1. CASE OpenGameFile
  <2>1. pc = "open" /\ n > 2 /\ pc' = "save" /\ g' = g
    BY <1>1, PhasesAre DEF OpenGameFile, RunInv
  <2>2. (g.fate = "alive" => Refs(g) /\ Calm(g) /\ Moves(g)) /\ (g.quiet \/ InPlace(g))
    BY <2>1 DEF Referring
  <2> QED BY <2>1, <2>2 DEF Referring
<1>2. CASE SaveTable
  <2>1. pc = "save" /\ pc' = "save" /\ g' = g
    BY <1>2 DEF SaveTable
  <2>2. (g.fate = "alive" => Refs(g) /\ Calm(g) /\ Moves(g)) /\ (g.quiet \/ InPlace(g))
    BY <2>1 DEF Referring
  <2> QED BY <2>1, <2>2 DEF Referring
<1>3. CASE UNCHANGED vars
  BY <1>3 DEF vars, Referring
<1> QED BY <1>1, <1>2, <1>3

LEMMA ReferringKept == RunInv /\ Referring /\ [Next]_vars => Referring'
<1> SUFFICES ASSUME RunInv, Referring, [Next]_vars PROVE Referring'
  OBVIOUS
<1>1. CASE \/ RegisterModule \/ ParseCommandLine \/ CommandLineExits
           \/ StartLogging \/ StartCompiler \/ StartOther
  BY <1>1, StartKeepsReferring
<1>2. CASE OpenPhase
  BY <1>2, OpenKeepsReferring
<1>3. CASE OpenFails \/ OpenGameFileFails \/ TooManyErrors \/ SaveFails
  BY <1>3, ReferringAtEnd DEF OpenFails, OpenGameFileFails, TooManyErrors, SaveFails, Exit
<1>4. CASE CompileBlock
  BY <1>4, BlockKeepsReferring
<1>5. CASE EndPhase
  BY <1>5, PhaseEndKeepsReferring
<1>6. CASE OpenGameFile \/ SaveTable
  BY <1>6, FileKeepsReferring
<1>7. CASE Saved
  BY <1>7, ReferringAtEnd DEF Saved
<1>8. CASE CloseNext
  <2>1. g' = g /\ (gameFile' = gameFile \/ gameFile' = NoFile) /\ pc' \in {"close", "end"}
    BY <1>8 DEF CloseNext, Exit
  <2>2. gameFile'.by = "this_run" => gameFile.by = "this_run"
    BY <2>1 DEF NoFile
  <2> QED BY <2>1, <2>2, ReferringAtEnd
<1>9. CASE StartServer
  BY <1>9, ReferringAtEnd DEF StartServer
<1>10. CASE Done \/ UNCHANGED vars
  BY <1>10, FileKeepsReferring DEF Done
<1> QED BY <1>1, <1>2, <1>3, <1>4, <1>5, <1>6, <1>7, <1>8, <1>9, <1>10 DEF Next, Runs

-----------------------------------------------------------------------------
(* What a clean game refers to *)

LEMMA LinesRight ==
  ASSUME IsGame(g), Refs(g), NEW line \in Lines
  PROVE  LineRight(g, line)
<1> DEFINE x == g.tab["language_code"]
           y == g.tab["travel"]
<1>1. /\ IsList(x) /\ Len(x) \in Nat /\ DOMAIN x = 1..Len(x)
      /\ IsList(y) /\ Len(y) \in Nat /\ DOMAIN y = 1..Len(y)
  BY TopIs DEF TableNames
<1>2. PICK i \in DOMAIN (x \o y) : line = (x \o y)[i]
  BY DEF Lines, ToSet
<1>3. i \in 1..Len(x) \/ \E j \in 1..Len(y) : i = Len(x) + j
  <2>1. ASSUME NEW a \in Nat, NEW b \in Nat, NEW c \in 1..(a + b), c \notin 1..a
        PROVE  \E j \in 1..b : c = a + j
    BY <2>1
  <2> HIDE DEF x, y
  <2>2. i \in 1..(Len(x) + Len(y))
    BY <1>1, <1>2, ListConcat
  <2> QED BY <1>1, <2>1, <2>2
<1>4. CASE i \in 1..Len(x)
  <2>1. line = x[i]
    BY <1>1, <1>2, <1>4, ListConcat
  <2> QED BY <1>1, <1>4, <2>1 DEF Refs, EntryRight, TableNames
<1>5. ASSUME NEW j \in 1..Len(y), i = Len(x) + j
      PROVE  LineRight(g, line)
  <2> HIDE DEF x, y
  <2>1. \A k \in 1..Len(y) : (x \o y)[Len(x) + k] = y[k]
    BY <1>1, ListConcat
  <2>2. line = y[j]
    BY <1>2, <1>5, <2>1
  <2> QED BY <1>1, <1>5, <2>2 DEF x, y, Refs, EntryRight, TableNames
<1> QED BY <1>3, <1>4, <1>5

LEMMA LineOperations ==
  ASSUME NEW line, NEW op \in Operations(line)
  PROVE  /\ LineRight(g, line) => OperationRight(g, op[1], op[2])
         /\ \A wtype : LineFits(line, wtype) => OperationFits(op[1], op[2], wtype)
<1>1. CASE op = <<line.condition, conditions[line.condition.op]>>
  BY <1>1 DEF LineRight, LineFits
<1>2. CASE op = <<line.action, actions[line.action.op]>>
  BY <1>2 DEF LineRight, LineFits
<1> QED BY <1>1, <1>2 DEF Operations

LEMMA ArgumentsAreThere ==
  ASSUME IsGame(g), Refs(g)
  PROVE  ArgumentsResolve
<1> SUFFICES ASSUME NEW line \in Lines, NEW op \in Operations(line), NEW i \in Given(op[1]),
                    op[1].args[i][1] \in {"room", "noun", "verb", "daemon", "text"}
             PROVE  op[1].args[i][2] \in (IF op[2][i] = "real" THEN -1 ELSE 0)..Limit(op[1].args[i][1])
  BY DEF ArgumentsResolve
<1> DEFINE arg == op[1].args[i]
           kind == op[2][i]
<1>1. OperationRight(g, op[1], op[2])
  BY LinesRight, LineOperations
<1>2. ArgRight(g, arg, kind)
  BY <1>1 DEF OperationRight, Given
<1>3. /\ Limit("room") = Top(g, "rooms") /\ Limit("noun") = Top(g, "objects")
      /\ Limit("verb") = Top(g, "verbs") /\ Limit("daemon") = Top(g, "verbs")
      /\ Limit("text") = Top(g, "string_index")
  BY DEF Limit, MaxIndex, Top
<1>4. \A s \in TableNames : Top(g, s) \in Int
  BY TopIs
<1>5. arg[1] \in {"room", "noun", "verb", "daemon", "text"}
  OBVIOUS
<1> HIDE DEF arg, kind
<1>6. arg[2] \in (IF kind = "real" THEN -1 ELSE 0)..Limit(arg[1])
  <2>1. \A a, b \in Int : b \in 0..a => b \in -1..a
    OBVIOUS
  <2>2. CASE arg[1] = "room"
    BY <1>2, <1>3, <1>4, <2>2 DEF ArgRight, TableNames
  <2>3. CASE arg[1] = "noun"
    BY <1>2, <1>3, <2>3 DEF ArgRight
  <2>4. CASE arg[1] \in {"verb", "daemon"}
    BY <1>2, <1>3, <1>4, <2>4 DEF ArgRight, TableNames
  <2>5. CASE arg[1] = "text"
    BY <1>2, <1>3, <1>4, <2>5 DEF ArgRight, TableNames
  <2> QED BY <1>5, <2>2, <2>3, <2>4, <2>5
<1> QED BY <1>6 DEF arg, kind

LEMMA LabelsAreRight ==
  ASSUME IsGame(g), Refs(g), Calm(g)
  PROVE  LabelsFit
<1> DEFINE code == g.tab["language_code"]
           lines == g.tab["syntax_lines"]
<1> SUFFICES ASSUME NEW line \in ToSet(code), NEW op \in Operations(line)
             PROVE  /\ Len(op[1].args) = Len(op[2])
                    /\ \A i \in DOMAIN op[2] :
                         op[1].args[i][1] = "slot" =>
                           op[2][i] \in {"real", lines[line.of + 1].wtype[op[1].args[i][2]]}
  BY DEF LabelsFit
<1>1. PICK k \in DOMAIN code : line = code[k]
  BY DEF ToSet
<1>2. LineRight(g, line) /\ LineFits(line, Types(g, line.of))
  BY <1>1 DEF Refs, EntryRight, TableNames
<1>3. line.of \in 0..(Len(lines) - 1) /\ Len(lines) \in Nat
  BY <1>1, TopIs DEF Calm, Belong, TableNames
<1>4. Types(g, line.of) = lines[line.of + 1].wtype
  BY <1>3 DEF Types
<1>5. OperationRight(g, op[1], op[2]) /\ OperationFits(op[1], op[2], lines[line.of + 1].wtype)
  BY <1>2, <1>4, LineOperations
<1> QED BY <1>5 DEF OperationRight, OperationFits, ArgFits

LEMMA EntriesAreThere ==
  ASSUME IsGame(g), Refs(g)
  PROVE  EntriesResolve
<1>1. \A s \in TableNames : MaxIndex(s) = Top(g, s) /\ \A e \in ToSet(g.tab[s]) : EntryRight(g, s, e)
  BY DEF Refs, ToSet, MaxIndex, Top
<1>2. {"rooms", "travel", "npc_classes", "objects", "synonyms", "verbs", "string_index"} \subseteq TableNames
  BY DEF TableNames
<1>3. \A room \in ToSet(g.tab["rooms"]) : room.dmove \in -1..MaxIndex("rooms")
  BY <1>1, <1>2 DEF EntryRight
<1>4. \A entry \in ToSet(g.tab["travel"]) : entry.verb \in 0..MaxIndex("verbs")
  BY <1>1, <1>2 DEF EntryRight
<1>5. \A npc \in ToSet(g.tab["npc_classes"]) :
        npc.dmove \in -1..MaxIndex("rooms") /\ ToSet(npc.texts) \subseteq -1..MaxIndex("string_index")
  BY <1>1, <1>2 DEF EntryRight
<1>6. \A o \in ToSet(g.tab["objects"]) : o.npc \in -1..MaxIndex("npc_classes")
  BY <1>1, <1>2 DEF EntryRight
<1>7. \A syn \in ToSet(g.tab["synonyms"]) :
        syn.aliases \in -2..MaxIndex(IF syn.type = "noun" THEN "objects" ELSE "verbs") \ {-1}
  BY <1>1, <1>2 DEF EntryRight
<1> QED BY <1>3, <1>4, <1>5, <1>6, <1>7 DEF EntriesResolve

LEMMA StartsAreThere ==
  ASSUME IsGame(g), Refs(g), ObjectsOwn(g)
  PROVE  StartsInContainers
<1> SUFFICES ASSUME NEW e \in ToSet(g.tab["object_locations"])
             PROVE  \/ e.place \in 0..MaxIndex("rooms")
                    \/ \E j \in 0..(e.of - 1) : e.place = Inside(j) /\ g.tab["objects"][j + 1].contains > 0
  BY DEF StartsInContainers
<1>1. PICK i \in DOMAIN g.tab["object_locations"] : e = g.tab["object_locations"][i]
  BY DEF ToSet
<1>2. PlaceRight(g, e) /\ e.of \in 0..(Len(g.tab["objects"]) - 1) /\ Len(g.tab["objects"]) \in Nat
  BY <1>1, TopIs DEF Refs, EntryRight, TableNames, ObjectsOwn, Belong
<1>3. e.of \in Nat /\ Top(g, "objects") \in Int
  BY <1>2 DEF Top
<1>4. \A j \in 0..Top(g, "objects") : j < e.of => j \in 0..(e.of - 1)
  BY <1>3
<1> QED BY <1>2, <1>4 DEF PlaceRight, MaxIndex, Top

-----------------------------------------------------------------------------
(* Theorems *)

\* Only a source without errors becomes a game, whatever the files hold and whatever the phase in
\* which the error is (compilePhase, compileGame).
THEOREM CleanSources == Spec => []CleanSourceOnly
BY RunsSound, PTL DEF RunInv, Good, CleanSourceOnly, Clean, Complete

\* In every game that compiles, what a verb, a syntax line, a room or an object finds at its
\* offset are its own entries, all of them and no others (lang_proc, trav_proc, objs_proc).
THEOREM SlicesAreOwn == Spec => []SlicesRight
<1>1. RunInv => SlicesRight
  <2> SUFFICES ASSUME RunInv, Clean PROVE SlicesRight
    BY DEF SlicesRight
  <2>1. Whole(g)
    BY DEF RunInv, Clean, Complete, Good, Sound, Failed
  <2>2. VerbsOwn(g) /\ SyntaxOwn(g) /\ RoomsOwn(g) /\ ObjectsOwn(g)
    BY <2>1 DEF Whole
  <2> QED BY <2>2 DEF SlicesRight, VerbsOwn, SyntaxOwn, RoomsOwn, ObjectsOwn
<1> QED BY <1>1, RunsSound, PTL

\* The counters a clean game is saved with are the lengths of its tables.
LEMMA CountersRight ==
  ASSUME RunInv, Clean, ~g.twice, NEW s \in TableNames
  PROVE  Config(g)[s] = Len(g.tab[s])
<1>1. Whole(g) /\ VerbsCounted(g) /\ IsGame(g) /\ g.num["synonyms"] = Len(g.tab["synonyms"])
  BY DEF RunInv, Clean, Complete, Good, Sound, Failed
<1>2. CASE s = "string_index"
  BY <1>1, <1>2 DEF Config, Size, IsGame
<1>3. CASE s # "string_index"
  BY <1>1, <1>3 DEF Config, IsGame, Whole, Counts, VerbsCounted
<1> QED BY <1>2, <1>3

\* A server that comes up has the whole compilation, and it comes up on every clean game in which
\* no verb was defined twice (Game::Save, Game::Load).
THEOREM ServersGetWhole == Spec => []ServerGetsWhole
<1>1. RunInv => ServerGetsWhole
  <2> SUFFICES ASSUME RunInv PROVE ServerGetsWhole
    OBVIOUS
  <2>1. gameFile.by = "this_run" => Saving
    BY DEF RunInv
  <2>2. Saving /\ Len(gameFile.tables) = Len(Sections) => DOMAIN gameFile.tables = 1..13
    BY SectionCount, ListParts DEF Saving
  <2>3. server = "up" => /\ Len(gameFile.tables) = Len(Sections)
                         /\ \A i \in DOMAIN Sections : gameFile.tables[i].entries = g.tab[Sections[i]]
    <3> SUFFICES ASSUME server = "up"
                 PROVE  /\ Len(gameFile.tables) = Len(Sections)
                        /\ \A i \in DOMAIN Sections : gameFile.tables[i].entries = g.tab[Sections[i]]
      OBVIOUS
    <3>1. Len(gameFile.tables) = Len(Sections) /\ gameFile.by = "this_run"
      BY DEF RunInv
    <3> QED BY <2>1, <2>2, <3>1, SectionCount DEF Saving
  <2>4. ASSUME Clean, ~g.twice
        PROVE  Loads(gameFile)
    <3>1. Len(gameFile.tables) = Len(Sections) /\ Saving
      BY <2>1, <2>4 DEF Clean, Complete
    <3>2. ASSUME NEW i \in DOMAIN Sections
          PROVE  /\ gameFile.tables[i].label = Sections[i]
                 /\ Len(gameFile.tables[i].entries) = gameFile.config[Sections[i]]
      <4>1. /\ gameFile.tables[i].label = Sections[i] /\ gameFile.tables[i].entries = g.tab[Sections[i]]
            /\ gameFile.config = Config(g)
        BY <2>2, <3>1, <3>2, SectionCount DEF Saving
      <4>2. Sections[i] \in TableNames
        BY <3>2, SectionCount
      <4>3. Config(g)[Sections[i]] = Len(g.tab[Sections[i]])
        BY <2>4, <4>2, CountersRight
      <4> QED BY <4>1, <4>3
    <3> QED BY <3>1, <3>2 DEF Loads
  <2> QED BY <2>3, <2>4 DEF ServerGetsWhole
<1> QED BY <1>1, RunsSound, PTL

\* TypeOK of Compiler: at every point of a run, from main to the closing of the last module, the
\* tables are lists with their counters, only the log that drops errors counts none, and the
\* registry of modules is one list in both directions on which the module in turn still is.
THEOREM CompilerTypes == Spec => []TypeOK
<1>1. ASSUME RunInv, Orderly
      PROVE  TypeOK
  <2>1. PICK k \in 0..4 : Linked(m, k) /\ Stage(k)
    BY <1>1 DEF Orderly
  <2>2. /\ Tail(Reverse(Walk(m.tail, m.prev))) = Front(Walk(m.head, m.next))
        /\ \A id : GetModule(m, id) <=> \E i \in 1..k : id = ModuleOrder[i]
    BY <2>1, ListHolds
  <2>3. ASSUME pc \in {"start", "close"}, cur # Null
        PROVE  \E i \in 1..k : cur = ModuleOrder[i]
    <3>1. CASE pc = "start"
      BY <1>1, <2>1, <2>3, <3>1, LinksTyped DEF Orderly, Stage
    <3>2. CASE pc = "close"
      BY <2>1, <2>3, <3>2 DEF Stage
    <3> QED BY <2>3, <3>1, <3>2
  <2>4. \A i \in 1..k : ModuleOrder[i] \notin m.freed
    BY <2>1 DEF Linked
  <2>5. Registered
    BY <2>2, <2>3, <2>4 DEF Registered
  <2>6. g.errors \in Nat /\ (g.quiet => g.errors = 0)
    BY <1>1 DEF RunInv, IsGame
  <2>7. \A s \in ToSet(Sections) : g.num[s] \in Nat /\ IsList(g.tab[s])
    BY <1>1, SectionNames DEF RunInv, IsGame
  <2>8. /\ pc \in {"register", "start", "open", "read", "save", "close", "end"}
        /\ server # "off" => gameFile.by = "this_run"
    BY <1>1 DEF RunInv
  <2>9. n \in 1..(Len(Sections) + 1)
    BY <1>1, SectionCount DEF Orderly
  <2>10. cur \in ModuleIDs \cup {Null} /\ exiting \in BOOLEAN /\ (outcome = "running" <=> pc # "end")
    BY <1>1 DEF Orderly
  <2> QED BY <2>5, <2>6, <2>7, <2>8, <2>9, <2>10 DEF TypeOK
<1>2. RunInv /\ Orderly /\ [Next]_vars => (RunInv /\ Orderly)'
  BY RunKept, OrderKept
<1> QED BY <1>1, <1>2, RunInit, OrderInit, PTL DEF Spec

\* What the text files of a clean game name is there: every index in an entry and every argument
\* compiled from a word is in its table and of the right kind, each label below a syntax line
\* fits that line, and the texts of the system lie where their numbers say (Compile*, Save).  Not
\* covered: arguments nothing was compiled into, and labels in travel.txt.
THEOREM ReferencesAreRight == Spec => []ReferencesResolve
<1>1. RunInv /\ Referring => ReferencesResolve
  <2> SUFFICES ASSUME RunInv, Referring, Clean
               PROVE  /\ ArgumentsResolve /\ LabelsFit /\ EntriesResolve
                      /\ StartsInContainers /\ MessagesInPlace
    BY DEF ReferencesResolve
  <2>1. IsGame(g) /\ Whole(g) /\ g.fate = "alive"
    BY DEF RunInv, Clean, Complete, Good, Sound, Failed
  <2>2. Refs(g) /\ Calm(g) /\ InPlace(g)
    BY <2>1 DEF Referring, Clean, Complete
  <2>3. StartsInContainers
    BY <2>1, <2>2, StartsAreThere DEF Whole
  <2>4. MessagesInPlace
    BY <2>2 DEF InPlace, MessagesInPlace
  <2> QED BY <2>1, <2>2, <2>3, <2>4, ArgumentsAreThere, LabelsAreRight, EntriesAreThere
<1>2. Init => RunInv /\ Referring
  BY RunInit, ReferringInit
<1>3. RunInv /\ Referring /\ [Next]_vars => RunInv' /\ Referring'
  BY RunKept, ReferringKept
<1> QED BY <1>1, <1>2, <1>3, PTL DEF Spec
=============================================================================
