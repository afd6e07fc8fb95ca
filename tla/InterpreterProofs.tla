--------------------------- MODULE InterpreterProofs ---------------------------
(***************************************************************************)
(* Theorems about Interpreter, for every set of games the compiler could   *)
(* have made: its types, and that what ends a parse ends it for good.      *)
(***************************************************************************)
EXTENDS Interpreter, SequenceTheorems, TLAPS

Name == Verbs \cup {NoVerb}

\* A verb the parser found is there while the game has a say in it.
Calls == {"boot", "command", "start"} \cup (IF word \in Verbs THEN {"intercept"} ELSE {})

Frame ==
  [kind : {"lang"}, verb : Verbs, i : Nat \ {0}, d : {-2, -1, 0}, last : BOOLEAN,
   call : Calls, saved : Name]
    \cup [kind : {"tt"}, dun : {-1, 0}, room : DOMAIN game.rooms, from : {"action"},
          base : 0..MaxDepth, donet : 0..MaxLines, ml : 0..MaxLines, iverb : Name]
    \cup [kind : {"tt"}, dun : {-1, 0}, room : DOMAIN game.rooms, from : {"tail"},
          base : 0..MaxDepth, donet : Int, ml : Int, iverb : Name]

Variables ==
  [iverb : Name, vb : Name, donet : 0..(MaxLines + MaxDepth + 2), ml : -1..MaxLines, skip : 0..MaxSkip,
   inc : {0, 1}, failed : BOOLEAN, exeunt : BOOLEAN, room : DOMAIN game.rooms]

(* TypeOK, with the records written out and the calls under way.           *)
Typed ==
  /\ game \in Games
  /\ pc \in {"boot", "prompt", "grammar", "syntax", "line", "did", "tail", "scan", "over", "off", "crash",
             "stray"}
  /\ t \in Variables /\ word \in Name
  /\ stack \in Seq(Frame) /\ Len(stack) <= MaxDepth
  /\ acts \in BOOLEAN /\ ended \in 0..MaxDepth

(* What call i of the stack s rests on: a lang_proc that an action started *)
(* on that action's call; a ttproc on the lang_proc it works for, or on    *)
(* the ttproc of which a line called it.                                   *)
Sits(s, i) ==
  /\ s[i].kind = "lang" /\ s[i].call = "start" => i < Len(s)
  /\ s[i].kind = "tt" =>
       /\ i < Len(s)
       /\ s[i + 1].kind = "lang" => s[i].base = Len(s) - i
       /\ s[i + 1].kind = "tt" => s[i].base = s[i + 1].base /\ s[i].from = "action"

Shaped(s) == \A i \in 1..Len(s) : Sits(s, i)
Shape == Shaped(stack)

(* Whose turn it is.                                                       *)
At ==
  /\ pc \in {"syntax", "line", "tail", "did", "scan"} => stack # <<>>
  /\ pc \in {"syntax", "line", "tail"} => Top.kind = "lang"
  /\ pc = "scan" => Top.kind = "tt"
  /\ pc \in {"syntax", "line", "scan"} => ~t.exeunt

(* And there for the grammar.                                              *)
Found == pc = "grammar" => word \in Verbs

(* Every verb that an action started leaves donet one further.             *)
Fits(th, s, k) == th.donet + Len(s) <= MaxLines + MaxDepth + k

Bounds ==
  /\ pc \in {"syntax", "line", "tail", "scan"} => Fits(t, stack, 2)
  /\ pc = "did" => Fits(t, stack, 1)

(* The call on top does not go on.                                         *)
Stops ==
  IF Top.kind = "tt" THEN t.exeunt \/ t.donet >= t.ml
  ELSE t.failed \/ t.exeunt \/ (t.ml >= 0 /\ t.donet >= t.ml)

(* Once the parse is ended, every call up to the lang_proc it ends is on   *)
(* its way out, and that one will not look for a travel table.             *)
Ended ==
  ended # 0 =>
    /\ pc \in {"did", "line", "tail"} /\ ended = Depth
    /\ pc = "did" => t.inc = 1 /\ Stops
    /\ pc = "line" => t.donet > t.ml /\ Top.d = 0
    /\ pc = "tail" => Top.d = 0

IInv == Typed /\ Shape /\ At /\ Found /\ Bounds /\ Ended


------------------------------------------------------------------------------
(* The calls under way, as sequences.                                      *)

LEMMA Wider ==
  ASSUME NEW F, NEW G, NEW s \in Seq(F), F \subseteq G
  PROVE  s \in Seq(G)
OBVIOUS

LEMMA Pushed ==
  ASSUME NEW F, NEW s \in Seq(F), NEW f \in F
  PROVE  /\ <<f>> \o s \in Seq(F) /\ Len(<<f>> \o s) = Len(s) + 1
         /\ <<f>> \o s # <<>> /\ Head(<<f>> \o s) = f
         /\ (<<f>> \o s)[1] = f /\ \A i \in 1..Len(s) : (<<f>> \o s)[i + 1] = s[i]
<1>1. /\ <<f>> \o s \in Seq(F) /\ Len(<<f>> \o s) = Len(s) + 1
      /\ (<<f>> \o s)[1] = f /\ \A i \in 1..Len(s) : (<<f>> \o s)[i + 1] = s[i]
  OBVIOUS
<1>2. <<f>> \o s # <<>> /\ Head(<<f>> \o s) = f
  BY <1>1, EmptySeq
<1> QED
  BY <1>1, <1>2

LEMMA Popped ==
  ASSUME NEW F, NEW s \in Seq(F), s # <<>>
  PROVE  /\ Tail(s) \in Seq(F) /\ Len(s) \in Nat /\ Len(s) >= 1 /\ Len(Tail(s)) = Len(s) - 1
         /\ Head(s) = s[1] /\ Head(s) \in F
         /\ \A i \in 1..Len(Tail(s)) : Tail(s)[i] = s[i + 1]
<1>1. Len(s) \in Nat \ {0}
  BY EmptySeq
<1>2. Len(s) \in Nat /\ Len(s) >= 1
  BY <1>1
<1>3. /\ Head(s) \in F /\ Tail(s) \in Seq(F) /\ Len(Tail(s)) = Len(s) - 1
      /\ \A i \in 1..Len(Tail(s)) : Tail(s)[i] = s[i + 1]
  BY HeadTailProperties
<1>4. Head(s) = s[1]
  OBVIOUS
<1> QED
  BY <1>2, <1>3, <1>4

(* One more call rests on the calls s.                                     *)
LEMMA ShapePushed ==
  ASSUME NEW F, NEW s \in Seq(F), NEW f \in F, Shaped(s),
         f.kind = "lang" /\ f.call = "start" => s # <<>>,
         f.kind = "tt" => /\ s # <<>>
                          /\ Head(s).kind = "lang" => f.base = Len(s)
                          /\ Head(s).kind = "tt" => f.base = Head(s).base /\ f.from = "action"
  PROVE  Shaped(<<f>> \o s)
<1> DEFINE u == <<f>> \o s
<1>1. /\ u \in Seq(F) /\ Len(u) = Len(s) + 1 /\ u[1] = f /\ \A i \in 1..Len(s) : u[i + 1] = s[i]
  BY Pushed
<1>2. Len(s) \in Nat /\ (s # <<>> => Len(s) > 0 /\ Head(s) = s[1])
  BY EmptySeq, HeadTailProperties
<1> HIDE DEF u
<1>3. Sits(u, 1)
  <2>1. s # <<>> => u[2] = Head(s)
    BY <1>1, <1>2
  <2> QED
    BY <1>1, <1>2, <2>1 DEF Sits
<1>4. ASSUME NEW i \in 1..Len(s)
      PROVE  Sits(u, i + 1)
  <2>1. Sits(s, i)
    BY DEF Shaped
  <2>2. u[i + 1] = s[i] /\ (i < Len(s) => u[(i + 1) + 1] = s[i + 1])
    BY <1>1, <1>2
  <2>3. Len(u) - (i + 1) = Len(s) - i /\ (i < Len(s) => i + 1 < Len(u))
    BY <1>1, <1>2
  <2> QED
    BY <2>1, <2>2, <2>3 DEF Sits
<1>5. ASSUME NEW j \in 1..Len(u)
      PROVE  Sits(u, j)
  <2>1. CASE j = 1
    BY <2>1, <1>3
  <2>2. CASE j # 1
    <3>1. j - 1 \in 1..Len(s) /\ (j - 1) + 1 = j
      BY <2>2, <1>1, <1>2
    <3> QED
      BY <3>1, <1>4
  <2> QED
    BY <2>1, <2>2
<1>6. Shaped(u)
  BY <1>5 DEF Shaped
<1> QED
  BY <1>6 DEF u

LEMMA ShapePopped ==
  ASSUME NEW F, NEW s \in Seq(F), s # <<>>, Shaped(s)
  PROVE  Shaped(Tail(s))
<1>1. /\ Len(s) \in Nat /\ Len(s) >= 1 /\ Len(Tail(s)) = Len(s) - 1
      /\ \A i \in 1..Len(Tail(s)) : Tail(s)[i] = s[i + 1]
  BY Popped
<1>2. ASSUME NEW i \in 1..Len(Tail(s))
      PROVE  Sits(Tail(s), i)
  <2>1. Sits(s, i + 1)
    BY <1>1 DEF Shaped
  <2>2. Tail(s)[i] = s[i + 1] /\ (i < Len(Tail(s)) => Tail(s)[i + 1] = s[(i + 1) + 1])
    BY <1>1
  <2>3. Len(s) - (i + 1) = Len(Tail(s)) - i /\ (i + 1 < Len(s) => i < Len(Tail(s)))
    BY <1>1
  <2> QED
    BY <2>1, <2>2, <2>3 DEF Sits
<1> QED
  BY <1>2 DEF Shaped

(* The call at the head of s keeps its place when it only counts on.       *)
LEMMA ShapeKept ==
  ASSUME NEW F, NEW s \in Seq(F), s # <<>>, Shaped(s), NEW f \in F,
         f.kind = Head(s).kind,
         f.kind = "lang" => f.call = Head(s).call,
         f.kind = "tt" => f.base = Head(s).base /\ f.from = Head(s).from
  PROVE  Shaped(<<f>> \o Tail(s))
<1> DEFINE r == Tail(s)
<1>1. /\ r \in Seq(F) /\ Len(s) \in Nat /\ Len(s) >= 1 /\ Len(r) = Len(s) - 1 /\ Head(s) = s[1]
      /\ \A i \in 1..Len(r) : r[i] = s[i + 1]
  BY Popped
<1>2. Shaped(r)
  BY ShapePopped
<1>3. Sits(s, 1)
  BY <1>1 DEF Shaped
<1>4. r # <<>> => Len(r) > 0 /\ Head(r) = r[1] /\ r[1] = s[2]
  BY <1>1, EmptySeq, HeadTailProperties
<1> r = <<>> => Len(r) = 0
  BY <1>1, EmptySeq
<1>5. f.kind = "lang" /\ f.call = "start" => r # <<>>
  BY <1>1, <1>3 DEF Sits
<1>6. f.kind = "tt" => r # <<>>
  BY <1>1, <1>3 DEF Sits
<1>7. f.kind = "tt" /\ Head(r).kind = "lang" => f.base = Len(r)
  BY <1>1, <1>3, <1>4, <1>6 DEF Sits
<1>8. f.kind = "tt" /\ Head(r).kind = "tt" => f.base = Head(r).base /\ f.from = "action"
  BY <1>1, <1>3, <1>4, <1>6 DEF Sits
<1> HIDE DEF r
<1>9. Shaped(<<f>> \o r)
  BY <1>1, <1>2, <1>5, <1>6, <1>7, <1>8, ShapePushed
<1> QED
  BY <1>9 DEF r


------------------------------------------------------------------------------
(* What calls and returns leave behind.                                    *)

LEMMA Same ==
  ASSUME game' = game
  PROVE  /\ Verbs' = Verbs /\ Name' = Name /\ Variables' = Variables
         /\ (word' = word => Frame' = Frame /\ Calls' = Calls)
         /\ (word' \in Verbs => Frame \subseteq Frame')
<1>1. Verbs' = Verbs /\ Name' = Name
  BY DEF Verbs, Name
<1>2. Variables' = Variables
  BY <1>1 DEF Variables
<1>3. word' = word => Frame' = Frame /\ Calls' = Calls
  BY <1>1 DEF Frame, Calls
<1>4. word' \in Verbs => Frame \subseteq Frame'
  <2>1. word' \in Verbs => Calls \subseteq Calls'
    BY <1>1 DEF Calls
  <2> QED
    BY <1>1, <2>1 DEF Frame
<1> QED
  BY <1>1, <1>2, <1>3, <1>4

LEMMA Limits == MaxDepth \in Nat /\ MaxLines \in Nat /\ MaxSkip \in Nat
BY GamesAssumption

(* A lang_proc is called.                                                  *)
LEMMA LangProcKeeps ==
  ASSUME NEW v, NEW call, NEW th, NEW under,
         game \in Games, game' = game, word' \in Name, acts' \in BOOLEAN, ended' = 0,
         v \in Verbs, call \in Calls', th \in Variables, under \in Seq(Frame'), Shaped(under),
         call = "start" => under # <<>>,
         lang_proc(v, call, th, under)
  PROVE  IInv'
<1> USE Limits
<1>0. Verbs' = Verbs /\ Name' = Name /\ Variables' = Variables
  BY Same
<1> DEFINE f == [kind |-> "lang", verb |-> v, i |-> 1, d |-> -2, last |-> TRUE, call |-> call,
                 saved |-> th.iverb]
           u == [th EXCEPT !.exeunt = FALSE, !.failed = FALSE, !.donet = 0, !.ml = 0]
<1>1. stack' = <<f>> \o under /\ t' = u /\ pc' = "syntax" /\ Len(under) < MaxDepth
  BY DEF lang_proc
<1>2. f \in Frame' /\ f.kind = "lang" /\ f.call = call
  BY <1>0 DEF Frame, Variables
<1>3. u \in Variables /\ u.donet = 0 /\ u.exeunt = FALSE
  <2>1. 0 \in 0..(MaxLines + MaxDepth + 2) /\ 0 \in -1..MaxLines
    OBVIOUS
  <2> QED
    BY <2>1 DEF Variables
<1> HIDE DEF f, u
<1>4. PICK g : g = f
  OBVIOUS
<1>5. PICK F : F = Frame'
  OBVIOUS
<1>6. Len(under) \in Nat
  OBVIOUS
<1>7. /\ stack' \in Seq(Frame') /\ Len(stack') = Len(under) + 1 /\ stack' # <<>>
      /\ Head(stack') = g
  <2>1. under \in Seq(F) /\ g \in F /\ stack' = <<g>> \o under
    BY <1>1, <1>2, <1>4, <1>5
  <2> QED
    BY <2>1, <1>5, Pushed
<1>8. Shaped(stack')
  <2>1. under \in Seq(F) /\ g \in F /\ stack' = <<g>> \o under
    BY <1>1, <1>2, <1>4, <1>5
  <2>2. Shaped(<<g>> \o under)
    BY <2>1, <1>2, <1>4, ShapePushed
  <2> QED
    BY <2>1, <2>2
<1>9. Typed'
  BY <1>0, <1>1, <1>3, <1>6, <1>7 DEF Typed
<1>10. At'
  BY <1>1, <1>2, <1>3, <1>4, <1>7 DEF At, Top
<1>11. Bounds'
  BY <1>1, <1>3, <1>6, <1>7 DEF Bounds, Fits
<1>12. Found' /\ Ended' /\ Shape'
  BY <1>1, <1>8 DEF Found, Ended, Shape
<1> QED
  BY <1>9, <1>10, <1>11, <1>12 DEF IInv

\* The parse has not been ended, or it ends with the call at the head of s.
Leaves(s) == ended # 0 => ended = Len(s)

(* A lang_proc returns.                                                    *)
LEMMA LangReturnsKeeps ==
  ASSUME NEW s, NEW done, NEW th,
         game \in Games, game' = game, word \in Name, word' = word, acts' \in BOOLEAN,
         ended \in 0..MaxDepth, Leaves(s),
         th \in Variables, s \in Seq(Frame), s # <<>>, Shaped(s), Len(s) <= MaxDepth,
         Head(s).kind = "lang", Fits(th, s, 2),
         LangReturns(s, done, th)
  PROVE  IInv'
<1> USE Limits
<1>0. Verbs' = Verbs /\ Name' = Name /\ Variables' = Variables /\ Frame' = Frame
  BY Same
<1>1. /\ Tail(s) \in Seq(Frame) /\ Len(s) \in Nat /\ Len(s) >= 1 /\ Len(Tail(s)) = Len(s) - 1
      /\ Head(s) = s[1] /\ Head(s) \in Frame
  BY Popped
<1>2. Shaped(Tail(s)) /\ Sits(s, 1)
  <2>1. Shaped(Tail(s))
    BY ShapePopped
  <2>2. 1 \in 1..Len(s)
    BY <1>1
  <2> QED
    BY <2>1, <2>2 DEF Shaped
<1>3. stack' = Tail(s) /\ ended' = 0
  BY DEF LangReturns, Leaves
<1>4. t' \in Variables /\ t'.donet = th.donet /\ t'.exeunt = th.exeunt
  <2>1. Head(s).saved \in Name
    BY <1>1 DEF Frame
  <2> QED
    BY <2>1 DEF LangReturns, Variables
<1>5. /\ pc' \in {"did", "off", "grammar", "over", "prompt"}
      /\ pc' = "did" => Head(s).call = "start"
      /\ pc' = "grammar" => Head(s).call = "intercept"
  BY DEF LangReturns, Loop
<1>6. pc' = "did" => stack' # <<>>
  <2>1. pc' = "did" => Len(Tail(s)) # 0
    BY <1>1, <1>2, <1>5 DEF Sits
  <2> QED
    BY <1>3, <2>1, EmptySeq
<1>7. Typed'
  BY <1>0, <1>1, <1>3, <1>4, <1>5 DEF Typed
<1>8. At'
  BY <1>5, <1>6 DEF At
<1>9. Found'
  BY <1>0, <1>1, <1>5 DEF Found, Frame, Calls
<1>10. Bounds'
  <2>1. th.donet \in Nat /\ t'.donet + Len(stack') <= MaxLines + MaxDepth + 1
    BY <1>1, <1>3, <1>4 DEF Fits, Variables
  <2> QED
    BY <2>1, <1>5 DEF Bounds, Fits
<1>11. Ended' /\ Shape'
  BY <1>2, <1>3 DEF Ended, Shape
<1> QED
  BY <1>7, <1>8, <1>9, <1>10, <1>11 DEF IInv


(* What the call of a ttproc at the head of the calls rests on.            *)
LEMMA UnderTravel ==
  ASSUME Typed, Shape, stack # <<>>, Top.kind = "tt"
  PROVE  /\ Top \in Frame /\ Top.iverb \in Name
         /\ Top.from = "action" => Top.ml \in 0..MaxLines /\ Top.donet \in 0..MaxLines
         /\ Below \in Seq(Frame) /\ Below # <<>> /\ Len(Below) = Len(stack) - 1 /\ Len(Below) <= MaxDepth
         /\ Shaped(Below) /\ Head(Below) \in Frame
         /\ Top.from # "action" => Head(Below).kind = "lang"
         /\ Top.base = IF Head(Below).kind = "tt" THEN Head(Below).base ELSE Len(Below)
<1> USE Limits
<1>1. /\ Below \in Seq(Frame) /\ Len(stack) \in Nat /\ Len(stack) >= 1 /\ Len(Below) = Len(stack) - 1
      /\ Top = stack[1] /\ Top \in Frame /\ \A i \in 1..Len(Below) : Below[i] = stack[i + 1]
  <2>1. stack \in Seq(Frame)
    BY DEF Typed
  <2> QED
    BY <2>1, Popped DEF Top, Below
<1>2. /\ Top.iverb \in Name
      /\ Top.from = "action" => Top.ml \in 0..MaxLines /\ Top.donet \in 0..MaxLines
  BY <1>1 DEF Frame
<1>3. Sits(stack, 1)
  <2>1. 1 \in 1..Len(stack)
    BY <1>1
  <2> QED
    BY <2>1 DEF Shape, Shaped
<1>4. 1 < Len(stack)
  BY <1>1, <1>3 DEF Sits
<1>5. Below # <<>> /\ Head(Below) = stack[2] /\ Head(Below) \in Frame
  <2>1. Len(Below) # 0 /\ 1 \in 1..Len(Below)
    BY <1>1, <1>4
  <2>2. Below # <<>>
    BY <1>1, <2>1, EmptySeq
  <2> QED
    BY <1>1, <2>1, <2>2, Popped
<1>6. Head(Below).kind = "lang" \/ Head(Below).kind = "tt"
  BY <1>5 DEF Frame
<1>7. /\ Head(Below).kind = "lang" => Top.base = Len(Below)
      /\ Head(Below).kind = "tt" => Top.base = Head(Below).base /\ Top.from = "action"
  BY <1>1, <1>3, <1>5 DEF Sits
<1>8. Shaped(Below)
  <2>1. stack \in Seq(Frame) /\ Shaped(stack)
    BY DEF Typed, Shape
  <2> QED
    BY <2>1, ShapePopped DEF Below
<1>9. Len(Below) <= MaxDepth
  BY <1>1 DEF Typed
<1> QED
  BY <1>1, <1>2, <1>5, <1>6, <1>7, <1>8, <1>9

(* A ttproc returns.                                                       *)
LEMMA TravelReturnsKeeps ==
  ASSUME NEW zero, NEW th,
         Typed, Shape, stack # <<>>, Top.kind = "tt", game' = game, word' = word, acts' \in BOOLEAN,
         th \in Variables, Fits(th, stack, 2),
         ended # 0 => ended = Depth /\ th.inc = 1 /\ zero,
         TravelReturns(zero, th)
  PROVE  IInv'
<1> USE Limits
<1>0. /\ Verbs' = Verbs /\ Name' = Name /\ Variables' = Variables /\ Frame' = Frame
      /\ game \in Games /\ word \in Name /\ ended \in 0..MaxDepth
  BY Same DEF Typed
<1>1. /\ Top \in Frame /\ Top.iverb \in Name
      /\ Top.from = "action" => Top.ml \in 0..MaxLines /\ Top.donet \in 0..MaxLines
      /\ Below \in Seq(Frame) /\ Below # <<>> /\ Len(Below) = Len(stack) - 1 /\ Len(Below) <= MaxDepth
      /\ Shaped(Below) /\ Head(Below) \in Frame
      /\ Top.from # "action" => Head(Below).kind = "lang"
      /\ Top.base = IF Head(Below).kind = "tt" THEN Head(Below).base ELSE Len(Below)
  BY UnderTravel
<1>2. Len(stack) \in Nat /\ th.donet \in Nat
  BY DEF Typed, Variables
<1>3. CASE Top.from = "action"
  <2>0. Top.ml \in 0..MaxLines /\ Top.donet \in 0..MaxLines
    BY <1>1, <1>3
  <2>1. /\ stack' = Below /\ pc' = "did" /\ ended' = ended
        /\ t' = [th EXCEPT !.donet = IF zero THEN Top.ml ELSE Top.donet, !.ml = Top.ml]
    BY <1>3 DEF TravelReturns
  <2>2. t' \in Variables /\ t'.donet \in 0..MaxLines /\ t'.ml = Top.ml /\ t'.inc = th.inc
    <3>1. Top.ml \in 0..(MaxLines + MaxDepth + 2) /\ Top.donet \in 0..(MaxLines + MaxDepth + 2)
          /\ Top.ml \in -1..MaxLines
      BY <1>1, <2>0
    <3> QED
      BY <1>1, <2>0, <2>1, <3>1 DEF Variables
  <2>3. Typed'
    BY <1>0, <1>1, <2>1, <2>2 DEF Typed
  <2>4. At' /\ Found' /\ Shape'
    BY <1>1, <2>1 DEF At, Found, Shape
  <2>5. Bounds'
    <3>1. Len(Below) \in Nat
      BY <1>1, <2>0
    <3>2. t'.donet + Len(Below) <= MaxLines + MaxDepth + 1
      BY <1>1, <2>0, <2>2, <3>1
    <3> QED
      BY <2>1, <3>2 DEF Bounds, Fits
  <2>6. Ended'
    <3> SUFFICES ASSUME ended' # 0
                 PROVE  ended' = Depth' /\ t'.inc = 1 /\ Stops'
      BY <2>1 DEF Ended
    <3>1. ended = Top.base /\ th.inc = 1 /\ zero
      BY <2>1 DEF Depth
    <3>2. Depth' = Top.base
      BY <1>1, <2>1 DEF Depth, Top
    <3>3. t'.donet = t'.ml /\ t'.ml >= 0 /\ t'.ml \in Int
      <4>1. t'.donet = Top.ml
        BY <2>0, <2>1, <3>1 DEF Variables
      <4> QED
        BY <4>1, <2>2, <2>0
    <3>4. Stops'
      BY <3>3 DEF Stops
    <3> QED
      BY <2>1, <2>2, <3>1, <3>2, <3>4
  <2> QED
    BY <2>3, <2>4, <2>5, <2>6 DEF IInv
<1>4. CASE Top.from # "action"
  <2> DEFINE u == IF zero THEN th ELSE [th EXCEPT !.iverb = Top.iverb]
  <2>1. LangReturns(Below, zero, u)
    BY <1>4 DEF TravelReturns
  <2>2. u \in Variables /\ u.donet = th.donet
    BY <1>1 DEF Variables
  <2> HIDE DEF u
  <2>3. Fits(u, Below, 2)
    BY <1>1, <1>2, <2>2 DEF Fits
  <2>4. Leaves(Below)
    BY <1>1, <1>4 DEF Leaves, Depth
  <2> QED
    BY <1>0, <1>1, <1>4, <2>1, <2>2, <2>3, <2>4, LangReturnsKeeps
<1> QED
  BY <1>3, <1>4


(* A ttproc is called, on the calls s: those under way, but for what the   *)
(* head remembers of its last line.                                        *)
SameCalls(s) ==
  /\ s \in Seq(Frame) /\ s # <<>> /\ Len(s) = Len(stack) /\ Shaped(s)
  /\ Head(s) \in Frame /\ Head(s).kind = Top.kind /\ (Top.kind = "tt" => Head(s).base = Top.base)

LEMMA RoomTable ==
  ASSUME Typed, NEW r \in DOMAIN game.rooms
  PROVE  /\ game.rooms[r] \in Seq([verb : Verbs, line : LineSet(game)])
         /\ Len(game.rooms[r]) \in 0..MaxLines
<1>1. WellFormed(game)
  BY GamesAssumption DEF Typed
<1>2. game.rooms[r] \in Seq([verb : Verbs, line : LineSet(game)]) /\ Len(game.rooms[r]) <= MaxLines
  BY <1>1 DEF WellFormed, Verbs
<1> QED
  BY <1>2

LEMMA TtprocKeeps ==
  ASSUME NEW from, NEW iv, NEW th, NEW s,
         Typed, game' = game, word' = word, acts' \in BOOLEAN, ended = 0,
         from \in {"action", "tail"}, iv \in Name, th \in Variables, SameCalls(s), stack # <<>>,
         from = "action" => th.donet <= MaxLines /\ th.ml >= 0,
         from = "tail" => Top.kind = "lang",
         ttproc(from, iv, th, s)
  PROVE  IInv'
<1> USE Limits
<1>0. /\ Verbs' = Verbs /\ Name' = Name /\ Variables' = Variables /\ Frame' = Frame
      /\ game \in Games /\ word \in Name
  BY Same DEF Typed
<1>1. /\ stack \in Seq(Frame) /\ Len(stack) \in Nat /\ Len(stack) >= 1 /\ Len(stack) <= MaxDepth
      /\ Top \in Frame
  BY Popped DEF Typed, Top
<1>2. /\ s \in Seq(Frame) /\ s # <<>> /\ Len(s) = Len(stack) /\ Shaped(s)
      /\ Head(s) \in Frame /\ Head(s).kind = Top.kind /\ (Top.kind = "tt" => Head(s).base = Top.base)
  BY DEF SameCalls
<1> DEFINE ready == [th EXCEPT !.exeunt = FALSE, !.donet = 0, !.skip = 0, !.failed = FALSE]
           table == game.rooms[th.room]
<1>3. 0 \in 0..(MaxLines + MaxDepth + 2) /\ 0 \in 0..MaxSkip
  OBVIOUS
<1>4. /\ ready \in Variables /\ ready.donet = 0 /\ ready.exeunt = FALSE
      /\ th.room \in DOMAIN game.rooms /\ th.ml \in -1..MaxLines /\ th.donet \in Nat
  <2>1. th.room \in DOMAIN game.rooms /\ th.ml \in -1..MaxLines /\ th.donet \in Nat
    BY DEF Variables
  <2>2. ready \in Variables
    BY <1>3 DEF Variables
  <2>3. ready.donet = 0 /\ ready.exeunt = FALSE
    BY DEF Variables
  <2> QED
    BY <2>1, <2>2, <2>3
<1>5. Len(table) \in 0..MaxLines
  BY <1>4, RoomTable
<1>6. from = "action" => th.ml \in 0..MaxLines /\ th.donet \in 0..MaxLines
  BY <1>4
<1>7. CASE table = <<>> /\ from = "action"
  <2>1. pc' = "did" /\ stack' = s /\ ended' = 0 /\ t' = [ready EXCEPT !.donet = th.ml]
    BY <1>7 DEF ttproc
  <2>2. th.ml \in 0..(MaxLines + MaxDepth + 2)
    BY <1>6, <1>7
  <2> HIDE DEF ready, table
  <2>3. t' \in Variables /\ t'.donet = th.ml
    BY <1>4, <2>1, <2>2 DEF Variables
  <2>4. Typed'
    BY <1>0, <1>1, <1>2, <2>1, <2>3 DEF Typed
  <2>5. At' /\ Found' /\ Shape' /\ Ended'
    BY <1>2, <2>1 DEF At, Found, Shape, Ended
  <2>6. th.ml + Len(s) <= MaxLines + MaxDepth + 1
    BY <1>1, <1>2, <1>6, <1>7
  <2>7. Bounds'
    BY <2>1, <2>3, <2>6 DEF Bounds, Fits
  <2> QED
    BY <2>4, <2>5, <2>7 DEF IInv
<1>8. CASE table = <<>> /\ from # "action"
  <2>1. LangReturns(s, TRUE, ready)
    BY <1>8 DEF ttproc
  <2>2. Head(s).kind = "lang" /\ Len(s) <= MaxDepth /\ Leaves(s) /\ ended \in 0..MaxDepth
    BY <1>1, <1>2, <1>8 DEF Leaves
  <2> HIDE DEF ready, table
  <2>3. Fits(ready, s, 2)
    BY <1>1, <1>2, <1>4 DEF Fits
  <2> QED
    BY <1>0, <1>2, <1>4, <2>1, <2>2, <2>3, LangReturnsKeeps
<1>9. CASE table # <<>>
  <2> DEFINE f == [kind |-> "tt", dun |-> -1, room |-> th.room, from |-> from, base |-> Depth,
                   donet |-> th.donet, ml |-> th.ml, iverb |-> iv]
  <2>1. /\ Len(s) < MaxDepth /\ stack' = <<f>> \o s /\ t' = [ready EXCEPT !.ml = Len(table)]
        /\ pc' = "scan" /\ ended' = 0
    BY <1>9 DEF ttproc
  <2>2. Depth \in 0..MaxDepth /\ (Top.kind = "lang" => Depth = Len(s)) /\ (Top.kind = "tt" => Depth = Top.base)
    BY <1>1, <1>2 DEF Depth, Frame
  <2>3. f \in Frame /\ f.kind = "tt" /\ f.base = Depth /\ f.from = from
    <3>1. CASE from = "action"
      BY <1>4, <1>6, <2>2, <3>1 DEF Frame
    <3>2. CASE from = "tail"
      BY <1>4, <2>2, <3>2 DEF Frame
    <3> QED
      BY <3>1, <3>2
  <2>4. t' \in Variables /\ t'.donet = 0 /\ t'.exeunt = FALSE
    <3>1. Len(table) \in -1..MaxLines
      BY <1>5
    <3> HIDE DEF ready, table
    <3> QED
      BY <1>4, <2>1, <3>1 DEF Variables
  <2> HIDE DEF ready, table, f
  <2>5. PICK g : g = f
    OBVIOUS
  <2>6. PICK F : F = Frame
    OBVIOUS
  <2>7. s \in Seq(F) /\ g \in F /\ stack' = <<g>> \o s
    BY <1>2, <2>1, <2>3, <2>5, <2>6
  <2>8. stack' \in Seq(F) /\ Len(stack') = Len(s) + 1 /\ stack' # <<>> /\ Head(stack') = g
    BY <2>7, Pushed
  <2>9. Shaped(stack')
    <3>1. g.kind = "tt" /\ g.from = from
      BY <2>3, <2>5
    <3>2. /\ Head(s).kind = "lang" => g.base = Len(s)
          /\ Head(s).kind = "tt" => g.base = Head(s).base /\ g.from = "action"
      BY <1>2, <2>2, <2>3, <2>5
    <3>3. Shaped(<<g>> \o s)
      BY <1>2, <2>7, <3>1, <3>2, ShapePushed
    <3> QED
      BY <2>7, <3>3
  <2>10. Len(stack') <= MaxDepth
    BY <1>1, <1>2, <2>1, <2>8
  <2>11. Typed'
    BY <1>0, <2>1, <2>4, <2>6, <2>8, <2>10 DEF Typed
  <2>12. At'
    BY <2>1, <2>3, <2>4, <2>5, <2>8 DEF At, Top
  <2>13. Found' /\ Ended' /\ Shape'
    BY <2>1, <2>9 DEF Found, Ended, Shape
  <2>14. Bounds'
    BY <1>1, <1>2, <2>1, <2>4, <2>8, <2>10 DEF Bounds, Fits
  <2> QED
    BY <2>11, <2>12, <2>13, <2>14 DEF IInv
<1> QED
  BY <1>7, <1>8, <1>9


(* What an action leaves in the thread's variables: when it ends the       *)
(* parse, a ttproc stops here, and a lang_proc as well.                    *)
LEMMA EffectsKeep ==
  ASSUME NEW l \in LineSet(game), NEW th \in Variables, NEW after \in Effects(l, th),
         l.op \notin {"travel", "start"},
         th.inc = 1, th.exeunt = FALSE, th.skip = 0, th.donet <= th.ml, th.ml >= 1
  PROVE  /\ after \in Variables /\ after.donet \in 0..(MaxLines + 1)
         /\ Ends(l, after) =>
              /\ after.inc = 1
              /\ after.exeunt \/ after.donet >= after.ml
              /\ after.failed \/ after.exeunt \/ (after.ml >= 0 /\ after.donet >= after.ml)
<1> USE Limits
<1>1. /\ th.ml \in 1..MaxLines /\ th.donet \in 0..MaxLines /\ th.ml + 1 \in 0..(MaxLines + 1)
      /\ th.ml + 1 \in 0..(MaxLines + MaxDepth + 2) /\ 0 \in 0..(MaxLines + MaxDepth + 2)
      /\ -1 \in -1..MaxLines /\ -1 + 1 = 0 /\ th.ml \in Int /\ 0 \in 0..(MaxLines + 1)
      /\ th.donet \in 0..(MaxLines + 1)
  BY DEF Variables
<1>2. /\ l.op \in {"reply", "hurt", "check", "kill", "goto", "move", "skip", "endparse", "failparse",
                   "abortparse", "quit", "treatas"}
      /\ l.op \in {"goto", "move"} => l.arg \in DOMAIN game.rooms
      /\ l.op = "skip" => l.arg \in 0..MaxSkip
      /\ l.op = "treatas" => l.arg \in Name
  BY DEF LineSet, Name, Verbs
<1>3. PICK m : m = th.ml + 1
  OBVIOUS
<1>4. m \in 0..(MaxLines + MaxDepth + 2) /\ m \in 0..(MaxLines + 1) /\ m >= th.ml /\ m >= 0 /\ th.ml >= 0
  BY <1>1, <1>3
<1>5. ASSUME NEW x \in Variables, x.ml = th.ml
      PROVE  EndParse(x) \in Variables /\ EndParse(x).donet = m /\ EndParse(x).ml = th.ml
             /\ EndParse(x).inc = x.inc /\ EndParse(x).exeunt = x.exeunt
  <2>1. EndParse(x) = [x EXCEPT !.donet = m]
    BY <1>3, <1>5 DEF EndParse
  <2> QED
    BY <1>4, <1>5, <2>1 DEF Variables
<1>6. /\ FailParse(th) \in Variables /\ FailParse(th).donet = m /\ FailParse(th).ml = -1
      /\ FailParse(th).failed = TRUE /\ FailParse(th).inc = 1
  <2>1. EndParse(th) \in Variables /\ EndParse(th).donet = m /\ EndParse(th).inc = 1
    BY <1>5
  <2>2. FailParse(th) = [EndParse(th) EXCEPT !.ml = -1, !.failed = TRUE]
    BY DEF FailParse
  <2> QED
    BY <1>1, <2>1, <2>2 DEF Variables
<1>7. CASE l.op = "reply"
  BY <1>1, <1>7 DEF Effects, Ends
<1>8. /\ akillme(th) \in Variables /\ akillme(th).donet = m /\ akillme(th).ml = -1
       /\ akillme(th).inc = 1 /\ akillme(th).exeunt = TRUE
  BY <1>6 DEF akillme, Variables
<1>9. CASE l.op = "hurt"
  <2>1. after = th \/ after = akillme(th)
    BY <1>9 DEF Effects
  <2>2. CASE after = th
    BY <1>1, <1>9, <2>2 DEF Ends
  <2>3. CASE after = akillme(th)
    BY <1>4, <1>8, <2>3
  <2> QED
    BY <2>1, <2>2, <2>3
<1>10. CASE l.op = "check"
  <2>1. after = [th EXCEPT !.inc = 0] \/ after = EndParse(th)
    BY <1>10 DEF Effects, acheckget
  <2>2. CASE after = [th EXCEPT !.inc = 0]
    BY <1>1, <1>10, <2>2 DEF Ends, Variables
  <2>3. CASE after = EndParse(th)
    BY <1>4, <1>5, <2>3
  <2> QED
    BY <2>1, <2>2, <2>3
<1>11. CASE l.op = "kill"
  <2> DEFINE x == akillme(th)
  <2>1. after = EndParse(x)
    BY <1>11 DEF Effects
  <2>2. x \in Variables /\ x.ml = -1 /\ x.inc = 1 /\ x.exeunt = TRUE
    BY <1>8
  <2> HIDE DEF x
  <2>3. after = [x EXCEPT !.donet = 0]
    BY <1>1, <2>1, <2>2 DEF EndParse
  <2>4. after \in Variables /\ after.donet = 0 /\ after.inc = 1 /\ after.exeunt = TRUE
    BY <1>1, <2>2, <2>3 DEF Variables
  <2> QED
    BY <1>1, <2>4
<1>12. CASE l.op \in {"goto", "move"}
  <2> DEFINE there == [th EXCEPT !.room = l.arg]
  <2>1. after = th \/ after = there \/ after = akillme(there)
    BY <1>12 DEF Effects, ActionGoToRoom, MovePlayerTo
  <2>2. there \in Variables
    BY <1>2, <1>12 DEF Variables
  <2>3. there.donet = th.donet /\ there.ml = th.ml /\ there.inc = 1 /\ there.exeunt = FALSE
    BY DEF Variables
  <2> HIDE DEF there
  <2>4. CASE after = th \/ after = there
    BY <1>1, <1>12, <2>2, <2>3, <2>4 DEF Ends
  <2>5. CASE after = akillme(there)
    <3>1. EndParse(there) \in Variables /\ EndParse(there).donet = m /\ EndParse(there).inc = 1
      BY <1>5, <2>2, <2>3
    <3>2. after = [[EndParse(there) EXCEPT !.ml = -1, !.failed = TRUE] EXCEPT !.exeunt = TRUE]
      BY <2>5 DEF akillme, FailParse
    <3>3. after \in Variables /\ after.donet = m /\ after.ml = -1 /\ after.inc = 1 /\ after.exeunt = TRUE
      BY <1>1, <3>1, <3>2 DEF Variables
    <3> QED
      BY <1>4, <3>3
  <2> QED
    BY <2>1, <2>4, <2>5
<1>13. CASE l.op = "skip"
  <2>1. after = [th EXCEPT !.skip = l.arg]
    BY <1>2, <1>13 DEF Effects, Variables
  <2> QED
    BY <1>1, <1>2, <1>13, <2>1 DEF Variables, Ends
<1>14. CASE l.op = "endparse"
  <2>1. after = EndParse(th)
    BY <1>14 DEF Effects
  <2> QED
    BY <1>4, <1>5, <2>1
<1>15. CASE l.op = "failparse"
  <2>1. after = FailParse(th)
    BY <1>15 DEF Effects
  <2> QED
    BY <1>4, <1>6, <2>1
<1>16. CASE l.op = "abortparse"
  <2> DEFINE x == [th EXCEPT !.iverb = NoVerb]
  <2>1. after = EndParse(x)
    BY <1>16 DEF Effects, Aborted
  <2>2. x \in Variables /\ x.ml = th.ml /\ x.inc = 1
    BY DEF Variables, Name
  <2> HIDE DEF x
  <2> QED
    BY <1>4, <1>5, <2>1, <2>2
<1>17. CASE l.op = "quit"
  <2> DEFINE x == [th EXCEPT !.exeunt = TRUE]
  <2>1. after = EndParse(th) \/ after = EndParse(x)
    BY <1>17 DEF Effects
  <2>2. x \in Variables /\ x.ml = th.ml /\ x.inc = 1
    BY DEF Variables
  <2> HIDE DEF x
  <2> QED
    BY <1>4, <1>5, <2>1, <2>2
<1>18. CASE l.op = "treatas"
  <2>1. after = [th EXCEPT !.donet = 0, !.inc = 0, !.iverb = l.arg]
    BY <1>18 DEF Effects
  <2> QED
    BY <1>1, <1>2, <1>18, <2>1 DEF Variables, Ends
<1> QED
  BY <1>2, <1>7, <1>9, <1>10, <1>11, <1>12, <1>13, <1>14, <1>15, <1>16, <1>17, <1>18


(* An action is executed.                                                  *)
LEMMA ExecuteKeeps ==
  ASSUME NEW l \in LineSet(game), NEW th \in Variables, NEW s,
         Typed, Shape, game' = game, word' = word, ended = 0, SameCalls(s), stack # <<>>,
         th.inc = 1, th.exeunt = FALSE, th.skip = 0, th.donet <= th.ml, th.ml >= 1,
         executeAction(l, s, th)
  PROVE  IInv'
<1> USE Limits
<1>0. /\ Verbs' = Verbs /\ Name' = Name /\ Variables' = Variables /\ Frame' = Frame /\ Calls' = Calls
      /\ game \in Games /\ word \in Name /\ acts' \in BOOLEAN
  BY Same DEF Typed, executeAction
<1>1. /\ stack \in Seq(Frame) /\ Len(stack) \in Nat /\ Len(stack) >= 1 /\ Len(stack) <= MaxDepth
      /\ Top \in Frame
  BY Popped DEF Typed, Top
<1>2. /\ s \in Seq(Frame) /\ s # <<>> /\ Len(s) = Len(stack) /\ Shaped(s)
      /\ Head(s) \in Frame /\ Head(s).kind = Top.kind /\ (Top.kind = "tt" => Head(s).base = Top.base)
  BY DEF SameCalls
<1>3. CASE l.op = "travel"
  <2>1. ttproc("action", NoVerb, th, s)
    BY <1>3 DEF executeAction
  <2>2. NoVerb \in Name /\ th.donet <= MaxLines /\ th.ml >= 0
    BY DEF Name, Variables
  <2> QED
    BY <1>0, <2>1, <2>2, TtprocKeeps
<1>4. CASE l.op = "start"
  <2>1. lang_proc(l.arg, "start", th, s) /\ ended' = 0
    BY <1>4 DEF executeAction
  <2>2. l.arg \in Verbs
    BY <1>4 DEF LineSet, Verbs
  <2>3. "start" \in Calls'
    BY <1>0 DEF Calls
  <2> QED
    BY <1>0, <1>2, <2>1, <2>2, <2>3, LangProcKeeps
<1>5. CASE l.op \notin {"travel", "start"}
  <2>1. PICK after \in Effects(l, th) :
          /\ t' = after
          /\ ended' = IF ended = 0 /\ Ends(l, after) THEN Depth ELSE ended
    BY <1>5 DEF executeAction
  <2>2. pc' = "did" /\ stack' = s
    BY <1>5 DEF executeAction
  <2>3. /\ after \in Variables /\ after.donet \in 0..(MaxLines + 1)
        /\ Ends(l, after) =>
             /\ after.inc = 1
             /\ after.exeunt \/ after.donet >= after.ml
             /\ after.failed \/ after.exeunt \/ (after.ml >= 0 /\ after.donet >= after.ml)
    BY <1>5, EffectsKeep
  <2>4. Depth \in 0..MaxDepth /\ Depth = IF Head(s).kind = "tt" THEN Head(s).base ELSE Len(s)
    BY <1>1, <1>2 DEF Depth, Frame
  <2>5. Typed'
    BY <1>0, <1>1, <1>2, <2>1, <2>2, <2>3, <2>4 DEF Typed
  <2>6. At' /\ Found' /\ Shape'
    BY <1>2, <2>2 DEF At, Found, Shape
  <2>7. Bounds'
    <3>1. after.donet + Len(s) <= MaxLines + MaxDepth + 1
      BY <1>1, <1>2, <2>3
    <3> QED
      BY <2>1, <2>2, <3>1 DEF Bounds, Fits
  <2>8. Ended'
    <3>1. ended' # 0 => Ends(l, after)
      BY <2>1
    <3>2. ended' # 0 => ended' = Depth'
      BY <2>1, <2>2, <2>4 DEF Depth, Top
    <3>3. ended' # 0 => t'.inc = 1 /\ Stops'
      BY <2>1, <2>3, <3>1 DEF Stops
    <3> QED
      BY <2>2, <3>2, <3>3 DEF Ended
  <2> QED
    BY <2>5, <2>6, <2>7, <2>8 DEF IInv
<1> QED
  BY <1>3, <1>4, <1>5

------------------------------------------------------------------------------
(* The initial states and the steps.                                       *)

LEMMA InitHolds == Init => IInv
<1> SUFFICES ASSUME Init
             PROVE  IInv
  OBVIOUS
<1> USE Limits
<1>1. game \in Games /\ WellFormed(game)
  BY GamesAssumption DEF Init
<1>2. NoVerb \in Name
  BY DEF Name
<1>3. 1 \in 0..(MaxLines + MaxDepth + 2) /\ 0 \in -1..MaxLines /\ 0 \in 0..MaxSkip /\ 0 \in 0..MaxDepth
  OBVIOUS
<1>4. t \in Variables
  BY <1>2, <1>3 DEF Init, Variables
<1>5. /\ stack = <<>> /\ stack \in Seq(Frame) /\ Len(stack) = 0 /\ pc \in {"boot", "prompt"}
      /\ ended = 0 /\ word = NoVerb /\ acts = FALSE
  BY DEF Init
<1>6. Typed
  <2>1. word \in Name /\ acts \in BOOLEAN /\ ended \in 0..MaxDepth
    BY <1>2, <1>3, <1>5
  <2>2. Len(stack) <= MaxDepth
    BY <1>5
  <2>3. stack \in Seq(Frame)
    BY <1>5
  <2> QED
    BY <1>1, <1>4, <1>5, <2>1, <2>2, <2>3 DEF Typed
<1>7. Shape
  BY <1>5 DEF Shape, Shaped
<1> QED
  BY <1>5, <1>6, <1>7 DEF IInv, At, Found, Bounds, Ended

(* A step that calls nothing, and leaves the calls alone.                  *)
LEMMA QuietKeeps ==
  ASSUME IInv, game' = game, word' = word, acts' = acts, ended' = 0, ended = 0, stack' = stack,
         t' \in Variables, pc' \in {"prompt", "grammar", "over", "off", "crash", "stray"},
         pc' = "grammar" => word \in Verbs
  PROVE  IInv'
<1>0. Verbs' = Verbs /\ Name' = Name /\ Variables' = Variables /\ Frame' = Frame
  BY Same
<1>1. Typed'
  BY <1>0 DEF IInv, Typed
<1>2. Found'
  BY <1>0 DEF Found
<1> QED
  BY <1>1, <1>2 DEF IInv, At, Shape, Bounds, Ended

LEMMA BootKeeps ==
  ASSUME IInv, Boot
  PROVE  IInv'
<1>1. Typed /\ ended = 0 /\ ended' = 0 /\ game' = game /\ word' = word /\ acts' = acts
  BY DEF IInv, Ended, Boot
<1>2. CASE lang_proc("boot", "boot", t, <<>>) /\ "boot" \in Verbs
  <2>1. /\ game \in Games /\ word' \in Name /\ acts' \in BOOLEAN /\ t \in Variables
        /\ "boot" \in Calls' /\ <<>> \in Seq(Frame') /\ Shaped(<<>>)
    BY <1>1 DEF Typed, Calls, Shaped
  <2> QED
    BY <1>1, <1>2, <2>1, LangProcKeeps
<1>3. CASE pc' = "off" /\ UNCHANGED <<t, stack>>
  <2>1. t' \in Variables
    BY <1>1, <1>3 DEF Typed
  <2> QED
    BY <1>1, <1>3, <2>1, QuietKeeps
<1> QED
  BY <1>2, <1>3 DEF Boot

(* What every command begins with.                                         *)
LEMMA FreshType ==
  ASSUME Typed
  PROVE  /\ Fresh \in Variables /\ Fresh.ml = 0
         /\ [Fresh EXCEPT !.iverb = "speech"] \in Variables \/ "speech" \notin Verbs
         /\ \A r \in DOMAIN game.rooms : MovePlayerTo(r, Fresh) \subseteq Variables
         /\ FailParse(Fresh) \in Variables
<1> USE Limits
<1>1. /\ 0 \in -1..MaxLines /\ 1 \in 0..(MaxLines + MaxDepth + 2) /\ -1 \in -1..MaxLines /\ 0 + 1 = 1
      /\ NoVerb \in Name /\ t \in Variables
  BY DEF Name, Typed
<1> DEFINE x == [t EXCEPT !.failed = FALSE, !.exeunt = FALSE, !.donet = -1, !.ml = 0]
<1>2. x.ml = 0 /\ [x EXCEPT !.iverb = NoVerb].ml = 0
  BY <1>1 DEF Variables
<1>3. Fresh = [[x EXCEPT !.iverb = NoVerb] EXCEPT !.donet = 0 + 1]
  BY <1>2 DEF Fresh, Aborted, EndParse
<1>4. Fresh = [iverb |-> NoVerb, vb |-> t.vb, donet |-> 1, ml |-> 0, skip |-> t.skip, inc |-> t.inc,
               failed |-> FALSE, exeunt |-> FALSE, room |-> t.room]
  BY <1>1, <1>3, <1>2 DEF Variables
<1>5. Fresh \in Variables /\ Fresh.ml = 0 /\ Fresh.ml + 1 = 1
  BY <1>1, <1>4 DEF Variables
<1>6. [Fresh EXCEPT !.iverb = "speech"] \in Variables \/ "speech" \notin Verbs
  BY <1>5 DEF Variables, Name
<1>7. FailParse(Fresh) \in Variables
  BY <1>1, <1>5 DEF FailParse, EndParse, Variables
<1>8. ASSUME NEW r \in DOMAIN game.rooms
      PROVE  MovePlayerTo(r, Fresh) \subseteq Variables
  <2> DEFINE there == [Fresh EXCEPT !.room = r]
  <2>1. there \in Variables /\ there.ml + 1 = 1
    BY <1>5 DEF Variables
  <2> HIDE DEF there
  <2>2. akillme(there) = [[[there EXCEPT !.donet = 1] EXCEPT !.ml = -1, !.failed = TRUE] EXCEPT !.exeunt = TRUE]
    BY <2>1 DEF akillme, FailParse, EndParse
  <2>3. akillme(there) \in Variables
    BY <1>1, <2>1, <2>2 DEF Variables
  <2> QED
    BY <2>1, <2>3 DEF MovePlayerTo, there
<1> QED
  BY <1>5, <1>6, <1>8, <1>7


LEMMA RefusedKeeps ==
  ASSUME IInv, Refused \/ parseSuperGo
  PROVE  IInv'
<1>1. Typed /\ pc = "prompt" /\ ended = 0
  BY DEF IInv, Ended, Refused, parseSuperGo
<1>2. t' \in Variables
  BY <1>1, FreshType DEF Refused, parseSuperGo
<1>3. /\ game' = game /\ word' = word /\ stack' = stack /\ acts' = acts /\ ended' = ended
      /\ pc' \in {"prompt", "over"}
  BY <1>1 DEF Refused, parseSuperGo, Loop
<1> QED
  BY <1>1, <1>2, <1>3, QuietKeeps

LEMMA parseSpeechKeeps ==
  ASSUME IInv, parseSpeech
  PROVE  IInv'
<1>1. /\ Typed /\ pc = "prompt" /\ ended = 0 /\ ended' = 0 /\ game' = game /\ word' = word /\ acts' = acts
      /\ game \in Games /\ word \in Name /\ acts \in BOOLEAN
  BY DEF IInv, Ended, Typed, parseSpeech
<1>2. Name' = Name /\ Calls' = Calls
  BY <1>1, Same
<1>3. CASE "speech" \in Verbs /\ lang_proc("speech", "command", [Fresh EXCEPT !.iverb = "speech"], <<>>)
  <2> DEFINE u == [Fresh EXCEPT !.iverb = "speech"]
  <2>1. u \in Variables /\ lang_proc("speech", "command", u, <<>>)
    BY <1>1, <1>3, FreshType
  <2> HIDE DEF u
  <2>2. word' \in Name /\ "command" \in Calls' /\ <<>> \in Seq(Frame') /\ Shaped(<<>>)
    BY <1>1, <1>2 DEF Calls, Shaped
  <2> QED
    BY <1>1, <1>3, <2>1, <2>2, LangProcKeeps
<1>4. CASE t' = Fresh /\ UNCHANGED <<pc, stack>>
  <2>1. t' \in Variables
    BY <1>1, <1>4, FreshType
  <2> QED
    BY <1>1, <1>4, <2>1, QuietKeeps
<1> QED
  BY <1>3, <1>4 DEF parseSpeech

LEMMA parserKeeps ==
  ASSUME IInv, parser
  PROVE  IInv'
<1>1. /\ Typed /\ pc = "prompt" /\ ended = 0 /\ ended' = 0 /\ game' = game /\ acts' = acts
      /\ game \in Games /\ acts \in BOOLEAN
  BY DEF IInv, Ended, Typed, parser
<1>2. PICK w \in Verbs \ Special :
        /\ word' = w
        /\ IF game.verbs[w].travel /\ "travel" \in Verbs
           THEN lang_proc("travel", "intercept", Fresh, <<>>)
           ELSE pc' = "grammar" /\ t' = Fresh /\ stack' = stack
  BY DEF parser
<1>3. /\ Verbs' = Verbs /\ Name' = Name /\ Variables' = Variables /\ Frame \subseteq Frame'
      /\ word' \in Verbs /\ word' \in Name
  BY <1>1, <1>2, Same DEF Name
<1>4. Fresh \in Variables
  BY <1>1, FreshType
<1>5. CASE "travel" \in Verbs /\ lang_proc("travel", "intercept", Fresh, <<>>)
  <2>1. "intercept" \in Calls' /\ <<>> \in Seq(Frame') /\ Shaped(<<>>)
    BY <1>3 DEF Calls, Shaped
  <2> QED
    BY <1>1, <1>3, <1>4, <1>5, <2>1, LangProcKeeps
<1>6. CASE pc' = "grammar" /\ t' = Fresh /\ stack' = stack
  <2>1. stack \in Seq(Frame) /\ Len(stack) <= MaxDepth /\ Shape
    BY DEF IInv, Typed
  <2>2. stack' \in Seq(Frame')
    <3>1. PICK F, G : F = Frame /\ G = Frame'
      OBVIOUS
    <3>2. stack \in Seq(G)
      BY <1>3, <2>1, <3>1, Wider
    <3> QED
      BY <1>6, <3>1, <3>2
  <2>3. Typed'
    BY <1>1, <1>3, <1>4, <1>6, <2>1, <2>2 DEF Typed
  <2>4. At' /\ Found' /\ Bounds' /\ Ended' /\ Shape'
    BY <1>1, <1>3, <1>6, <2>1 DEF At, Found, Bounds, Ended, Shape
  <2> QED
    BY <2>3, <2>4 DEF IInv
<1> QED
  BY <1>2, <1>5, <1>6

LEMMA GrammarKeeps ==
  ASSUME IInv, Grammar
  PROVE  IInv'
<1> USE Limits
<1>1. /\ Typed /\ pc = "grammar" /\ ended = 0 /\ ended' = 0 /\ game' = game /\ word' = word /\ acts' = acts
      /\ game \in Games /\ word \in Verbs /\ word \in Name /\ acts \in BOOLEAN /\ t \in Variables
  BY DEF IInv, Ended, Typed, Found, Grammar
<1>2. Name' = Name /\ Calls' = Calls
  BY <1>1, Same
<1> DEFINE th == [t EXCEPT !.iverb = word, !.vb = word]
           u == FailParse(th)
<1>3. th \in Variables /\ th.ml \in -1..MaxLines
  BY <1>1 DEF Variables
<1>4. \/ pc' = Loop(th) /\ stack' = stack /\ t' = u
      \/ pc' = Loop(th) /\ stack' = stack /\ t' = th
      \/ lang_proc(word, "command", th, <<>>)
  BY DEF Grammar
<1>5. u \in Variables
  <2> HIDE DEF th
  <2>1. th.ml + 1 \in 0..(MaxLines + MaxDepth + 2) /\ -1 \in -1..MaxLines
    BY <1>3
  <2> QED
    BY <1>3, <2>1 DEF Variables, FailParse, EndParse
<1> HIDE DEF th, u
<1>6. CASE pc' = Loop(th) /\ stack' = stack /\ (t' = u \/ t' = th)
  <2>1. pc' \in {"prompt", "over"}
    BY <1>6 DEF Loop
  <2>2. t' \in Variables
    BY <1>3, <1>5, <1>6
  <2> QED
    BY <1>1, <1>6, <2>1, <2>2, QuietKeeps
<1>7. CASE lang_proc(word, "command", th, <<>>)
  <2>1. word' \in Name /\ "command" \in Calls' /\ <<>> \in Seq(Frame') /\ Shaped(<<>>) /\ acts' \in BOOLEAN
    BY <1>1, <1>2 DEF Calls, Shaped
  <2> QED
    BY <1>1, <1>3, <1>7, <2>1, LangProcKeeps
<1> QED
  BY <1>4, <1>6, <1>7

------------------------------------------------------------------------------
(* The steps of lang_proc.                                                 *)

LEMMA Replaced ==
  ASSUME Typed, Shape, stack # <<>>, NEW f \in Frame, f.kind = Top.kind,
         f.kind = "lang" => f.call = Top.call,
         f.kind = "tt" => f.base = Top.base /\ f.from = Top.from
  PROVE  /\ <<f>> \o Below \in Seq(Frame) /\ Len(<<f>> \o Below) = Len(stack) /\ Shaped(<<f>> \o Below)
         /\ <<f>> \o Below # <<>> /\ Head(<<f>> \o Below) = f
<1>1. stack \in Seq(Frame) /\ Shaped(stack) /\ Top = Head(stack) /\ Below = Tail(stack)
  BY DEF Typed, Shape, Top, Below
<1>2. Below \in Seq(Frame) /\ Len(Below) = Len(stack) - 1 /\ Len(stack) \in Nat
  BY <1>1, Popped
<1>3. /\ <<f>> \o Below \in Seq(Frame) /\ Len(<<f>> \o Below) = Len(Below) + 1
      /\ <<f>> \o Below # <<>> /\ Head(<<f>> \o Below) = f
  BY <1>2, Pushed
<1>4. Shaped(<<f>> \o Below)
  BY <1>1, ShapeKept
<1> QED
  BY <1>2, <1>3, <1>4

LEMMA VerbSyntax ==
  ASSUME Typed, NEW v \in Verbs, NEW i \in Nat, i >= 1, i <= Len(game.verbs[v].syntaxes)
  PROVE  /\ game.verbs[v].syntaxes[i] \in Seq(LineSet(game))
         /\ Len(game.verbs[v].syntaxes[i]) \in 0..MaxLines
<1>1. WellFormed(game)
  BY GamesAssumption DEF Typed
<1> DEFINE x == game.verbs[v].syntaxes
<1>2. x \in Seq(Seq(LineSet(game))) /\ \A j \in DOMAIN x : Len(x[j]) <= MaxLines
  BY <1>1 DEF WellFormed, Verbs
<1>3. i \in DOMAIN x
  BY <1>2
<1> HIDE DEF x
<1>4. x[i] \in Seq(LineSet(game)) /\ Len(x[i]) <= MaxLines
  BY <1>2, <1>3
<1>5. Len(x[i]) \in 0..MaxLines
  BY <1>4
<1> QED
  BY <1>4, <1>5 DEF x

(* What the head of the calls is, in a lang_proc.                          *)
LEMMA InLang ==
  ASSUME IInv, pc \in {"syntax", "line", "tail"} \/ (pc = "did" /\ Top.kind = "lang")
  PROVE  /\ Typed /\ Shape /\ stack # <<>> /\ Top \in Frame /\ Top.kind = "lang" /\ Top.verb \in Verbs
         /\ Top.i \in Nat \ {0} /\ Top.d \in {-2, -1, 0} /\ t \in Variables /\ Depth = Len(stack)
         /\ Len(stack) \in Nat /\ Len(stack) >= 1 /\ Len(stack) <= MaxDepth
         /\ stack \in Seq(Frame) /\ Shaped(stack)
<1>1. Typed /\ Shape /\ stack # <<>> /\ Top.kind = "lang"
  BY DEF IInv, At
<1>2. stack \in Seq(Frame) /\ Len(stack) <= MaxDepth /\ t \in Variables /\ Shaped(stack)
  BY <1>1 DEF Typed, Shape
<1>3. Len(stack) \in Nat /\ Len(stack) >= 1 /\ Top \in Frame
  BY <1>1, <1>2, Popped DEF Top
<1>4. Top.verb \in Verbs /\ Top.i \in Nat \ {0} /\ Top.d \in {-2, -1, 0}
  BY <1>1, <1>3 DEF Frame
<1> QED
  BY <1>1, <1>2, <1>3, <1>4 DEF Depth


(* A step of the call at the head, which goes on.                          *)
LEMMA HeadKeeps ==
  ASSUME NEW f, IInv, stack # <<>>, game' = game, word' = word, acts' = acts, ended' = ended,
         f \in Frame, f.kind = Top.kind,
         f.kind = "lang" => f.call = Top.call,
         f.kind = "tt" => f.base = Top.base /\ f.from = Top.from,
         stack' = <<f>> \o Below, t' \in Variables, Fits(t', stack, 2),
         pc' \in {"syntax", "line", "tail", "scan"},
         pc' = "scan" <=> f.kind = "tt",
         pc' # "tail" => ~t'.exeunt,
         ended # 0 => /\ ended = Depth /\ f.kind = "lang" /\ f.d = 0
                      /\ (pc' = "line" /\ t'.donet > t'.ml) \/ pc' = "tail"
  PROVE  IInv'
<1>0. Verbs' = Verbs /\ Name' = Name /\ Variables' = Variables /\ Frame' = Frame
  BY Same
<1>1. /\ Typed /\ Shape /\ game \in Games /\ word \in Name /\ acts \in BOOLEAN /\ ended \in 0..MaxDepth
      /\ Len(stack) <= MaxDepth
  BY DEF IInv, Typed
<1>2. /\ stack' \in Seq(Frame) /\ Len(stack') = Len(stack) /\ Shaped(stack')
      /\ stack' # <<>> /\ Head(stack') = f
  BY <1>1, Replaced
<1>3. f.kind = "lang" \/ f.kind = "tt"
  BY DEF Frame
<1>4. Typed'
  BY <1>0, <1>1, <1>2 DEF Typed
<1>5. At'
  BY <1>2, <1>3 DEF At, Top
<1>6. Found' /\ Shape'
  BY <1>2 DEF Found, Shape
<1>7. Bounds'
  BY <1>2 DEF Bounds, Fits
<1>8. Ended'
  <2>1. ended # 0 => Depth' = Depth
    BY <1>2 DEF Depth, Top
  <2> QED
    BY <1>2, <2>1 DEF Ended, Top
<1> QED
  BY <1>4, <1>5, <1>6, <1>7, <1>8 DEF IInv

LEMMA Whole ==
  ASSUME Typed, stack # <<>>
  PROVE  stack = <<Top>> \o Below
<1>1. stack \in Seq(Frame)
  BY DEF Typed
<1>2. PICK F : F = Frame
  OBVIOUS
<1>3. stack \in Seq(F)
  BY <1>1, <1>2
<1> QED
  BY <1>3, EmptySeq DEF Top, Below

LEMMA SyntaxKeeps ==
  ASSUME IInv, Syntax
  PROVE  IInv'
<1> USE Limits
<1>1. /\ Typed /\ Shape /\ stack # <<>> /\ Top \in Frame /\ Top.kind = "lang" /\ Top.verb \in Verbs
      /\ Top.i \in Nat /\ Top.i >= 1 /\ t \in Variables /\ Len(stack) \in Nat /\ Len(stack) >= 1
      /\ Len(stack) <= MaxDepth /\ pc = "syntax"
  BY InLang DEF Syntax
<1>2. /\ game' = game /\ word' = word /\ acts' = acts /\ ended' = ended /\ ended = 0 /\ ~t.exeunt
      /\ Fits(t, stack, 2)
  BY <1>1 DEF Syntax, IInv, Ended, At, Bounds
<1>3. CASE pc' = "tail" /\ UNCHANGED <<t, stack>>
  <2>1. stack' = <<Top>> \o Below
    BY <1>1, <1>3, Whole
  <2>2. t' \in Variables /\ Fits(t', stack, 2)
    BY <1>1, <1>2, <1>3 DEF Fits
  <2> QED
    BY <1>1, <1>2, <1>3, <2>1, <2>2, HeadKeeps
<1>4. CASE /\ Top.i <= Len(game.verbs[Top.verb].syntaxes)
           /\ t' = [t EXCEPT !.donet = 0, !.ml = Len(game.verbs[Top.verb].syntaxes[Top.i])]
           /\ \/ pc' = "line" /\ stack' = <<[Top EXCEPT !.d = -1, !.last = TRUE]>> \o Below
              \/ pc' = "syntax" /\ stack' = <<[Top EXCEPT !.i = @ + 1]>> \o Below
  <2>1. Len(game.verbs[Top.verb].syntaxes[Top.i]) \in 0..MaxLines
    BY <1>1, <1>4, VerbSyntax
  <2>2. PICK k : k = Len(game.verbs[Top.verb].syntaxes[Top.i])
    OBVIOUS
  <2>3. k \in -1..MaxLines /\ 0 \in 0..(MaxLines + MaxDepth + 2)
    <3>1. k \in 0..MaxLines
      BY <2>1, <2>2
    <3> QED
      BY <3>1
  <2>31. t' = [t EXCEPT !.donet = 0, !.ml = k]
    BY <1>4, <2>2
  <2>4. t' \in Variables /\ t'.donet = 0 /\ t'.exeunt = t.exeunt
    BY <1>1, <2>3, <2>31 DEF Variables
  <2>5. Fits(t', stack, 2)
    BY <1>1, <2>4 DEF Fits
  <2>6. CASE pc' = "line" /\ stack' = <<[Top EXCEPT !.d = -1, !.last = TRUE]>> \o Below
    <3> DEFINE f == [Top EXCEPT !.d = -1, !.last = TRUE]
    <3>1. f \in Frame /\ f.kind = "lang" /\ f.call = Top.call
      BY <1>1 DEF Frame
    <3>2. stack' = <<f>> \o Below
      BY <2>6
    <3> HIDE DEF f
    <3> QED
      BY <1>1, <1>2, <2>4, <2>5, <2>6, <3>1, <3>2, HeadKeeps
  <2>7. CASE pc' = "syntax" /\ stack' = <<[Top EXCEPT !.i = @ + 1]>> \o Below
    <3> DEFINE f == [Top EXCEPT !.i = Top.i + 1]
    <3>1. Top.i + 1 \in Nat \ {0}
      BY <1>1
    <3>2. f \in Frame /\ f.kind = "lang" /\ f.call = Top.call
      BY <1>1, <3>1 DEF Frame
    <3>3. stack' = <<f>> \o Below
      BY <2>7
    <3> HIDE DEF f
    <3> QED
      BY <1>1, <1>2, <2>4, <2>5, <2>7, <3>2, <3>3, HeadKeeps
  <2> QED
    BY <1>4, <2>6, <2>7
<1> QED
  BY <1>3, <1>4 DEF Syntax

(* LeaveLines, on the calls under way but for what the head remembers.     *)
LEMMA LeaveLinesKeeps ==
  ASSUME NEW f, IInv, stack # <<>>, game' = game, word' = word, acts' = acts, ended' = ended, t' = t,
         f \in Frame, f.kind = "lang", Top.kind = "lang", f.call = Top.call, Fits(t, stack, 2),
         ended # 0 => ended = Depth /\ f.d = 0 /\ (t.failed \/ t.exeunt \/ t.donet > t.ml),
         LeaveLines(<<f>> \o Below)
  PROVE  IInv'
<1>1. Typed /\ Shape /\ t \in Variables /\ t' \in Variables /\ Fits(t', stack, 2)
  BY DEF IInv, Typed, Fits
<1> DEFINE s == <<f>> \o Below
<1>2. s \in Seq(Frame) /\ s # <<>> /\ Head(s) = f /\ Tail(s) = Below
  <2>1. s \in Seq(Frame) /\ s # <<>> /\ Head(s) = f
    BY <1>1, Replaced
  <2>2. Below \in Seq(Frame)
    BY <1>1, Popped DEF Typed, Below
  <2>3. Tail(s) = Below
    <3>1. PICK F, b : F = Frame /\ b = Below
      OBVIOUS
    <3>2. b \in Seq(F) /\ f \in F
      BY <2>2, <3>1
    <3>3. Tail(<<f>> \o b) = b
      BY <3>2
    <3> QED
      BY <3>1, <3>3
  <2> QED
    BY <2>1, <2>3
<1>3. CASE pc' = "tail" /\ stack' = s
  BY <1>1, <1>3, HeadKeeps
<1>4. CASE ~(t.failed \/ t.exeunt \/ t.donet > t.ml)
  <2> DEFINE g == [f EXCEPT !.i = f.i + 1]
  <2>1. pc' = "syntax" /\ stack' = <<g>> \o Below
    BY <1>2, <1>4 DEF LeaveLines
  <2>2. f.i \in Nat \ {0}
    BY DEF Frame
  <2>3. f.i + 1 \in Nat \ {0}
    BY <2>2
  <2>4. g \in Frame /\ g.kind = "lang" /\ g.call = Top.call
    BY <2>3 DEF Frame
  <2> HIDE DEF g
  <2> QED
    BY <1>1, <1>4, <2>1, <2>4, HeadKeeps
<1> QED
  BY <1>3, <1>4 DEF LeaveLines


LEMMA StrayKeeps ==
  ASSUME IInv, Astray \/ Overrun
  PROVE  IInv'
<1>1. Typed /\ t \in Variables /\ t.donet < t.ml /\ pc \in {"line", "scan"}
  BY DEF IInv, Typed, Astray, Overrun
<1>2. ended = 0
  <2>1. t.donet \in Int /\ t.ml \in Int
    BY <1>1 DEF Variables
  <2> QED
    BY <1>1, <2>1 DEF IInv, Ended
<1>3. /\ game' = game /\ word' = word /\ acts' = acts /\ ended' = 0 /\ stack' = stack /\ t' \in Variables
      /\ pc' \in {"crash", "stray"}
  BY <1>1, <1>2, Same DEF Astray, Overrun
<1> QED
  BY <1>1, <1>2, <1>3, QuietKeeps

(* A line that is neither out of lang_proc nor past the end.               *)
LEMMA InLine ==
  ASSUME IInv, pc = "line", t.donet < t.ml, HasLine
  PROVE  /\ Lines[t.donet + 1] \in LineSet(game) /\ ended = 0 /\ t.exeunt = FALSE
         /\ t.donet \in Nat /\ t.ml \in 1..MaxLines
<1> USE Limits
<1>1. /\ Typed /\ Top.kind = "lang" /\ Top.i \in Nat /\ Top.i >= 1 /\ t \in Variables
  BY InLang
<1>2. t.donet \in Nat /\ t.ml \in -1..MaxLines /\ t.vb \in Name /\ t.exeunt \in BOOLEAN
  BY <1>1 DEF Variables
<1>3. t.ml \in 1..MaxLines
  BY <1>2
<1>4. ended = 0 /\ t.exeunt = FALSE
  BY <1>2 DEF IInv, Ended, At
<1>5. t.vb \in Verbs
  BY <1>2 DEF HasLine, Name
<1>6. Lines \in Seq(LineSet(game))
  <2>1. WellFormed(game)
    BY <1>1, GamesAssumption DEF Typed
  <2>2. game.verbs[t.vb].syntaxes \in Seq(Seq(LineSet(game)))
    BY <1>5, <2>1 DEF WellFormed, Verbs
  <2>3. Top.i \in DOMAIN game.verbs[t.vb].syntaxes =>
          game.verbs[t.vb].syntaxes[Top.i] \in Seq(LineSet(game))
    BY <2>2
  <2> QED
    BY <2>3 DEF Lines
<1>7. Lines[t.donet + 1] \in LineSet(game)
  BY <1>6 DEF HasLine
<1> QED
  BY <1>2, <1>3, <1>4, <1>7

(* The next line.                                                          *)
LEMMA AdvancedType ==
  ASSUME NEW th \in Variables, th.donet <= MaxLines + MaxDepth
  PROVE  /\ Advanced(th) \in Variables /\ Advanced(th).donet = th.donet + 1 /\ Advanced(th).ml = th.ml
         /\ Advanced(th).exeunt = th.exeunt /\ Advanced(th).inc = th.inc /\ Advanced(th).skip = th.skip
         /\ Advanced(th).room = th.room /\ Advanced(th).failed = th.failed
<1> USE Limits
<1>1. PICK k : k = th.donet + 1
  OBVIOUS
<1>2. th.donet \in Nat
  BY DEF Variables
<1>3. k \in 0..(MaxLines + MaxDepth + 2)
  BY <1>1, <1>2
<1>4. Advanced(th) = [th EXCEPT !.donet = k]
  BY <1>1 DEF Advanced
<1> QED
  BY <1>1, <1>3, <1>4 DEF Variables

LEMMA SkipLineKeeps ==
  ASSUME IInv, SkipLine
  PROVE  IInv'
<1> USE Limits
<1>1. /\ pc = "line" /\ t.donet < t.ml /\ HasLine /\ t.skip # 0 /\ t' = Advanced([t EXCEPT !.skip = @ - 1])
      /\ game' = game /\ pc' = pc /\ word' = word /\ stack' = stack /\ acts' = acts /\ ended' = ended
  BY DEF SkipLine
<1>2. /\ Typed /\ stack # <<>> /\ Top \in Frame /\ Top.kind = "lang" /\ t \in Variables
      /\ Len(stack) \in Nat /\ Len(stack) <= MaxDepth
  BY <1>1, InLang
<1>3. ended = 0 /\ t.exeunt = FALSE /\ t.donet \in Nat /\ t.ml \in 1..MaxLines
  BY <1>1, InLine
<1> DEFINE u == [t EXCEPT !.skip = t.skip - 1]
<1>4. u \in Variables /\ u.donet = t.donet /\ u.exeunt = FALSE
  <2>1. t.skip \in 0..MaxSkip
    BY <1>2 DEF Variables
  <2>2. t.skip - 1 \in 0..MaxSkip
    BY <1>1, <2>1
  <2> QED
    BY <1>2, <1>3, <2>2 DEF Variables
<1>5. t' = Advanced(u)
  BY <1>1
<1> HIDE DEF u
<1>6. u.donet <= MaxLines + MaxDepth
  BY <1>1, <1>3, <1>4
<1>7. t' \in Variables /\ t'.donet = t.donet + 1 /\ t'.exeunt = FALSE
  BY <1>4, <1>5, <1>6, AdvancedType
<1>8. Fits(t', stack, 2)
  BY <1>1, <1>2, <1>3, <1>7 DEF Fits
<1>9. stack' = <<Top>> \o Below
  BY <1>1, <1>2, Whole
<1> QED
  BY <1>1, <1>2, <1>3, <1>7, <1>8, <1>9, HeadKeeps

LEMMA LineKeeps ==
  ASSUME IInv, Line
  PROVE  IInv'
<1> USE Limits
<1>1. /\ pc = "line" /\ t.donet < t.ml /\ HasLine /\ t.skip = 0 /\ game' = game /\ word' = word
  BY DEF Line
<1>2. /\ Typed /\ Shape /\ stack # <<>> /\ Top \in Frame /\ Top.kind = "lang" /\ t \in Variables
      /\ Len(stack) \in Nat /\ Len(stack) <= MaxDepth
  BY <1>1, InLang
<1>3. /\ Lines[t.donet + 1] \in LineSet(game) /\ ended = 0 /\ t.exeunt = FALSE
      /\ t.donet \in Nat /\ t.ml \in 1..MaxLines
  BY <1>1, InLine
<1>4. PICK l : l = Lines[t.donet + 1]
  OBVIOUS
<1>5. PICK result \in cond(l, Top.last) :
        LET s == <<[Top EXCEPT !.last = result]>> \o Below
        IN  \/ /\ result
               /\ executeAction(l, s, [t EXCEPT !.inc = 1])
            \/ /\ ~result
               /\ t' = Advanced(t) /\ stack' = s /\ UNCHANGED <<pc, acts, ended>>
  BY <1>4 DEF Line
<1> DEFINE f == [Top EXCEPT !.last = result]
<1>6. f \in Frame /\ f.kind = "lang" /\ f.call = Top.call
  <2>1. result \in BOOLEAN
    BY DEF cond
  <2> QED
    BY <1>2, <2>1 DEF Frame
<1>7. CASE executeAction(l, <<f>> \o Below, [t EXCEPT !.inc = 1])
  <2> DEFINE th == [t EXCEPT !.inc = 1]
             s == <<f>> \o Below
  <2>1. /\ th \in Variables /\ th.inc = 1 /\ th.exeunt = FALSE /\ th.skip = 0 /\ th.donet <= th.ml
        /\ th.ml >= 1
    BY <1>1, <1>2, <1>3 DEF Variables
  <2> HIDE DEF f
  <2>2. SameCalls(s)
    <3>1. s \in Seq(Frame) /\ Len(s) = Len(stack) /\ Shaped(s) /\ s # <<>> /\ Head(s) = f
      BY <1>2, <1>6, Replaced
    <3> QED
      BY <1>2, <1>6, <3>1 DEF SameCalls
  <2>3. executeAction(l, s, th)
    BY <1>7
  <2> HIDE DEF th, s
  <2> QED
    BY <1>1, <1>2, <1>3, <1>4, <2>1, <2>2, <2>3, ExecuteKeeps
<1>8. CASE t' = Advanced(t) /\ stack' = <<f>> \o Below /\ UNCHANGED <<pc, acts, ended>>
  <2> HIDE DEF f
  <2>1. t.donet <= MaxLines + MaxDepth
    BY <1>1, <1>3
  <2>2. t' \in Variables /\ t'.donet = t.donet + 1 /\ t'.exeunt = FALSE
    BY <1>2, <1>3, <1>8, <2>1, AdvancedType
  <2>3. Fits(t', stack, 2)
    BY <1>1, <1>2, <1>3, <2>2 DEF Fits
  <2> QED
    BY <1>1, <1>2, <1>3, <1>6, <1>8, <2>2, <2>3, HeadKeeps
<1> QED
  BY <1>5, <1>7, <1>8


LEMMA LinesDoneKeeps ==
  ASSUME IInv, LinesDone
  PROVE  IInv'
<1>1. /\ pc = "line" /\ LeaveLines(stack) /\ game' = game /\ t' = t /\ word' = word /\ acts' = acts
      /\ ended' = ended
  BY DEF LinesDone
<1>2. Typed /\ stack # <<>> /\ Top \in Frame /\ Top.kind = "lang"
  BY <1>1, InLang
<1>3. Fits(t, stack, 2) /\ (ended # 0 => ended = Depth /\ Top.d = 0 /\ t.donet > t.ml)
  BY <1>1 DEF IInv, Bounds, Ended
<1>4. LeaveLines(<<Top>> \o Below)
  BY <1>1, <1>2, Whole
<1> QED
  BY <1>1, <1>2, <1>3, <1>4, LeaveLinesKeeps

LEMMA DidKeeps ==
  ASSUME IInv, Did
  PROVE  IInv'
<1> USE Limits
<1>1. /\ pc = "did" /\ Top.kind = "lang" /\ game' = game /\ word' = word /\ acts' = acts /\ ended' = ended
  BY DEF Did
<1>2. /\ Typed /\ stack # <<>> /\ Top \in Frame /\ t \in Variables /\ Len(stack) \in Nat /\ Len(stack) >= 1
      /\ Len(stack) <= MaxDepth
  BY <1>1, InLang
<1>3. /\ Fits(t, stack, 1)
      /\ ended # 0 => /\ ended = Depth /\ t.inc = 1
                      /\ t.failed \/ t.exeunt \/ (t.ml >= 0 /\ t.donet >= t.ml)
  BY <1>1 DEF IInv, Bounds, Ended, Stops
<1>4. t.donet \in Nat /\ t.ml \in Int /\ t.donet + Len(stack) <= MaxLines + MaxDepth + 1
  BY <1>2, <1>3 DEF Fits, Variables
<1>5. Fits(t, stack, 2)
  BY <1>2, <1>4 DEF Fits
<1> DEFINE f == [Top EXCEPT !.d = IF t.inc = 1 THEN 0 ELSE @]
<1>6. f \in Frame /\ f.kind = "lang" /\ f.call = Top.call /\ (t.inc = 1 => f.d = 0)
  BY <1>1, <1>2 DEF Frame
<1>7. \/ (t.ml < 0 \/ t.failed \/ t.exeunt) /\ LeaveLines(<<f>> \o Below) /\ t' = t
      \/ /\ ~(t.ml < 0 \/ t.failed \/ t.exeunt)
         /\ pc' = "line" /\ stack' = <<f>> \o Below /\ t' = Advanced(t)
  BY DEF Did
<1> HIDE DEF f
<1>8. CASE (t.ml < 0 \/ t.failed \/ t.exeunt) /\ LeaveLines(<<f>> \o Below) /\ t' = t
  <2>1. ended # 0 => ended = Depth /\ f.d = 0 /\ (t.failed \/ t.exeunt \/ t.donet > t.ml)
    BY <1>3, <1>4, <1>6, <1>8
  <2> QED
    BY <1>1, <1>2, <1>5, <1>6, <1>8, <2>1, LeaveLinesKeeps
<1>9. CASE /\ ~(t.ml < 0 \/ t.failed \/ t.exeunt)
           /\ pc' = "line" /\ stack' = <<f>> \o Below /\ t' = Advanced(t)
  <2>1. t.donet <= MaxLines + MaxDepth
    BY <1>2, <1>4
  <2>2. t' \in Variables /\ t'.donet = t.donet + 1 /\ t'.ml = t.ml /\ t'.exeunt = t.exeunt
    BY <1>2, <1>9, <2>1, AdvancedType
  <2>3. Fits(t', stack, 2)
    BY <1>2, <1>4, <2>2 DEF Fits
  <2>4. ended # 0 => ended = Depth /\ f.d = 0 /\ t'.donet > t'.ml
    BY <1>3, <1>4, <1>6, <1>9, <2>2
  <2> QED
    BY <1>1, <1>2, <1>6, <1>9, <2>2, <2>3, <2>4, HeadKeeps
<1> QED
  BY <1>7, <1>8, <1>9

LEMMA TailOfKeeps ==
  ASSUME IInv, TailOf
  PROVE  IInv'
<1> USE Limits
<1>1. pc = "tail" /\ game' = game /\ word' = word /\ acts' = acts
  BY DEF TailOf
<1>2. /\ Typed /\ Shape /\ stack # <<>> /\ Top \in Frame /\ Top.kind = "lang" /\ Top.verb \in Verbs
      /\ Top.d \in {-2, -1, 0} /\ t \in Variables /\ Depth = Len(stack) /\ Len(stack) \in Nat
      /\ Len(stack) <= MaxDepth /\ stack \in Seq(Frame) /\ Shaped(stack)
  BY <1>1, InLang
<1>3. /\ game \in Games /\ word \in Name /\ acts' \in BOOLEAN /\ ended \in 0..MaxDepth
      /\ Fits(t, stack, 2) /\ (ended # 0 => ended = Depth /\ Top.d = 0)
  BY <1>1 DEF IInv, Typed, Bounds, Ended
<1>4. Leaves(stack) /\ Head(stack).kind = "lang"
  BY <1>2, <1>3 DEF Leaves, Top
<1>5. CASE LangReturns(stack, TRUE, t)
  BY <1>1, <1>2, <1>3, <1>4, <1>5, LangReturnsKeeps
<1>6. CASE Top.d < 0 /\ pc' = "stray" /\ UNCHANGED <<t, stack, ended>>
  <2>1. ended = 0 /\ ended' = 0 /\ t' \in Variables
    BY <1>1, <1>2, <1>3, <1>6, Same
  <2> QED
    BY <1>1, <1>6, <2>1, QuietKeeps
<1>7. ASSUME Top.d < 0, t.iverb # NoVerb,
             LET th == [t EXCEPT !.vb = t.iverb]
             IN  IF game.verbs[t.iverb].travel
                 THEN ttproc("tail", t.iverb, [th EXCEPT !.iverb = Top.verb], stack)
                 ELSE LangReturns(stack, FALSE, th)
      PROVE  IInv'
  <2> DEFINE th == [t EXCEPT !.vb = t.iverb]
             u == [th EXCEPT !.iverb = Top.verb]
  <2>1. \/ ttproc("tail", t.iverb, u, stack)
        \/ LangReturns(stack, FALSE, th)
    BY <1>7
  <2>2. ended = 0 /\ t.iverb \in Name
    BY <1>2, <1>3, <1>7 DEF Variables
  <2>3. th \in Variables /\ th.donet = t.donet
    BY <1>2, <2>2 DEF Variables
  <2>4. u \in Variables
    BY <1>2, <2>3 DEF Variables, Name
  <2> HIDE DEF th, u
  <2>5. Fits(th, stack, 2)
    BY <1>3, <2>3 DEF Fits
  <2>6. SameCalls(stack)
    BY <1>2 DEF SameCalls, Top
  <2>7. CASE ttproc("tail", t.iverb, u, stack)
    BY <1>1, <1>2, <1>3, <2>2, <2>4, <2>6, <2>7, TtprocKeeps
  <2>8. CASE LangReturns(stack, FALSE, th)
    BY <1>1, <1>2, <1>3, <1>4, <2>3, <2>5, <2>8, LangReturnsKeeps
  <2> QED
    BY <2>1, <2>7, <2>8
<1> QED
  BY <1>5, <1>6, <1>7 DEF TailOf

------------------------------------------------------------------------------
(* The steps of ttproc.                                                    *)

LEMMA InTravel ==
  ASSUME IInv, pc = "scan" \/ (pc = "did" /\ Top.kind = "tt")
  PROVE  /\ Typed /\ Shape /\ stack # <<>> /\ Top \in Frame /\ Top.kind = "tt"
         /\ Top.room \in DOMAIN game.rooms /\ t \in Variables /\ t.donet \in Nat /\ t.ml \in -1..MaxLines
         /\ t.exeunt \in BOOLEAN
         /\ Len(stack) \in Nat /\ Len(stack) >= 1 /\ Len(stack) <= MaxDepth
         /\ stack \in Seq(Frame) /\ Shaped(stack)
<1>1. Typed /\ Shape /\ stack # <<>> /\ Top.kind = "tt"
  BY DEF IInv, At
<1>2. stack \in Seq(Frame) /\ Len(stack) <= MaxDepth /\ t \in Variables /\ Shaped(stack)
  BY <1>1 DEF Typed, Shape
<1>3. Len(stack) \in Nat /\ Len(stack) >= 1 /\ Top \in Frame
  BY <1>1, <1>2, Popped DEF Top
<1>4. Top.room \in DOMAIN game.rooms
  BY <1>1, <1>3 DEF Frame
<1>5. t.donet \in Nat /\ t.ml \in -1..MaxLines /\ t.exeunt \in BOOLEAN
  BY <1>2 DEF Variables
<1> QED
  BY <1>1, <1>2, <1>3, <1>4, <1>5

LEMMA ScanKeeps ==
  ASSUME IInv, Scan
  PROVE  IInv'
<1> USE Limits
<1>1. /\ pc = "scan" /\ t.donet < t.ml /\ HasEntry /\ game' = game /\ word' = word
  BY DEF Scan
<1>2. /\ Typed /\ Shape /\ stack # <<>> /\ Top \in Frame /\ Top.kind = "tt"
      /\ Top.room \in DOMAIN game.rooms /\ t \in Variables /\ t.donet \in Nat /\ t.ml \in -1..MaxLines
      /\ t.exeunt \in BOOLEAN /\ Len(stack) \in Nat /\ Len(stack) <= MaxDepth
      /\ stack \in Seq(Frame) /\ Shaped(stack)
  BY <1>1, InTravel
<1>3. ended = 0 /\ t.exeunt = FALSE /\ t.ml >= 1 /\ t.ml <= MaxLines /\ t.donet <= MaxLines + MaxDepth
  BY <1>1, <1>2 DEF IInv, Ended, At
<1>4. PICK entry : entry = Table[t.donet + 1]
  OBVIOUS
<1>5. entry.line \in LineSet(game)
  <2>1. Table \in Seq([verb : Verbs, line : LineSet(game)])
    BY <1>2, RoomTable DEF Table
  <2>2. Table[t.donet + 1] \in [verb : Verbs, line : LineSet(game)]
    <3>1. PICK R : R = [verb : Verbs, line : LineSet(game)]
      OBVIOUS
    <3>2. Table \in Seq(R) /\ t.donet + 1 \in DOMAIN Table
      BY <1>1, <2>1, <3>1 DEF HasEntry
    <3>3. Table[t.donet + 1] \in R
      BY <3>2
    <3> QED
      BY <3>1, <3>3
  <2> QED
    BY <1>4, <2>2
<1>6. PICK th : th = Advanced(t)
  OBVIOUS
<1>7. /\ th \in Variables /\ th.donet = t.donet + 1 /\ th.ml = t.ml /\ th.exeunt = FALSE
      /\ th.skip = t.skip
  BY <1>2, <1>3, <1>6, AdvancedType
<1>8. Fits(th, stack, 2)
  BY <1>1, <1>2, <1>3, <1>7 DEF Fits
<1>9. \/ /\ t' = th \/ (t.skip # 0 /\ t' = [th EXCEPT !.skip = @ - 1])
         /\ UNCHANGED <<pc, stack, acts, ended>>
      \/ /\ t.skip = 0
         /\ executeAction(entry.line, stack, [th EXCEPT !.inc = 1])
  BY <1>4, <1>6 DEF Scan
<1>10. CASE /\ t' = th \/ (t.skip # 0 /\ t' = [th EXCEPT !.skip = @ - 1])
            /\ UNCHANGED <<pc, stack, acts, ended>>
  <2>1. t' \in Variables /\ t'.donet = th.donet /\ t'.exeunt = FALSE
    <3>1. t.skip \in 0..MaxSkip
      BY <1>2 DEF Variables
    <3>2. t.skip # 0 => t.skip - 1 \in 0..MaxSkip
      BY <3>1
    <3> QED
      BY <1>7, <1>10, <3>2 DEF Variables
  <2>2. Fits(t', stack, 2)
    BY <1>8, <2>1 DEF Fits
  <2>3. stack' = <<Top>> \o Below
    BY <1>2, <1>10, Whole
  <2> QED
    BY <1>1, <1>2, <1>3, <1>10, <2>1, <2>2, <2>3, HeadKeeps
<1>11. CASE t.skip = 0 /\ executeAction(entry.line, stack, [th EXCEPT !.inc = 1])
  <2> DEFINE u == [th EXCEPT !.inc = 1]
  <2>1. /\ u \in Variables /\ u.inc = 1 /\ u.exeunt = FALSE /\ u.skip = 0 /\ u.donet = t.donet + 1
        /\ u.ml = t.ml
    BY <1>7, <1>11 DEF Variables
  <2>2. executeAction(entry.line, stack, u)
    BY <1>11
  <2> HIDE DEF u
  <2>3. u.donet <= u.ml /\ u.ml >= 1
    BY <1>1, <1>2, <1>3, <2>1
  <2>4. SameCalls(stack)
    BY <1>2 DEF SameCalls, Top
  <2> QED
    BY <1>1, <1>2, <1>3, <1>5, <2>1, <2>2, <2>3, <2>4, ExecuteKeeps
<1> QED
  BY <1>9, <1>10, <1>11

LEMMA NoMatchKeeps ==
  ASSUME IInv, NoMatch
  PROVE  IInv'
<1> USE Limits
<1> DEFINE u == [t EXCEPT !.skip = 0]
           zero == Table[1].line.cond = "spell" \/ Top.dun = 0
<1>1. pc = "scan" /\ game' = game /\ word' = word /\ acts' = acts /\ TravelReturns(zero, u)
  BY DEF NoMatch
<1>2. Typed /\ Shape /\ stack # <<>> /\ Top.kind = "tt" /\ t \in Variables
  BY <1>1, InTravel
<1>3. ended = 0 /\ acts' \in BOOLEAN /\ Fits(t, stack, 2)
  BY <1>1 DEF IInv, Typed, Ended, Bounds
<1>4. u \in Variables /\ u.donet = t.donet
  BY <1>2 DEF Variables
<1> HIDE DEF u, zero
<1>5. Fits(u, stack, 2)
  BY <1>3, <1>4 DEF Fits
<1> QED
  BY <1>1, <1>2, <1>3, <1>4, <1>5, TravelReturnsKeeps

LEMMA DidTravelKeeps ==
  ASSUME IInv, DidTravel
  PROVE  IInv'
<1> USE Limits
<1>1. pc = "did" /\ Top.kind = "tt" /\ game' = game /\ word' = word /\ acts' = acts
  BY DEF DidTravel
<1>2. /\ Typed /\ Shape /\ stack # <<>> /\ Top \in Frame /\ t \in Variables /\ t.donet \in Nat
      /\ t.ml \in -1..MaxLines /\ t.exeunt \in BOOLEAN /\ Len(stack) \in Nat /\ Len(stack) <= MaxDepth
  BY <1>1, InTravel
<1>3. /\ Fits(t, stack, 1) /\ acts' \in BOOLEAN
      /\ ended # 0 => ended = Depth /\ t.inc = 1 /\ (t.exeunt \/ t.donet >= t.ml)
  BY <1>1 DEF IInv, Typed, Ended, Bounds, Stops
<1>4. Fits(t, stack, 2)
  BY <1>2, <1>3 DEF Fits
<1>5. CASE t.donet < t.ml /\ ~t.exeunt
  <2> DEFINE f == [Top EXCEPT !.dun = IF t.inc = 1 THEN 0 ELSE @]
  <2>1. pc' = "scan" /\ t' = t /\ ended' = ended /\ stack' = <<f>> \o Below
    BY <1>1, <1>5 DEF DidTravel
  <2>2. f \in Frame /\ f.kind = "tt" /\ f.base = Top.base /\ f.from = Top.from
    BY <1>1, <1>2 DEF Frame
  <2> HIDE DEF f
  <2>3. ended = 0
    BY <1>2, <1>3, <1>5
  <2>4. t' \in Variables /\ Fits(t', stack, 2)
    BY <1>2, <1>4, <2>1, Same, <1>1
  <2> QED
    BY <1>1, <1>2, <1>5, <2>1, <2>2, <2>3, <2>4, HeadKeeps
<1>6. CASE ~(t.donet < t.ml /\ ~t.exeunt)
  <2>1. TravelReturns(TRUE, t)
    BY <1>6 DEF DidTravel
  <2> QED
    BY <1>1, <1>2, <1>3, <1>4, <2>1, TravelReturnsKeeps
<1> QED
  BY <1>5, <1>6

------------------------------------------------------------------------------
(* The theorems.                                                           *)

LEMMA StepKeeps == IInv /\ [Next]_vars => IInv'
<1> SUFFICES ASSUME IInv, [Next]_vars
             PROVE  IInv'
  OBVIOUS
<1>1. CASE UNCHANGED vars
  <2>1. Name' = Name /\ Variables' = Variables /\ Frame' = Frame
    BY <1>1, Same DEF vars
  <2>2. game' = game /\ pc' = pc /\ t' = t /\ word' = word /\ stack' = stack /\ acts' = acts /\ ended' = ended
    BY <1>1 DEF vars
  <2>3. Typed'
    BY <2>1, <2>2 DEF IInv, Typed
  <2>4. Shape' /\ At' /\ Found' /\ Bounds'
    BY <2>1, <2>2, Same DEF IInv, Shape, At, Top, Found, Verbs, Bounds, Fits
  <2>5. Ended'
    BY <2>2 DEF IInv, Ended, Stops, Depth, Top
  <2> QED
    BY <2>3, <2>4, <2>5 DEF IInv
<1> QED
  BY <1>1, BootKeeps, RefusedKeeps, parseSpeechKeeps, parserKeeps, GrammarKeeps, SyntaxKeeps, StrayKeeps,
     SkipLineKeeps, LineKeeps, LinesDoneKeeps, DidKeeps, TailOfKeeps, ScanKeeps, NoMatchKeeps,
     DidTravelKeeps DEF Next, Step

LEMMA Invariance == Spec => []IInv
<1>1. Spec => Init /\ [][Next]_vars
  BY PTL DEF Spec
<1> QED
  BY <1>1, InitHolds, StepKeeps, PTL

(* The thread's variables keep within what the game's lines can make them: *)
(* no skip adds up, and donet grows by one for each verb that was started. *)
THEOREM InterpreterTypes == Spec => []TypeOK
<1>1. IInv => TypeOK
  <2> SUFFICES ASSUME IInv
               PROVE  TypeOK
    OBVIOUS
  <2>1. Typed /\ t \in Variables /\ stack \in Seq(Frame)
    BY DEF IInv, Typed
  <2>2. Len(stack) \in 0..MaxDepth
    <3>1. Len(stack) \in Nat /\ Len(stack) <= MaxDepth
      BY <2>1 DEF Typed
    <3> QED
      BY <3>1, Limits
  <2> QED
    BY <2>1, <2>2 DEF Typed, Variables, Name, TypeOK
<1> QED
  BY <1>1, Invariance, PTL

(* What ends a parse ends it: no action is executed until the lang_proc it *)
(* ends has returned, though a travel table was under way in it, or a      *)
(* table in a table.                                                       *)
THEOREM EndsStickAlways == Spec => EndsStick
<1>1. IInv /\ [Next]_vars => [ended # 0 => acts' = acts]_vars
  <2> SUFFICES ASSUME IInv, Next, ended # 0
               PROVE  acts' = acts
    BY DEF vars
  <2>1. ASSUME Line
        PROVE  FALSE
    <3>1. pc = "line" /\ t.donet < t.ml /\ t \in Variables
      BY <2>1 DEF Line, IInv, Typed
    <3>2. t.donet \in Int /\ t.ml \in Int
      BY <3>1 DEF Variables
    <3> QED
      BY <3>1, <3>2 DEF IInv, Ended
  <2>2. ASSUME Scan
        PROVE  FALSE
    BY <2>2 DEF Scan, IInv, Ended
  <2> QED
    BY <2>1, <2>2 DEF Next, Step, Refused, parseSuperGo, parseSpeech, parser, Boot, Grammar, Syntax, Astray,
       SkipLine, LinesDone, Did, TailOf, Overrun, NoMatch, DidTravel
<1>2. Spec => [][Next]_vars
  BY PTL DEF Spec
<1> QED
  BY <1>1, <1>2, Invariance, PTL DEF EndsStick
================================================================================
