------------------------------ MODULE Interpreter ------------------------------
(***************************************************************************)
(* The command interpreter (amul.wholeoriginal.cpp): what a thread does    *)
(* with a command, from the prompt through parser, lang_proc and ttproc to *)
(* the actions of the game's language, with the thread's own variables     *)
(* through which these functions talk to each other.  The thread is a      *)
(* player's, or the demon thread, which runs the verb "boot once.          *)
(*                                                                         *)
(* A game is [verbs, rooms]: verbs a function from names to                *)
(* [travel, syntaxes], a syntax a sequence of lines [cond, not, op, arg],  *)
(* rooms the travel table of each room, a sequence of [verb, line].  Which *)
(* syntaxes fit what was typed, and what the world makes of a condition    *)
(* ("test"; "spell" is the one ttproc knows by name), of a move or of a    *)
(* check, is left open.  The op "reply" stands for all that touch only the *)
(* world.  Nothing forces a command on a player (DoThis is compiled out),  *)
(* so t_forced and died are only ever set with exeunt, and reset with it.  *)
(* The conditions ->, &> and else> are always, and and else: tt.condition, *)
(* which is to end the parse after them, is never set.                     *)
(***************************************************************************)
EXTENDS Integers, Sequences, FiniteSets

CONSTANTS
  Games,      \* the games that may be loaded
  NoVerb,     \* WNONE, and the null pointer vbptr
  MaxDepth,   \* frames a game nests: verbs started from verbs, and their travel tables
  MaxLines,   \* lines of the longest syntax or travel table of the games
  MaxSkip     \* lines their longest skip skips

Special == {"travel", "speech", "boot"}   \* written with a leading quote in lang.txt

Conditions == {"always", "and", "else", "test", "spell"}

\* What the compiler (amulcom.main.cpp) lets a line of game g be: a room, a number or a verb
\* for the actions that take one.
LineSet(g) ==
  LET line(ops, args) == [cond : Conditions, not : BOOLEAN, op : ops, arg : args]
  IN  line({"reply", "hurt", "check", "kill", "endparse", "failparse", "abortparse", "quit", "travel"}, {0})
        \cup line({"goto", "move"}, DOMAIN g.rooms) \cup line({"skip"}, 0..MaxSkip)
        \cup line({"treatas", "start"}, DOMAIN g.verbs)

WellFormed(g) ==
  /\ NoVerb \notin DOMAIN g.verbs
  /\ \A v \in DOMAIN g.verbs :
       /\ g.verbs[v].syntaxes \in Seq(Seq(LineSet(g)))
       /\ \A i \in DOMAIN g.verbs[v].syntaxes : Len(g.verbs[v].syntaxes[i]) <= MaxLines
  /\ \A r \in DOMAIN g.rooms :
       /\ g.rooms[r] \in Seq([verb : DOMAIN g.verbs, line : LineSet(g)])
       /\ Len(g.rooms[r]) <= MaxLines

ASSUME GamesAssumption ==
  MaxDepth \in Nat /\ MaxLines \in Nat /\ MaxSkip \in Nat /\ \A g \in Games : WellFormed(g)

VARIABLES
  game,
  pc,      \* "boot", "prompt", "grammar", "syntax", "line", "did", "tail", "scan",
           \* and "over", "off", "crash", "stray", in which nothing happens any more
  t,       \* the thread's variables: iverb, vb (vbptr), donet, ml, skip, inc, failed, exeunt, room
  word,    \* what parser found typed
  stack,   \* the calls of lang_proc and ttproc under way, the last at the head
  acts,    \* history: flips with every action executed
  ended    \* history: depth of the lang_proc whose parse an action has ended, or 0

vars == <<game, pc, t, word, stack, acts, ended>>

Verbs == DOMAIN game.verbs
Top == Head(stack)
Below == Tail(stack)

\* startThread has called AbortParse before the thread's own loop begins.
Init ==
  /\ game \in Games
  /\ pc \in {"boot", "prompt"}
  /\ t \in [iverb : {NoVerb}, vb : {NoVerb}, donet : {1}, ml : {0},
            skip : {0}, inc : {0}, failed : {FALSE}, exeunt : {FALSE}, room : DOMAIN game.rooms]
  /\ word = NoVerb /\ stack = <<>> /\ acts = FALSE /\ ended = 0

------------------------------------------------------------------------------
(* Calls and returns of lang_proc and ttproc.                              *)

\* lang_proc resets all but skip.
lang_proc(v, call, th, under) ==
  /\ Len(under) < MaxDepth
  /\ stack' = <<[kind |-> "lang", verb |-> v, i |-> 1, d |-> -2, last |-> TRUE, call |-> call,
                 saved |-> th.iverb]>> \o under
  /\ t' = [th EXCEPT !.exeunt = FALSE, !.failed = FALSE, !.donet = 0, !.ml = 0]
  /\ pc' = "syntax"

\* What MainLoop does next: the loop ends when the player is to leave.
Loop(th) == IF th.exeunt THEN "over" ELSE "prompt"

\* lang_proc, whose frame is at the head of s, returns done.
LangReturns(s, done, th) ==
  /\ stack' = Tail(s)
  /\ ended' = IF ended = Len(s) THEN 0 ELSE ended
  /\ t' = IF Head(s).call = "start" THEN [th EXCEPT !.iverb = Head(s).saved] ELSE th
  /\ pc' = CASE Head(s).call = "start" -> "did"
             [] Head(s).call = "boot" -> "off"
             [] Head(s).call = "intercept" /\ done -> "grammar"
             [] OTHER -> Loop(th)

\* Mutant: ATRAVEL carries on with its own lines whatever ttproc did.
CarryOn(zero, th) ==
  IF Top.from = "action"
  THEN /\ stack' = Below /\ pc' = "did" /\ ended' = ended
       /\ t' = [th EXCEPT !.donet = Top.donet, !.ml = Top.ml]
  ELSE LangReturns(Below, zero, IF zero THEN th ELSE [th EXCEPT !.iverb = Top.iverb])

\* ttproc returns zero or not: to ATRAVEL, or to the end of lang_proc.
TravelReturns(zero, th) ==
  IF Top.from = "action"
  THEN /\ stack' = Below /\ pc' = "did" /\ ended' = ended
       /\ t' = [th EXCEPT !.donet = IF zero THEN Top.ml ELSE Top.donet, !.ml = Top.ml]
  ELSE LangReturns(Below, zero, IF zero THEN th ELSE [th EXCEPT !.iverb = Top.iverb])

\* The depth of the lang_proc under way, be it inside ttproc.
Depth == IF Top.kind = "tt" THEN Top.base ELSE Len(stack)

\* ttproc, called on the calls s, resets skip as well.
ttproc(from, iverb, th, s) ==
  LET ready == [th EXCEPT !.exeunt = FALSE, !.donet = 0, !.skip = 0, !.failed = FALSE]
      table == game.rooms[th.room]
  IN  IF table = <<>>
      THEN IF from = "action"
           THEN /\ pc' = "did" /\ stack' = s /\ ended' = ended
                /\ t' = [ready EXCEPT !.donet = th.ml]
           ELSE LangReturns(s, TRUE, ready)
      ELSE /\ Len(s) < MaxDepth
           /\ stack' = <<[kind |-> "tt", dun |-> -1, room |-> th.room, from |-> from, base |-> Depth,
                          donet |-> th.donet, ml |-> th.ml, iverb |-> iverb]>> \o s
           /\ t' = [ready EXCEPT !.ml = Len(table)]
           /\ pc' = "scan" /\ ended' = ended

------------------------------------------------------------------------------
(* The ends of a parse, and the moves, which may end it as well.           *)

EndParse(th) == [th EXCEPT !.donet = th.ml + 1]
FailParse(th) == [EndParse(th) EXCEPT !.ml = -1, !.failed = TRUE]
Aborted(th) == EndParse([th EXCEPT !.iverb = NoVerb])

\* The player is to leave, too.
akillme(th) == [FailParse(th) EXCEPT !.exeunt = TRUE]

\* The look on arrival (look_here) kills in a room of death.
MovePlayerTo(r, th) == LET there == [th EXCEPT !.room = r] IN {there, akillme(there)}

\* A small room takes one player only: the others stay where they are.
ActionGoToRoom(r, th) == {th} \cup MovePlayerTo(r, th)

------------------------------------------------------------------------------
(* The prompt and the parser.                                              *)

Boot ==
  /\ pc = "boot"
  /\ \/ /\ "boot" \in Verbs
        /\ lang_proc("boot", "boot", t, <<>>)
     \/ /\ "boot" \notin Verbs
        /\ pc' = "off" /\ UNCHANGED <<t, stack>>
  /\ UNCHANGED <<game, word, acts, ended>>

\* AbortParse, with which every command begins; gloop and parseSentences reset failed.
Fresh == Aborted([t EXCEPT !.failed = FALSE, !.exeunt = FALSE, !.donet = -1, !.ml = 0])

\* Nothing typed, a number of words none of which is a verb, a verb while asleep.
Refused ==
  /\ pc = "prompt"
  /\ t' = Fresh
  /\ UNCHANGED <<game, pc, word, stack, acts, ended>>

\* *room, for those of the rank for it.
parseSuperGo ==
  /\ pc = "prompt"
  /\ \/ \E r \in DOMAIN game.rooms : t' \in MovePlayerTo(r, Fresh)
     \/ t' = FailParse(Fresh)
  /\ pc' = Loop(t')
  /\ UNCHANGED <<game, word, stack, acts, ended>>

parseSpeech ==
  /\ pc = "prompt"
  /\ \/ /\ "speech" \in Verbs
        /\ lang_proc("speech", "command", [Fresh EXCEPT !.iverb = "speech"], <<>>)
     \/ /\ "speech" \notin Verbs
        /\ t' = Fresh /\ UNCHANGED <<pc, stack>>
  /\ UNCHANGED <<game, word, acts, ended>>

\* A verb: the game may have a say in a travel verb before it is looked at any further.
parser ==
  /\ pc = "prompt"
  /\ \E w \in Verbs \ Special :
       /\ word' = w
       /\ IF game.verbs[w].travel /\ "travel" \in Verbs
          THEN lang_proc("travel", "intercept", Fresh, <<>>)
          ELSE pc' = "grammar" /\ t' = Fresh /\ stack' = stack
  /\ UNCHANGED <<game, acts, ended>>

\* The rest of the words, which may not make a sentence (FailParse).
Grammar ==
  /\ pc = "grammar"
  /\ LET th == [t EXCEPT !.iverb = word, !.vb = word]
     IN  \/ /\ pc' = Loop(th) /\ stack' = stack
            /\ t' = FailParse(th)
         \/ /\ th.exeunt \/ th.failed
            /\ pc' = Loop(th) /\ t' = th /\ stack' = stack
         \/ /\ ~th.exeunt /\ ~th.failed
            /\ lang_proc(word, "command", th, <<>>)
  /\ UNCHANGED <<game, word, acts, ended>>

------------------------------------------------------------------------------
(* Conditions and actions.                                                 *)

\* What cond may say of a line, given what it said of the one before.
cond(l, last) ==
  LET result == CASE l.cond = "always" -> {TRUE}
                  [] l.cond = "and" -> {last}
                  [] l.cond = "else" -> {~last}
                  [] OTHER -> BOOLEAN
  IN  {r # l.not : r \in result}

\* achecknear and acheckget: no action was done if all is well, or the parse is ended.
acheckget(th) == {[th EXCEPT !.inc = 0], EndParse(th)}

\* What an action that calls neither lang_proc nor ttproc may do to the thread's variables:
\* QuitPlayer asks first; asub kills when it takes the last of the stamina; the part of
\* TreatAsVerb that would change vbptr and ml is compiled out.
Effects(l, th) ==
  CASE l.op = "reply" -> {th}
    [] l.op = "hurt" -> {th, akillme(th)}
    [] l.op = "check" -> acheckget(th)
    [] l.op = "kill" -> {EndParse(akillme(th))}
    [] l.op = "goto" -> ActionGoToRoom(l.arg, th)
    [] l.op = "move" -> MovePlayerTo(l.arg, th)
    [] l.op = "skip" -> {[th EXCEPT !.skip = @ + l.arg]}
    [] l.op = "endparse" -> {EndParse(th)}
    [] l.op = "failparse" -> {FailParse(th)}
    [] l.op = "abortparse" -> {Aborted(th)}
    [] l.op = "quit" -> {EndParse(th), EndParse([th EXCEPT !.exeunt = TRUE])}
    [] l.op = "treatas" -> {[th EXCEPT !.donet = 0, !.inc = 0, !.iverb = l.arg]}

\* Action l, which has left the thread's variables as after, has ended the parse.
Ends(l, after) ==
  \/ l.op \in {"kill", "endparse", "failparse", "abortparse", "quit"}
  \/ l.op = "check" /\ after.inc = 1
  \/ after.exeunt

executeAction(l, s, th) ==
  /\ acts' = ~acts
  /\ \/ /\ l.op = "travel"
        /\ ttproc("action", NoVerb, th, s)
     \/ /\ l.op = "start"             \* Demon::Schedule without a delay
        /\ lang_proc(l.arg, "start", th, s) /\ ended' = ended
     \/ /\ l.op \notin {"travel", "start"}
        /\ \E after \in Effects(l, th) :
             /\ t' = after
             /\ ended' = IF ended = 0 /\ Ends(l, after) THEN Depth ELSE ended
        /\ pc' = "did" /\ stack' = s

------------------------------------------------------------------------------
(* lang_proc.                                                              *)

\* The next syntax of the verb, which fits or not; after the last, the end.
Syntax ==
  /\ pc = "syntax"
  /\ LET syntaxes == game.verbs[Top.verb].syntaxes
     IN  \/ /\ Top.i > Len(syntaxes)
            /\ pc' = "tail" /\ UNCHANGED <<t, stack>>
         \/ /\ Top.i <= Len(syntaxes)
            /\ t' = [t EXCEPT !.donet = 0, !.ml = Len(syntaxes[Top.i])]
            /\ \/ pc' = "line" /\ stack' = <<[Top EXCEPT !.d = -1, !.last = TRUE]>> \o Below
               \/ pc' = "syntax" /\ stack' = <<[Top EXCEPT !.i = @ + 1]>> \o Below
  /\ UNCHANGED <<game, word, acts, ended>>

\* The lines are taken from vbptr, whatever verb lang_proc was called for.
Lines == IF Top.i \in DOMAIN game.verbs[t.vb].syntaxes THEN game.verbs[t.vb].syntaxes[Top.i] ELSE <<>>
HasLine == t.vb # NoVerb /\ t.donet + 1 \in DOMAIN Lines

\* Mutant: the loop's donet++ is lost.
SameLine(th) == th
Advanced(th) == [th EXCEPT !.donet = @ + 1]

\* No such line: through the null pointer, or into another verb's memory.
Astray ==
  /\ pc = "line" /\ t.donet < t.ml /\ ~HasLine
  /\ pc' = IF t.vb = NoVerb THEN "crash" ELSE "stray"
  /\ UNCHANGED <<game, t, word, stack, acts, ended>>

SkipLine ==
  /\ pc = "line" /\ t.donet < t.ml /\ HasLine /\ t.skip # 0
  /\ t' = Advanced([t EXCEPT !.skip = @ - 1])
  /\ UNCHANGED <<game, pc, word, stack, acts, ended>>

\* Mutant: a line is executed though it is to be skipped.
LineAnyway ==
  /\ pc = "line" /\ t.donet < t.ml /\ HasLine
  /\ LET l == Lines[t.donet + 1]
     IN  \E result \in cond(l, Top.last) :
           LET s == <<[Top EXCEPT !.last = result]>> \o Below
           IN  \/ /\ result
                  /\ executeAction(l, s, [t EXCEPT !.inc = 1])
               \/ /\ ~result
                  /\ t' = Advanced(t) /\ stack' = s /\ UNCHANGED <<pc, acts, ended>>
  /\ UNCHANGED <<game, word>>

Line ==
  /\ pc = "line" /\ t.donet < t.ml /\ HasLine /\ t.skip = 0
  /\ LET l == Lines[t.donet + 1]
     IN  \E result \in cond(l, Top.last) :
           LET s == <<[Top EXCEPT !.last = result]>> \o Below
           IN  \/ /\ result
                  /\ executeAction(l, s, [t EXCEPT !.inc = 1])
               \/ /\ ~result
                  /\ t' = Advanced(t) /\ stack' = s /\ UNCHANGED <<pc, acts, ended>>
  /\ UNCHANGED <<game, word>>

\* The lines are done, or the parse has been ended: then the other syntaxes are left out.
LeaveLines(s) ==
  IF t.failed \/ t.exeunt \/ t.donet > t.ml
  THEN pc' = "tail" /\ stack' = s
  ELSE pc' = "syntax" /\ stack' = <<[Head(s) EXCEPT !.i = @ + 1]>> \o Tail(s)

LinesDone ==
  /\ pc = "line" /\ t.donet >= t.ml
  /\ LeaveLines(stack)
  /\ UNCHANGED <<game, t, word, acts, ended>>

\* After an action of a line.
Did ==
  /\ pc = "did" /\ Top.kind = "lang"
  /\ LET s == <<[Top EXCEPT !.d = IF t.inc = 1 THEN 0 ELSE @]>> \o Below
     IN  IF t.ml < 0 \/ t.failed \/ t.exeunt
         THEN LeaveLines(s) /\ t' = t
         ELSE pc' = "line" /\ stack' = s /\ t' = Advanced(t)
  /\ UNCHANGED <<game, word, acts, ended>>

\* When no line was executed a travel verb is looked up in the room's travel table, under
\* the verb lang_proc was called for.
TailOf ==
  /\ pc = "tail"
  /\ \/ /\ Top.d > -1
        /\ LangReturns(stack, TRUE, t)
     \/ /\ Top.d < 0 /\ t.iverb = NoVerb      \* GetVerb(-1)
        /\ pc' = "stray" /\ UNCHANGED <<t, stack, ended>>
     \/ /\ Top.d < 0 /\ t.iverb # NoVerb
        /\ LET th == [t EXCEPT !.vb = t.iverb]
           IN  IF game.verbs[t.iverb].travel
               THEN ttproc("tail", t.iverb, [th EXCEPT !.iverb = Top.verb], stack)
               ELSE LangReturns(stack, FALSE, th)
  /\ UNCHANGED <<game, word, acts>>

------------------------------------------------------------------------------
(* ttproc.                                                                 *)

Table == game.rooms[Top.room]

HasEntry == t.donet + 1 \in DOMAIN Table

\* A verb started by the table has left its own donet and ml: ttproc reads past the end.
Overrun ==
  /\ pc = "scan" /\ t.donet < t.ml /\ ~HasEntry
  /\ pc' = "stray"
  /\ UNCHANGED <<game, t, word, stack, acts, ended>>

\* The next line of the table: skipped, not for this verb or not now, or executed.
Scan ==
  /\ pc = "scan" /\ t.donet < t.ml /\ HasEntry
  /\ LET entry == Table[t.donet + 1]
         th == Advanced(t)
     IN  \/ /\ t.skip # 0
            /\ t' = [th EXCEPT !.skip = @ - 1]
            /\ UNCHANGED <<pc, stack, acts, ended>>
         \/ /\ t.skip = 0
            /\ entry.verb # t.iverb \/ FALSE \in cond(entry.line, TRUE)
            /\ t' = th
            /\ UNCHANGED <<pc, stack, acts, ended>>
         \/ /\ t.skip = 0
            /\ entry.verb = t.iverb /\ TRUE \in cond(entry.line, TRUE)
            /\ executeAction(entry.line, stack, [th EXCEPT !.inc = 1])
  /\ UNCHANGED <<game, word>>

NoMatch ==
  /\ pc = "scan" /\ t.donet >= t.ml
  /\ TravelReturns(Table[1].line.cond = "spell" \/ Top.dun = 0, [t EXCEPT !.skip = 0])
  /\ UNCHANGED <<game, word, acts>>

DidTravel ==
  /\ pc = "did" /\ Top.kind = "tt"
  /\ IF t.donet < t.ml /\ ~t.exeunt
     THEN /\ pc' = "scan" /\ UNCHANGED <<t, ended>>
          /\ stack' = <<[Top EXCEPT !.dun = IF t.inc = 1 THEN 0 ELSE @]>> \o Below
     ELSE TravelReturns(TRUE, t)
  /\ UNCHANGED <<game, word, acts>>

------------------------------------------------------------------------------
Step ==
  \/ Boot \/ Grammar \/ Syntax \/ Astray \/ SkipLine \/ Line \/ LinesDone \/ Did \/ TailOf
  \/ Overrun \/ Scan \/ NoMatch \/ DidTravel

Next == Refused \/ parseSuperGo \/ parseSpeech \/ parser \/ Step

\* A thread in the middle of a command goes on.
Spec == Init /\ [][Next]_vars /\ WF_vars(Step)

------------------------------------------------------------------------------
(* Types, with the lines that are still to be skipped: no skip is executed *)
(* while another is under way, so they are never more than one asks for,   *)
(* though a skip at the end of a verb is left over for the next command.   *)
TypeOK ==
  /\ game \in Games
  /\ pc \in {"boot", "prompt", "grammar", "syntax", "line", "did", "tail", "scan", "over", "off", "crash",
             "stray"}
  /\ t.iverb \in Verbs \cup {NoVerb} /\ t.vb \in Verbs \cup {NoVerb}
  /\ t.donet \in 0..(MaxLines + MaxDepth + 2) /\ t.ml \in -1..MaxLines /\ t.inc \in {0, 1}
  /\ t.skip \in 0..MaxSkip
  /\ t.failed \in BOOLEAN /\ t.exeunt \in BOOLEAN /\ t.room \in DOMAIN game.rooms
  /\ word \in Verbs \cup {NoVerb}
  /\ Len(stack) \in 0..MaxDepth
  /\ acts \in BOOLEAN /\ ended \in 0..MaxDepth

(* endparse, failparse, abortparse, quit, killme, a check that fails and a *)
(* death on arrival end the parse: no action is executed after them, of    *)
(* this line or of another syntax or of the travel table, until the        *)
(* lang_proc they end has returned.                                        *)
EndsStick == [][ended # 0 => acts' = acts]_vars

Plain(g) ==
  LET lines == UNION {UNION {{g.verbs[v].syntaxes[i][k] : k \in DOMAIN g.verbs[v].syntaxes[i]} :
                                                   i \in DOMAIN g.verbs[v].syntaxes} : v \in DOMAIN g.verbs}
      entries == UNION {{g.rooms[r][k].line : k \in DOMAIN g.rooms[r]} : r \in DOMAIN g.rooms}
  IN  /\ \A l \in lines : l.op \notin {"treatas", "start"}
      /\ \A l \in entries : l.op \notin {"treatas", "start", "travel"}

Resting == pc \in {"prompt", "over", "off", "crash", "stray"}

(* Every command ends, so that the player is back at the prompt, in a game *)
(* that uses neither treatas nor start, and no travel in a travel table.   *)
CommandEnds == Plain(game) /\ ~Resting ~> Resting

(* Func.Doc.txt:566-571 "Forces parser to process a different verb's       *)
(* entries.": a command that comes to a treatas ends as others do.         *)
TreatAsEnds == ~Resting ~> Resting

(* Special.Doc.txt:51-53 lists when "travel, "speech and "boot are         *)
(* executed: the lines lang_proc goes through are the ones of the verb it  *)
(* was called for.                                                         *)
OwnLines == pc = "line" /\ t.donet < t.ml => t.vb = Top.verb

================================================================================
