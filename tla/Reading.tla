-------------------------------- MODULE Reading --------------------------------
(***************************************************************************)
(* How a text file is read (sourcefile.cpp, buffer.h) by the two loops     *)
(* that are built on it: the message files (amulcom.msgfile.cpp) and       *)
(* FileParser (amulcom.fileparser.cpp), from which nothing derives yet but *)
(* after which trav_proc and objs_proc are written by hand.                *)
(*                                                                         *)
(* A file is [lines, ended]: whether a newline ends the last line.  A line *)
(* is [empty, terms, more, odd]: empty has no character at all, terms are  *)
(* its words, of which spaces and comments have none, more a + at its end, *)
(* odd a first word that is no valid id.  A word is "low", or has capitals *)
(* (after its first letter) and is then rewritten in lower case in a       *)
(* string of its own: "Cap" when the string keeps it in place, "LONG" when *)
(* it is on the heap.                                                      *)
(***************************************************************************)
EXTENDS Integers, FiniteSets, SequencesExt

CONSTANTS
  Files,       \* what the file may be
  ErrorLimit   \* errors at which reading stops: 30

LineSet == [empty : BOOLEAN, terms : Seq({"low", "Cap", "LONG"}), more : BOOLEAN, odd : BOOLEAN]

ASSUME FilesAssumption ==
  /\ ErrorLimit \in Nat
  /\ \A f \in Files :
       /\ f.lines \in Seq(LineSet) /\ f.ended \in BOOLEAN
       /\ \A i \in DOMAIN f.lines : f.lines[i].empty => f.lines[i].terms = <<>> /\ ~f.lines[i].more

Readers == {"messages", "blocks"}

VARIABLES
  pc,          \* "open", "loop", "terms", "id", "text", "body", "skip", "end" or "fatal"
  file,
  reader,      \* which of the two loops reads
  at,          \* buffer.m_cur: number of the line it is in front of
  lineNo,
  line,        \* words of the line being read
  capacity,    \* capacity of the vector alterations
  result,      \* what GetLineTerms returned
  caller,      \* who called it: "id" or "body"
  errors,
  blocks,      \* what was handed on: [id, body, ok], lines by their number
  most         \* history: most words with capitals on a line before this one

vars == <<pc, file, reader, at, lineNo, line, capacity, result, caller, errors, blocks, most>>

Init ==
  /\ pc = "open" /\ file \in Files /\ reader \in Readers
  /\ at = 1 /\ lineNo = 0 /\ line = <<>> /\ capacity = 0 /\ result = FALSE /\ caller = "id"
  /\ errors = 0 /\ blocks = <<>> /\ most = 0

N == Len(file.lines)
Eof == at > N

\* Buffer::ReadLine leaves the cursor where it is on a last line without a newline.
AfterLine == IF at = N /\ ~file.ended THEN at ELSE at + 1

\* ++lineNo; for a last line that comes again and again the count is stopped at N.
NextLineNo == IF lineNo = N THEN N ELSE lineNo + 1

\* Open: neither a missing file nor one of no bytes will do.
Open ==
  /\ pc = "open"
  /\ \/ pc' = "fatal"
     \/ N > 0 /\ pc' = "loop"
  /\ UNCHANGED <<file, reader, at, lineNo, line, capacity, result, caller, errors, blocks, most>>

(***************************************************************************)
(* GetLineTerms                                                            *)
(***************************************************************************)
Capitals(words) == Cardinality({i \in DOMAIN words : words[i] # "low"})

\* GetLineTerms begins: line and alterations are cleared, the capacity stays.
BeginTerms(who) ==
  /\ pc' = "terms" /\ caller' = who /\ line' = <<>>
  /\ most' = IF Capitals(line) > most THEN Capitals(line) ELSE most

\* The capacity of a vector that has grown to n elements: it doubles.
Doubled[n \in Nat] == IF n <= 1 THEN n ELSE 2 * Doubled[(n + 1) \div 2]
Grown(n) == IF n <= capacity THEN capacity ELSE Doubled[n]

\* When the vector grows its strings move, and a word that was kept in place is left to the
\* allocator: words, by index, that alterations no longer holds.
Dangling(words) ==
  IF Capitals(words) <= capacity THEN {}
  ELSE {i \in DOMAIN words : /\ words[i] = "Cap"
                             /\ Capitals(SubSeq(words, 1, i)) <= Grown(Capitals(words)) \div 2}

Returns(value) == pc' = caller /\ result' = value

\* One line of the file: at the end, and on an empty line, it fails.
ReadTerms ==
  /\ pc = "terms"
  /\ IF Eof THEN Returns(FALSE) /\ UNCHANGED <<at, lineNo, line, capacity>>
     ELSE /\ at' = AfterLine /\ lineNo' = NextLineNo
          /\ IF file.lines[at].empty THEN Returns(FALSE) /\ UNCHANGED <<line, capacity>>
             ELSE LET words == line \o file.lines[at].terms IN
                  /\ \E garbage \in SUBSET Dangling(words) :
                       line' = [i \in DOMAIN words |-> IF i \in garbage THEN "garbage" ELSE words[i]]
                  /\ capacity' = Grown(Capitals(words))
                  /\ IF file.lines[at].more \/ words = <<>> THEN UNCHANGED <<pc, result>> ELSE Returns(TRUE)
  /\ UNCHANGED <<file, reader, caller, errors, blocks, most>>

(***************************************************************************)
(* The loops                                                               *)
(***************************************************************************)
\* while (!src.Eof()) { CheckErrorCount(); src.GetIDLine(prefix) ...
Loop ==
  /\ pc = "loop"
  /\ CASE Eof -> pc' = "end" /\ UNCHANGED <<line, caller, most>>
       [] ~Eof /\ errors > ErrorLimit -> pc' = "fatal" /\ UNCHANGED <<line, caller, most>>
       [] OTHER -> BeginTerms("id")
  /\ UNCHANGED <<file, reader, at, lineNo, capacity, result, errors, blocks>>

\* The rest of GetIDLine, and what its caller makes of the line: a label of its own and nothing
\* else for a message, flags that fit for a block.
IDLine ==
  /\ pc = "id"
  /\ CASE ~result -> pc' = "loop" /\ UNCHANGED <<line, caller, most, errors, blocks>>
       [] result /\ file.lines[lineNo].odd ->
            pc' = "skip" /\ errors' = errors + 1 /\ UNCHANGED <<line, caller, most, blocks>>
       [] OTHER ->
            \E ok \in BOOLEAN :
              /\ blocks' = Append(blocks, [id |-> lineNo, body |-> <<>>, ok |-> ok])
              /\ errors' = IF ok THEN errors ELSE errors + 1
              /\ reader = "messages" /\ Len(line) > 1 => ~ok
              /\ CASE ~ok -> pc' = "skip" /\ UNCHANGED <<line, caller, most>>
                   [] ok /\ reader = "messages" -> pc' = "text" /\ UNCHANGED <<line, caller, most>>
                   [] OTHER -> BeginTerms("body")
  /\ UNCHANGED <<file, reader, at, lineNo, capacity, result>>

\* A line of a block; a last line without newline comes again and again and is noted once.
Noted(i) ==
  LET block == Last(blocks) IN
  IF block.body # <<>> /\ Last(block.body) = i THEN blocks
  ELSE [blocks EXCEPT ![Len(blocks)].body = Append(@, i)]

\* FileParser::consumeLines.
ConsumeLine ==
  /\ pc = "body"
  /\ CASE ~result -> pc' = "loop" /\ UNCHANGED <<line, caller, most, errors, blocks>>
       [] result /\ errors > ErrorLimit -> pc' = "fatal" /\ UNCHANGED <<line, caller, most, errors, blocks>>
       [] OTHER -> \/ /\ BeginTerms("body") /\ blocks' = Noted(lineNo)
                      /\ UNCHANGED errors
                   \/ /\ pc' = "skip" /\ errors' = errors + 1
                      /\ blocks' = [blocks EXCEPT ![Len(blocks)].ok = FALSE]
                      /\ UNCHANGED <<line, caller, most>>
  /\ UNCHANGED <<file, reader, at, lineNo, capacity, result>>

\* Mutant: these lines are not counted.
GetLineUncounted ==
  /\ pc \in {"text", "skip"}
  /\ at' = IF Eof THEN at ELSE AfterLine
  /\ pc' = IF Eof \/ file.lines[at].empty THEN "loop" ELSE pc
  /\ blocks' = IF pc = "skip" \/ pc' = "loop" THEN blocks ELSE Noted(at)
  /\ UNCHANGED <<file, reader, lineNo, line, capacity, result, caller, errors, most>>

\* Mutant: a comment ends the text.
GetLineToComment ==
  /\ pc \in {"text", "skip"}
  /\ IF Eof THEN UNCHANGED <<at, lineNo>>
     ELSE at' = AfterLine /\ lineNo' = NextLineNo
  /\ pc' = IF Eof \/ file.lines[at].terms = <<>> THEN "loop" ELSE pc
  /\ blocks' = IF pc = "skip" \/ pc' = "loop" THEN blocks ELSE Noted(at)
  /\ UNCHANGED <<file, reader, line, capacity, result, caller, errors, most>>

\* Mutant: only an empty line ends the text.
GetLineToEmpty ==
  /\ pc \in {"text", "skip"}
  /\ IF Eof THEN UNCHANGED <<at, lineNo>>
     ELSE at' = AfterLine /\ lineNo' = NextLineNo
  /\ pc' = IF ~Eof /\ file.lines[at].empty THEN "loop" ELSE pc
  /\ blocks' = IF pc = "skip" \/ Eof \/ pc' = "loop" THEN blocks ELSE Noted(at)
  /\ UNCHANGED <<file, reader, line, capacity, result, caller, errors, most>>

\* GetLine, in GetLines or SkipBlock: lines as they are, until an empty one or the end.
GetLine ==
  /\ pc \in {"text", "skip"}
  /\ IF Eof THEN UNCHANGED <<at, lineNo>>
     ELSE at' = AfterLine /\ lineNo' = NextLineNo
  /\ pc' = IF Eof \/ file.lines[at].empty THEN "loop" ELSE pc
  /\ blocks' = IF pc = "skip" \/ pc' = "loop" THEN blocks ELSE Noted(at)
  /\ UNCHANGED <<file, reader, line, capacity, result, caller, errors, most>>

Done == pc \in {"end", "fatal"} /\ UNCHANGED vars

Reads == Open \/ ReadTerms \/ Loop \/ IDLine \/ ConsumeLine \/ GetLine
Next == Reads \/ Done

Spec == Init /\ [][Next]_vars /\ WF_vars(Reads)

----------------------------------------------------------------------------
(* Properties *)

\* Where the reader is, and what it can trust: the line number for error messages is that of the
\* line before the cursor, and a word with capitals is lost only on a line that has more of them
\* than every line before it, when the strings that hold the rewritten words move.
TypeOK ==
  /\ at \in 1..(N + 1)
  /\ lineNo = at - 1 \/ (~file.ended /\ at = N /\ lineNo = N)
  /\ capacity \in Nat /\ Capitals(line) <= capacity
  /\ pc \in {"body", "text"} => blocks # <<>>
  /\ "garbage" \in ToSet(line) => Capitals(line) > most

\* The lines whose words make up the line that ends with line i: those a + joins to it.
Joined(lines, i) == {j \in 1..i : \A k \in j..(i - 1) : lines[k].more}
EndsLine(lines, i) ==
  ~lines[i].empty /\ ~lines[i].more /\ \E j \in Joined(lines, i) : lines[j].terms # <<>>

\* Lines of the paragraph line i is in, after i.
After(lines, i) == {j \in (i + 1)..Len(lines) : \A k \in i..j : ~lines[k].empty}
IDs(lines) ==
  {i \in 1..Len(lines) :
     EndsLine(lines, i) /\ ~\E j \in 1..(i - 1) : EndsLine(lines, j) /\ i \in After(lines, j)}

\* A + joins nothing to an empty line or to the end of the file.
ProperlyJoined(lines) ==
  \A i \in 1..Len(lines) : lines[i].more => i < Len(lines) /\ ~lines[i + 1].empty

\* The numbers in s are those of set, in order.
InOrder(s, set) == ToSet(s) = set /\ \A i, j \in DOMAIN s : i < j => s[i] < s[j]

\* The lines of the block under line i: for a message these are the lines as they are, comments
\* too, for FileParser those with words.
Body(lines, who, i) ==
  IF who = "messages" THEN After(lines, i) ELSE {j \in After(lines, i) : EndsLine(lines, j)}

\* Paragraphs are blocks: once a file is read, each of its paragraphs that starts with an id was
\* handed on under it, in order, and every one that was accepted with all of its lines.
BlocksAsWritten ==
  pc = "end" /\ ProperlyJoined(file.lines) =>
    /\ InOrder([k \in DOMAIN blocks |-> blocks[k].id],
               {i \in IDs(file.lines) : ~file.lines[i].odd})
    /\ \A k \in DOMAIN blocks :
         blocks[k].ok => InOrder(blocks[k].body, Body(file.lines, reader, blocks[k].id))

\* Reading ends, if a newline ends the file: the cursor is never moved past a last line without.
ReadingEnds == file.ended => <>(pc \in {"end", "fatal"})
=============================================================================
