------------------------------ MODULE MCReading ------------------------------
\* All files of up to MaxLines lines of these kinds, with and without a newline at the end.
EXTENDS Reading

CONSTANT MaxLines

Words(words) == [empty |-> FALSE, terms |-> words, more |-> FALSE, odd |-> FALSE]
EmptyLine == [Words(<<>>) EXCEPT !.empty = TRUE]

LineKinds ==
  {EmptyLine, Words(<<>>), Words(<<"low">>), Words(<<"Cap", "Cap">>), Words(<<"Cap", "LONG", "Cap">>),
   [Words(<<"Cap">>) EXCEPT !.more = TRUE], [Words(<<"low">>) EXCEPT !.odd = TRUE]}

\* An empty line has its newline.  A + on a last line without one would join that line to itself
\* for ever: it is left out.
MCFiles ==
  {f \in [lines : UNION {[1..n -> LineKinds] : n \in 0..MaxLines}, ended : BOOLEAN] :
     f.lines = <<>> \/ Last(f.lines).empty \/ Last(f.lines).more => f.ended}
=============================================================================
