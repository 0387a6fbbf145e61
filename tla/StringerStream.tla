--------------------------- MODULE StringerStream ----------------------------
(***************************************************************************)
(* cStringerStream, shared by threads that print.  A stream that waits for *)
(* new lines gathers what is printed in a repository, under its lock, and  *)
(* every printer takes the whole lines it finds out of it, under the lock, *)
(* and puts them out without it.  The sections under the lock are single   *)
(* steps.  A text is a sequence of letters and new lines.                  *)
(***************************************************************************)
EXTENDS Naturals, SequencesExt

CONSTANTS Printer,            \* the threads
          Printed,            \* the texts they print
          MaxPrints           \* bound: prints and flushes of all of them

VARIABLES m_shouldWaitToNewLine,
          m_lineRepository,
          at,                 \* of a printer: "idle", "lines", "print", "last"
          holds,              \* the piece it is to put out, or 0
          pieces,             \* ghost: the pieces taken out, in that order
          taken,              \* ghost: their characters, one after another
          flushed,            \* ghost: those that were taken by flush()
          output,             \* ghost: the pieces put out, in that order
          added,              \* ghost: the characters printed, likewise
          prints              \* how many texts these were

stringerVars == <<m_shouldWaitToNewLine, m_lineRepository, at, holds, pieces, taken,
                  flushed, output, added, prints>>

endl == "newline"
HasLine(text) == endl \in ToSet(text)
EndOfLine(text) == SelectInSeq(text, LAMBDA ch : ch = endl)

StringerInit ==
  /\ m_shouldWaitToNewLine \in BOOLEAN /\ m_lineRepository = <<>>
  /\ at = [t \in Printer |-> "idle"] /\ holds = [t \in Printer |-> 0]
  /\ pieces = <<>> /\ flushed = {} /\ output = <<>>
  /\ taken = <<>> /\ added = <<>> /\ prints = 0

(* A printer has taken a piece, which it puts out in a later step.          *)
Takes(t, piece, next) ==
  /\ pieces' = Append(pieces, piece) /\ taken' = taken \o piece
  /\ holds' = [holds EXCEPT ![t] = Len(pieces')]
  /\ at' = [at EXCEPT ![t] = next]

(* operator<<: at once, or into the repository.                             *)
Writes(t, string) ==
  /\ at[t] = "idle" /\ prints < MaxPrints /\ prints' = prints + 1 /\ added' = added \o string
  /\ IF m_shouldWaitToNewLine
       THEN /\ m_lineRepository' = m_lineRepository \o string
            /\ at' = [at EXCEPT ![t] = "lines"] /\ UNCHANGED <<holds, pieces, taken>>
       ELSE Takes(t, string, "last") /\ UNCHANGED m_lineRepository
  /\ UNCHANGED <<m_shouldWaitToNewLine, flushed, output>>

(* Faulty: one line is put out, and not the lines after it.                 *)
TakesFirstLineOnly(t, index) == Takes(t, SubSeq(m_lineRepository, 1, index), "last")

(* flushEndlBuffer in the loop of flushNewLines: one line, and once more.   *)
TakesLine(t, index) == Takes(t, SubSeq(m_lineRepository, 1, index), "print")
flushEndlBuffer(t) ==
  /\ at[t] = "lines"
  /\ IF HasLine(m_lineRepository)
       THEN LET index == EndOfLine(m_lineRepository)
            IN /\ TakesLine(t, index)
               /\ m_lineRepository' = SubSeq(m_lineRepository, index + 1, Len(m_lineRepository))
       ELSE at' = [at EXCEPT ![t] = "idle"] /\ UNCHANGED <<m_lineRepository, holds, pieces, taken>>
  /\ UNCHANGED <<m_shouldWaitToNewLine, flushed, output, added, prints>>

(* outputString, of a class that puts a string out in one piece.            *)
outputString(t) ==
  /\ at[t] \in {"print", "last"}
  /\ output' = Append(output, holds[t]) /\ holds' = [holds EXCEPT ![t] = 0]
  /\ at' = [at EXCEPT ![t] = IF @ = "print" THEN "lines" ELSE "idle"]
  /\ UNCHANGED <<m_shouldWaitToNewLine, m_lineRepository, pieces, taken, flushed, added, prints>>

(* flush: all there is, a line or not.                                      *)
flush(t) ==
  /\ at[t] = "idle" /\ m_lineRepository # <<>>
  /\ Takes(t, m_lineRepository, "last") /\ m_lineRepository' = <<>>
  /\ flushed' = flushed \cup {Len(pieces')}
  /\ UNCHANGED <<m_shouldWaitToNewLine, output, added, prints>>

StringerNext ==
  \E t \in Printer :
    \/ \E string \in Printed : Writes(t, string)
    \/ flushEndlBuffer(t) \/ outputString(t) \/ flush(t)
-----------------------------------------------------------------------------
StringerTypeOK ==
  /\ m_shouldWaitToNewLine \in BOOLEAN
  /\ at \in [Printer -> {"idle", "lines", "print", "last"}]
  /\ \A t \in Printer : holds[t] = 0 <=> at[t] \in {"idle", "lines"}

Holding == {t \in Printer : holds[t] # 0}

(* Every character printed is put out once: the pieces taken and the        *)
(* repository are all that was printed, in order, and each piece is put out *)
(* once or in the hands of one printer, so that a line comes out before an  *)
(* earlier one only while another printer holds that.  Where lines are      *)
(* waited for, a piece is one line, but for what flush() takes, and when    *)
(* all printers have returned no whole line is left behind.                 *)
LinesAreWhole ==
  /\ taken \o m_lineRepository = added
  /\ IsInjective(output) /\ ToSet(output) \cap {holds[t] : t \in Holding} = {}
  /\ ToSet(output) \cup {holds[t] : t \in Holding} = 1 .. Len(pieces)
  /\ m_shouldWaitToNewLine =>
       /\ \A i \in 1 .. Len(pieces) \ flushed : EndOfLine(pieces[i]) = Len(pieces[i])
       /\ (\A t \in Printer : at[t] = "idle") => ~HasLine(m_lineRepository)
=============================================================================
