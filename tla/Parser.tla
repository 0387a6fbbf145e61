------------------------------- MODULE Parser --------------------------------
(***************************************************************************)
(* The parser of texts: a pointer into the data and the number of the line *)
(* it is on, which a call that throws leaves where they had come to; and   *)
(* its easyParsing: removeComments, one pass over a text in place, a       *)
(* character at a time, with five flags, over a text that is chosen as it  *)
(* is read, and removeDoubleNewLine, a second pass.                        *)
(***************************************************************************)
EXTENDS Integers, Sequences, FiniteSets, SequencesExt

CONSTANTS Source,       \* the texts that are parsed: sequences over Chars
          FirstLine,    \* the line number the caller gives the first line
          MaxLines,     \* bound: lines counted by peeking again and again
          MaxSource     \* bound: characters of a text with comments

VARIABLES m_data, m_pointer, m_lineNumber,
          block,        \* ghost: the last block of braces that was read
          drifted,      \* ghost: some new line was counted twice
          stream,       \* removeComments: the text as far as it was read
          flags,        \* the local variables of its loop
          original      \* ghost: its text as it was

parserVars == <<m_data, m_pointer, m_lineNumber, block, drifted>>
commentVars == <<stream, flags, original>>

Open == {"{", "[", "("}
Close == {"}", "]", ")"}
Chars == Open \cup Close \cup {"quote", "newline", "blank", "a", "_", "0", ".", "$", "nul"}
isBlanket == {"blank"}
isNewLine == {"newline"}
isWhite == isBlanket \cup isNewLine
isNameStart == {"a", "_"}
isName == isNameStart \cup {"0"}

internalIsEOS(pointer) == pointer = Len(m_data) \/ m_data[pointer + 1] = "nul"
isEOS == internalIsEOS(m_pointer)
peeked == m_data[m_pointer + 1]

LinesIn(from, to) == Cardinality({k \in from + 1 .. to : m_data[k] \in isNewLine})

(* The first place from a pointer on that ends the data or is of no class.  *)
EndOf(pointer, class) ==
  CHOOSE end \in pointer .. Len(m_data) :
    /\ internalIsEOS(end) \/ m_data[end + 1] \notin class
    /\ \A k \in pointer .. end - 1 : ~internalIsEOS(k) /\ m_data[k + 1] \in class

(* readChar() for every character up to a place.                            *)
ReadTo(end) ==
  /\ m_pointer' = end
  /\ m_lineNumber' = m_lineNumber + LinesIn(m_pointer, end)
Stay == UNCHANGED <<m_pointer, m_lineNumber>>
NoBlock == UNCHANGED <<m_data, block, drifted>>

ParserInit ==
  /\ m_data \in Source /\ m_pointer \in {0, Len(m_data) - 1}
  /\ m_lineNumber = FirstLine + LinesIn(0, m_pointer)
  /\ block = <<>> /\ drifted = FALSE

readChar == ~isEOS /\ ReadTo(m_pointer + 1) /\ NoBlock
getBlanks == ReadTo(EndOf(m_pointer, isWhite)) /\ NoBlock
readBlanksUntilEOL == ReadTo(EndOf(m_pointer, isBlanket)) /\ NoBlock

(* A word does not begin with a blank: the call throws where it is.         *)
readWord ==
  /\ IF ~isEOS /\ peeked \in isBlanket THEN Stay
     ELSE ReadTo(EndOf(m_pointer, Chars \ isWhite))
  /\ NoBlock

(* Where readCString() stops: the first character is read whatever it is,   *)
(* the call throws behind it when it had to be a letter.                    *)
EndOfName(isFirstLetter) ==
  IF isFirstLetter /\ peeked \notin isNameStart THEN m_pointer + 1
  ELSE EndOf(m_pointer + 1, isName)

(* Where $(name) ends that begins at a pointer, or where it throws.         *)
SpecialMark(pointer) ==
  LET Is(place, class) == ~internalIsEOS(place) /\ m_data[place + 1] \in class
      Read(place) == IF internalIsEOS(place) THEN place ELSE place + 1
      name == EndOf(pointer + 3, isName)
  IN IF ~Is(pointer + 1, {"("}) THEN [end |-> Read(pointer + 1), throws |-> TRUE]
     ELSE IF ~Is(pointer + 2, isNameStart) THEN [end |-> Read(pointer + 2), throws |-> TRUE]
     ELSE [end |-> Read(name), throws |-> ~Is(name, {")"})]

(* A special string is read to its end, a first other character included.   *)
SpecialString(from) ==
  LET end[pointer \in from .. Len(m_data)] ==
        LET ch == m_data[pointer + 1]
            part == IF ch = "$" THEN SpecialMark(pointer) ELSE [end |-> pointer + 1, throws |-> FALSE]
        IN IF internalIsEOS(pointer) \/ ch \notin isName \cup {".", "$"} THEN pointer + 1
           ELSE IF part.throws \/ internalIsEOS(part.end) THEN part.end
           ELSE end[part.end]
  IN end[from]

readSpeicalString == ~isEOS /\ ReadTo(SpecialString(m_pointer)) /\ NoBlock

readCString ==
  \E isFirstLetter \in BOOLEAN :
    ~isEOS /\ ReadTo(EndOfName(isFirstLetter)) /\ NoBlock

(* The pointer goes back, the line number does not.                         *)
peekCString ==
  \E isFirstLetter \in BOOLEAN :
    LET throws == isFirstLetter /\ peeked \notin isNameStart IN
    /\ ~isEOS /\ m_lineNumber < FirstLine + MaxLines
    /\ m_lineNumber' = m_lineNumber + LinesIn(m_pointer, EndOfName(isFirstLetter))
    /\ m_pointer' = IF throws THEN m_pointer + 1 ELSE m_pointer
    /\ drifted' = (drifted \/ (~throws /\ peeked \in isNewLine))
    /\ UNCHANGED <<m_data, block>>

(* From one quotation mark through the next.  The call throws at the end of *)
(* the data, or behind a first character that is none.                      *)
readQuateString ==
  LET end == EndOf(m_pointer + 1, Chars \ {"quote"}) IN
  /\ ~isEOS
  /\ IF peeked # "quote" THEN ReadTo(m_pointer + 1)
     ELSE ReadTo(IF internalIsEOS(end) THEN end ELSE end + 1)
  /\ NoBlock
-----------------------------------------------------------------------------
(* Braces: the braces that are open, eaten a character at a time.           *)
isMatch(open, close) == <<open, close>> \in {<<"{", "}">>, <<"[", "]">>, <<"(", ")">>}
Top(state) == state[Len(state)]
EatsToAnyClose(braces, data) == [braces EXCEPT !.stop = data \in Close]   \* a faulty variant
eatCharacter(braces, data) ==
  IF data \in Open THEN [braces EXCEPT !.state = Append(@, data)]
  ELSE IF data \notin Close THEN braces
  ELSE IF ~isMatch(Top(braces.state), data) THEN [braces EXCEPT !.threw = TRUE]
  ELSE [braces EXCEPT !.state = SubSeq(@, 1, Len(@) - 1), !.stop = Len(braces.state) = 1]

(* The braces after each character behind the first.  Within quotation      *)
(* marks, which a new line ends, nothing is eaten; the end of the data, or  *)
(* a null character, throws.                                                *)
BracesRead ==
  LET read[k \in m_pointer + 1 .. Len(m_data)] ==
        IF k = m_pointer + 1
          THEN [state |-> <<peeked>>, threw |-> FALSE, stop |-> FALSE, isString |-> FALSE, end |-> k]
          ELSE LET before == read[k - 1]
                   ch == m_data[k]
                   isString == IF ch \in isNewLine THEN FALSE
                               ELSE IF ch = "quote" THEN ~before.isString ELSE before.isString
               IN IF before.stop \/ before.threw THEN before
                  ELSE IF ch = "nul" THEN [before EXCEPT !.threw = TRUE]
                  ELSE [IF isString THEN before ELSE eatCharacter(before, ch)
                          EXCEPT !.isString = isString, !.end = k]
  IN read[Len(m_data)]

(* A new line within the block is counted by readChar() and once more here. *)
(* A block that ends with the data leaves the pointer on its last brace.    *)
readBracesBlock ==
  LET braces == BracesRead
      end == braces.end
      lines == LinesIn(m_pointer + 1, end)
  IN /\ ~isEOS
     /\ IF peeked \notin Open
          THEN ReadTo(m_pointer + 1) /\ NoBlock
          ELSE /\ m_pointer' = IF braces.stop /\ end = Len(m_data) THEN end - 1 ELSE end
               /\ m_lineNumber' = m_lineNumber + 2 * lines
               /\ drifted' = (drifted \/ lines > 0)
               /\ block' = IF braces.stop THEN <<m_pointer + 1, end>> ELSE block
               /\ UNCHANGED m_data

ParserNext ==
  \/ readChar \/ getBlanks \/ readBlanksUntilEOL \/ readWord \/ readCString
  \/ peekCString \/ readQuateString \/ readSpeicalString \/ readBracesBlock
-----------------------------------------------------------------------------
(* removeComments.                                                          *)
Char == {"/", "*", "quote", "newline", "return", "x"}
isLineEnd == {"newline", "return"}
space == "space"

CommentsInit ==
  /\ stream = <<>> /\ original = <<>>
  /\ flags = [isComment |-> FALSE, isEndl |-> FALSE, isMagicSlash |-> FALSE,
              isMagicStar |-> FALSE, isString |-> FALSE]

(* The current character is kept, blanked, or blanked with the one before.  *)
Keep(c) == stream' = Append(stream, c)
BlankOne == stream' = Append(stream, space)
BlankTwo == stream' = Append([stream EXCEPT ![Len(stream)] = space], space)

Slash ==
  LET f == flags IN
  /\ ~f.isString
  /\ \/ /\ ~f.isComment /\ f.isMagicSlash
        /\ flags' = [f EXCEPT !.isMagicSlash = FALSE, !.isEndl = TRUE, !.isComment = TRUE,
                              !.isMagicStar = FALSE]
        /\ BlankTwo
     \/ /\ ~f.isComment /\ ~f.isMagicSlash
        /\ flags' = [f EXCEPT !.isMagicSlash = TRUE, !.isMagicStar = FALSE]
        /\ Keep("/")
     \/ /\ f.isComment /\ f.isMagicStar
        /\ flags' = [f EXCEPT !.isMagicSlash = FALSE, !.isComment = FALSE, !.isMagicStar = FALSE]
        /\ BlankTwo
     \/ /\ f.isComment /\ ~f.isMagicStar
        /\ UNCHANGED flags /\ Keep("/")

Star ==
  LET f == flags IN
  /\ ~f.isString
  /\ \/ /\ ~f.isComment /\ f.isMagicSlash
        /\ flags' = [f EXCEPT !.isEndl = FALSE, !.isComment = TRUE, !.isMagicSlash = FALSE]
        /\ BlankTwo
     \/ /\ ~f.isComment /\ ~f.isMagicSlash
        /\ flags' = [f EXCEPT !.isMagicStar = TRUE]
        /\ Keep("*")
     \/ /\ f.isComment
        /\ flags' = [f EXCEPT !.isMagicStar = TRUE, !.isMagicSlash = FALSE]
        /\ BlankOne

(* A quotation mark resets neither of the two sequence flags.               *)
Quote ==
  IF flags.isComment THEN BlankOne /\ UNCHANGED flags
  ELSE Keep("quote") /\ flags' = [flags EXCEPT !.isString = ~@]

Other(c) ==
  LET newLine == c \in isLineEnd
      ends == flags.isComment /\ flags.isEndl /\ newLine
  IN /\ flags' = [flags EXCEPT !.isMagicSlash = FALSE, !.isMagicStar = FALSE,
                               !.isString = ~newLine /\ @, !.isComment = ~ends /\ @]
     /\ IF flags.isComment /\ ~newLine THEN BlankOne ELSE Keep(c)

Eat(c) ==
  IF c = "/" /\ ~flags.isString THEN Slash
  ELSE IF c = "*" /\ ~flags.isString THEN Star
  ELSE IF c = "quote" THEN Quote
  ELSE Other(c)

CommentsNext ==
  \E c \in Char :
    /\ Len(original) < MaxSource
    /\ original' = Append(original, c)
    /\ Eat(c)

(* removeDoubleNewLine: both ends of one line become a blank and a newline, *)
(* which may be the first of the pair that is looked at next.               *)
TwoEnds(text, k) == {text[k], text[k + 1]} = isLineEnd
removeDoubleNewLine(text) ==
  FoldLeft(LAMBDA t, k : IF TwoEnds(t, k) THEN [t EXCEPT ![k] = space, ![k + 1] = "newline"] ELSE t,
           text, [k \in 1 .. Len(text) - 1 |-> k])
easyParsing == removeDoubleNewLine(stream)
-----------------------------------------------------------------------------
(* The line number is that of the pointer, whatever was read, peeked at or  *)
(* thrown on the way: until a block of braces with a new line in it is      *)
(* read, or a peek falls on a new line, which count one twice.              *)
LineIsPointers ==
  LET line == FirstLine + LinesIn(0, m_pointer)
  IN IF drifted THEN m_lineNumber > line - 1 ELSE m_lineNumber = line

(* A block that was read is one pair of braces with pairs within it: the    *)
(* braces outside quotation marks can be paired without crossing, each with *)
(* one of its kind, the first with the last.                                *)
BlockIsBalanced ==
  block # <<>> =>
    LET from == block[1]
        to == block[2]
        LineStart(k) == CHOOSE n \in from .. k : /\ n = from \/ m_data[n - 1] \in isNewLine
                                                 /\ LinesIn(n - 1, k) = 0
        Marks(k) == {n \in LineStart(k) .. k : m_data[n] = "quote"}
        Braces == {k \in from .. to : m_data[k] \in Open \cup Close /\ Cardinality(Marks(k)) % 2 = 0}
        Opened == {k \in Braces : m_data[k] \in Open}
    IN \E partner \in [Opened -> Braces \ Opened] :
         /\ {partner[k] : k \in Opened} = Braces \ Opened
         /\ partner[from] = to
         /\ \A k \in Opened : k < partner[k] /\ isMatch(m_data[k], m_data[partner[k]])
         /\ \A k, n \in Opened : k < n => partner[k] < n \/ partner[n] < partner[k]

ParserTypeOK ==
  /\ m_data \in Source /\ m_pointer \in 0 .. Len(m_data)
  /\ m_lineNumber \in Nat /\ drifted \in BOOLEAN

(* What a C scanner is in after k characters of a text, with the pending    *)
(* slash of code and the pending star of a block as modes of their own.     *)
Modes(text) ==
  LET Step(before, c) ==
        IF before \in {"code", "slash"} THEN
          IF before = "slash" /\ c = "/" THEN "line"
          ELSE IF before = "slash" /\ c = "*" THEN "block"
          ELSE IF c = "/" THEN "slash"
          ELSE IF c = "quote" THEN "string" ELSE "code"
        ELSE IF before = "string" THEN IF c \in isLineEnd \cup {"quote"} THEN "code" ELSE "string"
        ELSE IF before = "line" THEN IF c \in isLineEnd THEN "code" ELSE "line"
        ELSE IF c = "*" THEN "star"
        ELSE IF before = "star" /\ c = "/" THEN "code" ELSE "block"
      mode[k \in 0 .. Len(text)] == IF k = 0 THEN "code" ELSE Step(mode[k - 1], text[k])
  IN mode

(* The texts on which the pass is a C scanner: within a comment no slash    *)
(* but the one that closes a block, and no quotation mark at once after the *)
(* slash or star that may begin or end a comment.                           *)
Regular(text) ==
  LET mode == Modes(text)
  IN \A k \in 1 .. Len(text) :
       /\ text[k] = "/" => mode[k - 1] \notin {"line", "block"}
       /\ text[k] = "quote" => mode[k - 1] \notin {"slash", "star"}

(* Of a regular text all comments, their marks included, and nothing else   *)
(* become blanks.  Of any text every line stays where it is, and every      *)
(* other character is kept or blanked.                                      *)
InComment(mode, k) == mode[k] \in {"line", "block", "star"} \/ mode[k - 1] \in {"block", "star"}
CommentsRemoved ==
  LET mode == Modes(original)
      OpensAfter(k) ==
        /\ k < Len(original) /\ mode[k] = "slash"
        /\ mode[k + 1] \in {"line", "block"}
      Wanted == [k \in 1 .. Len(original) |->
                   IF original[k] \notin isLineEnd /\ (InComment(mode, k) \/ OpensAfter(k))
                     THEN space ELSE original[k]]
  IN /\ Regular(original) => stream = Wanted
     /\ Len(stream) = Len(original)
     /\ \A k \in 1 .. Len(stream) :
          /\ stream[k] = original[k] \/ stream[k] = space
          /\ stream[k] \in isLineEnd \/ original[k] \in isLineEnd => stream[k] = original[k]

(* When all lines of a text end with a return and a newline, the parser is  *)
(* on the same line of easyParsing's text at every character, empty lines   *)
(* included; in no text two ends of one line are left side by side, and     *)
(* what ends no line is kept.                                               *)
LinesEndOnce ==
  LET after == easyParsing
      twoEnded == \A k \in 1 .. Len(stream) :
        /\ stream[k] = "return" => k < Len(stream) /\ stream[k + 1] = "newline"
        /\ stream[k] = "newline" => k > 1 /\ stream[k - 1] = "return"
      Ends(text, k, class) == Cardinality({n \in 1 .. k : text[n] \in class})
  IN /\ \A k \in 1 .. Len(stream) - 1 : ~TwoEnds(after, k)
     /\ \A k \in 1 .. Len(stream) : stream[k] \notin isLineEnd =>
          /\ after[k] = stream[k]
          /\ twoEnded => Ends(after, k, isLineEnd) = Ends(stream, k, {"newline"})
     /\ twoEnded => Ends(after, Len(after), isLineEnd) = Ends(stream, Len(stream), {"newline"})

CommentsTypeOK ==
  /\ original \in Seq(Char) /\ stream \in Seq(Char \cup {space})
  /\ flags \in [{"isComment", "isEndl", "isMagicSlash", "isMagicStar", "isString"} -> BOOLEAN]
=============================================================================
