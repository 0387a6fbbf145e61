----------------------------- MODULE Containers ------------------------------
(***************************************************************************)
(* The containers of the library, the random generator that lives on one   *)
(* of them, and the texts that live on another, side by side for one run:  *)
(* a behaviour picks one of them, and the others rest in a fixed initial   *)
(* state.  The arrays are the module this one extends.                     *)
(***************************************************************************)
EXTENDS PagedArray

CONSTANTS Item, MaxItems, UintRange,                    \* LinkedList
          HashKeys, Field, VectorSizes, MaxKeys,        \* HashTable
          BITS_COUNT_PER_ELEMENT, MaxBits,              \* SetArray
          DigestLength, MaxLength, MaxBlock,            \* PMacRandom
          NodeId, Colors, MaxNeighbors,                 \* Graph
          Letters, MaxText, MaxPattern,                 \* TextString
          FirstLine, MaxLines, MaxSource,               \* Parser
          Widths, Digits, MaxNumeral,                   \* Numerals
          MaxRelative, MaxPath                          \* Filename

(* The array of an iterator is shorter than its index is wide.             *)
ASSUME ListAssumption ==
  Item \subseteq Nat \ {0} /\ MaxItems \in Nat /\ UintRange \in Nat /\ UintRange > MaxSize

ASSUME HashAssumption ==
  HashKeys \subseteq Seq(Nat) /\ VectorSizes \subseteq Nat \ {0} /\ VectorSizes # {} /\ MaxKeys \in Nat

(* Keys that meet in a list and keys that do not. *)
SomeKeys == {<<0>>, <<3>>, <<2, 1>>, <<7, 4>>}

ASSUME BitArrayAssumption == BITS_COUNT_PER_ELEMENT \in Nat \ {0} /\ MaxBits \in Nat

ASSUME DigestAssumption ==
  DigestLength \in Nat \ {0} /\ MaxBlock \in Nat \ {0} /\ MaxLength \in Nat

ASSUME GraphAssumption == Colors \in Nat /\ MaxNeighbors \in Nat

ASSUME TextsAssumption ==
  /\ {Letters, MaxText, MaxPattern, MaxSource, FirstLine, MaxLines, MaxNumeral,
      MaxRelative, MaxPath} \subseteq Nat
  /\ Widths # {} /\ Widths \subseteq Nat \ {0} /\ Digits \subseteq 0 .. 15

VARIABLES component,
          list, ordered, contents, cursor, where, size, m_index, offset,
          m_hash, m_vectorSize, dictionary,
          m_data, m_length, known,
          m_queue, m_readPointer, m_writePointer, m_isFull, reply,
          m_a, length, output, pc, start,
          m_nodes, m_neighbors, m_chosenColor, edges,
          strings, edited, texts, subject, pattern, stream, flags, original,
          parsed, pointer, line, block, drifted, numeral, sign, variable, m_filename

List == INSTANCE LinkedList
Hash == INSTANCE HashTable WITH Key <- HashKeys
Bits == INSTANCE SetArray WITH MaxLength <- MaxBits
Random == INSTANCE PMacRandom
Nodes == INSTANCE Graph

(* The parser's texts: every short one, and longer ones about braces and    *)
(* special marks.                                                           *)
ParsedTexts ==
  LET Over(chars, lengths) == UNION {[1 .. n -> chars] : n \in lengths}
  IN Over({"{", "(", "quote", "newline", "blank", "a", "0", "nul"}, 1 .. 3)
       \cup {<<"{">> \o rest : rest \in Over({"{", "}", "(", "quote", "newline"}, 1 .. 4)}
       \cup {<<"$">> \o rest : rest \in Over({"$", "(", ")", "a", "newline"}, 1 .. 4)}

String == INSTANCE TextString
Scan == INSTANCE Parser WITH
          Source <- ParsedTexts, m_data <- parsed, m_pointer <- pointer, m_lineNumber <- line
Number == INSTANCE Numerals
Naming == INSTANCE Filename

listVars == <<list, ordered, contents, cursor, where>>
indexVars == <<size, m_index, offset>>
hashVars == <<m_hash, m_vectorSize, dictionary>>
bitVars == <<m_data, m_length, known>>
randomVars == <<m_queue, m_readPointer, m_writePointer, m_isFull, reply,
                m_a, length, output, pc, start>>
graphVars == <<m_nodes, m_neighbors, m_chosenColor, edges>>
stringVars == <<strings, edited, texts>>
wildVars == <<subject, pattern>>
commentVars == <<stream, flags, original>>
parserVars == <<parsed, pointer, line, block, drifted>>
numeralVars == <<numeral, sign, variable>>
textVars == <<stringVars, wildVars, commentVars, parserVars, numeralVars, m_filename>>
vars == <<component, arrayVars, listVars, indexVars, hashVars, bitVars, randomVars, graphVars, textVars>>

Components == {"array", "list", "index", "hash", "bits", "random", "graph",
               "string", "wildcard", "comments", "parser", "numeral", "filename"}

Init ==
  /\ component \in Components
  /\ component # "array" => m_array = <<>> /\ m_pageSize = CHOOSE page \in Pages : TRUE
  /\ component # "list" => ordered = TRUE /\ contents = <<>>
  /\ component # "index" => size = 0
  /\ component # "hash" => /\ m_vectorSize = CHOOSE vectorSize \in VectorSizes : TRUE
                           /\ dictionary = [k \in {} |-> {}]
  /\ component # "bits" => m_length = 0
  /\ component # "parser" => parsed = (CHOOSE source \in ParsedTexts : TRUE) /\ pointer = 0
  /\ ArrayInit /\ List!IteratorInit /\ Hash!HashInit /\ Bits!BitsInit /\ Random!Init
  /\ Nodes!GraphInit /\ Naming!FilenameInit
  /\ component # "filename" => m_filename[1] = "c"
  /\ String!StringInit /\ String!WildInit /\ Scan!CommentsInit
  /\ Scan!ParserInit /\ Number!NumeralsInit

(* A step of what works on texts.                                          *)
TextMoves ==
  /\ UNCHANGED <<component, arrayVars, listVars, indexVars, hashVars, bitVars, randomVars, graphVars>>
  /\ \/ /\ component = "string" /\ String!StringNext
        /\ UNCHANGED <<wildVars, commentVars, parserVars, numeralVars, m_filename>>
     \/ /\ component = "wildcard" /\ String!WildNext
        /\ UNCHANGED <<stringVars, commentVars, parserVars, numeralVars, m_filename>>
     \/ /\ component = "comments" /\ Scan!CommentsNext
        /\ UNCHANGED <<stringVars, wildVars, parserVars, numeralVars, m_filename>>
     \/ /\ component = "parser" /\ Scan!ParserNext
        /\ UNCHANGED <<stringVars, wildVars, commentVars, numeralVars, m_filename>>
     \/ /\ component = "numeral" /\ Number!NumeralsNext
        /\ UNCHANGED <<stringVars, wildVars, commentVars, parserVars, m_filename>>
     \/ /\ component = "filename" /\ Naming!cFilename
        /\ UNCHANGED <<stringVars, wildVars, commentVars, parserVars, numeralVars>>

OthersRest == UNCHANGED <<component, arrayVars, listVars, indexVars, hashVars, bitVars, graphVars, textVars>>

Next ==
  \/ /\ component = "array" /\ ArrayNext
     /\ UNCHANGED <<component, listVars, indexVars, hashVars, bitVars, randomVars, graphVars, textVars>>
  \/ /\ component = "list" /\ List!IteratorNext
     /\ UNCHANGED <<component, arrayVars, indexVars, hashVars, bitVars, randomVars, graphVars, textVars>>
  \/ /\ component = "index" /\ List!IndexNext
     /\ UNCHANGED <<component, arrayVars, listVars, hashVars, bitVars, randomVars, graphVars, textVars>>
  \/ /\ component = "hash" /\ Hash!HashNext
     /\ UNCHANGED <<component, arrayVars, listVars, indexVars, bitVars, randomVars, graphVars, textVars>>
  \/ /\ component = "bits" /\ Bits!BitsNext
     /\ UNCHANGED <<component, arrayVars, listVars, indexVars, hashVars, randomVars, graphVars, textVars>>
  \/ component = "random" /\ Random!Next /\ OthersRest
  \/ /\ component = "graph" /\ Nodes!GraphNext
     /\ UNCHANGED <<component, arrayVars, listVars, indexVars, hashVars, bitVars, randomVars, textVars>>
  \/ TextMoves

RandomProceeds == component = "random" /\ Random!Proceed /\ OthersRest

Spec == Init /\ [][Next]_vars /\ WF_vars(RandomProceeds)
-----------------------------------------------------------------------------
(* Every component keeps its state in range. *)
TypeOK ==
  /\ component \in Components
  /\ ArrayTypeOK /\ List!IteratorTypeOK /\ Hash!HashTypeOK /\ Bits!BitsTypeOK
  /\ Nodes!GraphTypeOK /\ String!StringTypeOK /\ String!WildTypeOK
  /\ Scan!CommentsTypeOK /\ Scan!ParserTypeOK /\ Number!NumeralsTypeOK
  /\ Naming!FilenameTypeOK

(* The links of a list agree in both directions and reach every node; the   *)
(* list holds what was put in, in its order, an ordered one sorted; an      *)
(* iterator stays where it is while the list or array changes under it; and *)
(* an edge of a graph is in the lists of both its nodes.                    *)
LinksAgree ==
  /\ List!LinksAgree /\ List!ListHasContents
  /\ List!IteratorStays /\ List!IndexKeepsPlace
  /\ Nodes!EdgesHaveTwoEnds

(* A hash table finds what was put in and nothing else. *)
HashIsDictionary == Hash!HashIsDictionary

(* A bit array keeps its bits when its length changes, and its first() is   *)
(* its lowest one.                                                          *)
BitsKept == Bits!BitsKept /\ Bits!FirstIsLowest

(* The generator skips and repeats no byte of its keystream, and the CHECKs *)
(* of its code hold.                                                        *)
KeystreamContiguous == Random!KeystreamContiguous /\ Random!ChecksHold

(* A string object is its text and its length, searches find what occurs,   *)
(* a fixed buffer holds the beginning of a text, and a wildcard pattern      *)
(* matches what it describes.                                               *)
StringsHoldTexts ==
  /\ String!StringHoldsText /\ String!SearchesAgree /\ String!FixedBuffersHoldBeginnings
  /\ String!MatchIsGlob

(* Comments and nothing else are removed, lines end once, the parser knows  *)
(* its line and reads balanced blocks, numbers are read as they were        *)
(* written, and names of files lead where their paths lead.                 *)
ScannersAgree ==
  /\ Scan!CommentsRemoved /\ Scan!LinesEndOnce
  /\ Scan!LineIsPointers /\ Scan!BlockIsBalanced
  /\ Number!NumbersReadAsWritten
  /\ component = "filename" => Naming!NamesResolve

(* Every call of the generator returns. *)
CallReturns == component = "random" => Random!CallReturns
=============================================================================
