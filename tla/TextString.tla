----------------------------- MODULE TextString ------------------------------
(***************************************************************************)
(* cString: an array of characters that ends in a null character, with the *)
(* length cached beside it.  getBuffer() hands the array out to be written *)
(* in place, and the string is whole again after rearrangeStringVector().  *)
(* Characters are numbers in the order of their codes: the null character, *)
(* a blank, the upper case letters, the lower case letters.                *)
(* Beside the strings, cWildcardMatcher: a string against a pattern in     *)
(* which '?' stands for a character and '*' for any number of them.        *)
(***************************************************************************)
EXTENDS Integers, Sequences, FiniteSets

CONSTANTS Letters,      \* how many letters the alphabet has
          MaxText,      \* bound: the longest string of a history
          MaxPattern    \* bound: the longest pattern, and subject of one

VARIABLES strings,      \* two string objects: buffer and cached length
          edited,       \* the objects whose buffer a caller has written
          texts,        \* ghost: the text each object stands for
          subject, pattern    \* what the matcher compares

stringVars == <<strings, edited, texts>>
wildVars == <<subject, pattern>>

Name == {"s", "t"}
Null == 0
Blank == 1
Upper == 2 .. 1 + Letters
Lower == 2 + Letters .. 1 + 2 * Letters
Star == 2 + 2 * Letters        \* these two in patterns only
Question == 3 + 2 * Letters
Character == {Blank} \cup Upper \cup Lower
Text == UNION {[1 .. n -> Character] : n \in 0 .. MaxText}

getUppercase(c) == IF c \in Lower THEN c - Letters ELSE c
getLowercase(c) == IF c \in Upper THEN c + Letters ELSE c
isBlanket(c) == c = Blank

AtMost(n, m) == IF n < m THEN n ELSE m
Lowest(S) == CHOOSE n \in S : \A m \in S : n <= m
Highest(S) == CHOOSE n \in S : \A m \in S : m <= n
Drop(text, n) == SubSeq(text, n + 1, Len(text))
Mapped(text, Op(_)) == [k \in 1 .. Len(text) |-> Op(text[k])]
-----------------------------------------------------------------------------
(* A buffer is read up to its first null character.                         *)
getStrlen(buffer) == Lowest({k \in 1 .. Len(buffer) : buffer[k] = Null}) - 1

rearrangeStringVector(buffer) ==
  LET n == getStrlen(buffer) IN [buffer |-> SubSeq(buffer, 1, n + 1), length |-> n]

createEmptyString == [buffer |-> <<Null>>, length |-> 0]
create(text) == [buffer |-> Append(text, Null), length |-> Len(text)]
createCharacter(c) == rearrangeStringVector(<<c, Null>>)
(* What length() and the destructor assert.                                 *)
IsWhole(this) == this.buffer[this.length + 1] = Null /\ getStrlen(this.buffer) = this.length
(* The copy constructor takes the length over, assignment counts anew.      *)
copy(other) == other
assign(other) == rearrangeStringVector(other.buffer)

part(this, from, to) ==
  LET index1 == AtMost(from, this.length)
      index2 == AtMost(to, this.length)
  IN IF from > to \/ index1 = index2 THEN createEmptyString
     ELSE rearrangeStringVector(Append(SubSeq(this.buffer, index1 + 1, index2), Null))
mid(this, index, size) ==
  IF size <= 0 THEN createEmptyString ELSE part(this, index, index + size)
left(this, wanted) ==
  LET size == AtMost(wanted, this.length)
  IN IF size <= 0 THEN createEmptyString
     ELSE rearrangeStringVector(Append(SubSeq(this.buffer, 1, size), Null))
right(this, wanted) ==
  LET size == AtMost(wanted, this.length)
  IN IF size <= 0 THEN createEmptyString
     ELSE rearrangeStringVector(Drop(this.buffer, this.length - size))

(* The buffer that concat() leaves for the rearrangement: the own text      *)
(* without its null, then the whole memory of the other.                    *)
JoinedWhole(this, other) == this.buffer \o other.buffer    \* a faulty variant
Joined(this, other) == SubSeq(this.buffer, 1, this.length) \o other.buffer
concat(this, other) == rearrangeStringVector(Joined(this, other))

(* A character is put in the place of the last element, a null behind it.   *)
appendChar(this, c) ==
  [buffer |-> SubSeq(this.buffer, 1, Len(this.buffer) - 1) \o <<c, Null>>,
   length |-> this.length + 1]

(* The operators + append to a copy; a null is not appended.                *)
plus(this, other) == concat(copy(this), other)
plusCharacter(this, c) == IF c = Null THEN this ELSE appendChar(copy(this), c)

(* The memory that getBuffer() hands out: what is added to it is not set.   *)
getBuffer(this, lockSize) ==
  {this.buffer \o added : added \in [1 .. lockSize - Len(this.buffer) -> {Null, Blank}]}

makeUpper(this) ==
  [this EXCEPT !.buffer = [k \in DOMAIN @ |-> IF k <= this.length THEN getUppercase(@[k]) ELSE @[k]]]
makeLower(this) ==
  [this EXCEPT !.buffer = [k \in DOMAIN @ |-> IF k <= this.length THEN getLowercase(@[k]) ELSE @[k]]]

trim(this) ==
  LET Solid == {k \in 1 .. this.length : ~isBlanket(this.buffer[k])}
      index == IF Solid = {} THEN this.length ELSE Lowest(Solid) - 1
      size == IF Solid = {} THEN 0 ELSE Highest(Solid) - index
  IN IF this.length = 0 \/ (index = 0 /\ size = this.length) THEN this
     ELSE assign(mid(this, index, size))

(* Of every run of blanks the first is kept: firstSpace is set again by a   *)
(* character that is not blank.                                             *)
trimAllSpaces(this) ==
  LET trimmed == trim(this)
      Keeps(k) == ~isBlanket(trimmed.buffer[k]) \/ k = 1 \/ ~isBlanket(trimmed.buffer[k - 1])
      kept[k \in 0 .. trimmed.length] ==
        IF k = 0 THEN createEmptyString
        ELSE IF Keeps(k) THEN appendChar(kept[k - 1], trimmed.buffer[k]) ELSE kept[k - 1]
  IN assign(kept[trimmed.length])
-----------------------------------------------------------------------------
(* The inner loop of both searches, at position i of the string.            *)
MatchesAt(this, string, i) ==
  /\ i + string.length <= this.length
  /\ \A k \in 1 .. string.length : this.buffer[i + k] = string.buffer[k]

find(this, string, startIndex) ==
  LET len == this.length - string.length + 1
      Found == {i \in startIndex .. len - 1 : MatchesAt(this, string, i)}
  IN IF string.length = 0 THEN startIndex
     ELSE IF this.length < string.length \/ Found = {} THEN this.length
     ELSE Lowest(Found)

rfind(this, string, startIndex) ==
  LET from == AtMost(startIndex, this.length - string.length)
      Found == {i \in 0 .. from : MatchesAt(this, string, i)}
  IN IF string.length = 0 THEN startIndex
     ELSE IF this.length = 0 THEN 0
     ELSE IF this.length < string.length \/ Found = {} THEN this.length
     ELSE Highest(Found)

(* One turn of replace(), for a place where the string was found.           *)
ReplacedAt(this, pos, findString, replaceString) ==
  concat(concat(left(this, pos), replaceString),
         right(this, this.length - pos - findString.length))

(* What replace() comes to, or "endless": at most MaxTurns turns are taken, *)
(* more than any string of a history needs when no match is made anew.      *)
MaxTurns == 2 * MaxText
replace(this, findString, replaceString) ==
  LET turn[n \in 0 .. MaxTurns] ==
        IF n = 0 THEN [string |-> this, done |-> FALSE]
        ELSE LET before == turn[n - 1]
                 pos == find(before.string, findString, 0)
             IN IF before.done \/ pos = before.string.length
                  THEN [before EXCEPT !.done = TRUE]
                  ELSE [before EXCEPT !.string =
                          ReplacedAt(before.string, pos, findString, replaceString)]
  IN turn[MaxTurns]

(* The pieces of split(): every search starts one position after the last.  *)
split(this, divider) ==
  LET turn[n \in 0 .. this.length + 1] ==
        IF n = 0 THEN [pieces |-> <<>>, index |-> 0, lastIndex |-> 0, done |-> FALSE]
        ELSE LET before == turn[n - 1]
                 index == find(this, divider, before.index + 1)
             IN IF before.done THEN before
                ELSE [pieces |-> Append(before.pieces, part(this, before.lastIndex, index)),
                      index |-> index, lastIndex |-> index + divider.length,
                      done |-> index = this.length]
  IN turn[this.length + 1]

dup(object, number) ==
  LET ret[n \in 0 .. number] == IF n = 0 THEN createEmptyString ELSE concat(ret[n - 1], object)
  IN ret[number]
pad(object, number) ==
  IF object.length >= number THEN object
  ELSE concat(object, dup(create(<<Blank>>), number - object.length))

(* wcscmp and wcscasecmp: the first place where the texts differ decides.   *)
Sign(n) == IF n < 0 THEN -1 ELSE IF n > 0 THEN 1 ELSE 0
strcmp(one, two) ==
  LET Differ == {k \in 1 .. AtMost(Len(one), Len(two)) : one[k] # two[k]}
      k == Lowest(Differ)
  IN IF Differ = {} THEN 0 ELSE Sign(one[k] - two[k])
compare(this, other) == strcmp(this.buffer, other.buffer)
icompare(this, other) ==
  strcmp(Mapped(this.buffer, getLowercase), Mapped(other.buffer, getLowercase))
Equals(this, other) == compare(this, other) = 0
LessThan(this, other) == icompare(this, other) = -1
GreaterThan(this, other) == ~LessThan(this, other) /\ ~Equals(this, other)

(* Texts in a caller's buffer of a fixed size: what does not fit is cut.    *)
strncpy(source, count) ==
  [k \in 1 .. count |-> IF k <= getStrlen(source) /\ k # count THEN source[k] ELSE Null]
strappend(dest, source, count) ==
  LET n == getStrlen(dest)
      end == n + AtMost(getStrlen(source), count - n - 1)
  IN [k \in DOMAIN dest |-> IF k \in {end + 1, count} THEN Null
                            ELSE IF k \in n + 1 .. end THEN source[k - n] ELSE dest[k]]
-----------------------------------------------------------------------------
(* The histories: every call of one object with the other as its argument.  *)
StringInit ==
  /\ strings = [x \in Name |-> createEmptyString]
  /\ edited = {} /\ texts = [x \in Name |-> <<>>]

Becomes(x, string, text) ==
  /\ x \notin edited /\ Len(text) <= MaxText
  /\ strings' = [strings EXCEPT ![x] = string]
  /\ texts' = [texts EXCEPT ![x] = text]
  /\ UNCHANGED edited

Create(x) ==
  \/ \E text \in Text : Len(text) <= 2 /\ Becomes(x, create(text), text)
  \/ \E c \in Character : Becomes(x, createCharacter(c), <<c>>)
  \/ Becomes(x, createCharacter(Null), <<>>)
AppendChar(x) ==
  \E c \in Character : Becomes(x, appendChar(strings[x], c), Append(texts[x], c))

(* The other object may be in the middle of an edit, as long as its length  *)
(* is not used.  A string is not appended to itself: it has lost its null   *)
(* before it is copied, and its length is then counted beyond the buffer.   *)
Concat(x, y) == x # y /\ Becomes(x, concat(strings[x], strings[y]), texts[x] \o texts[y])
(* The sum is assigned: here a string may be added to itself.               *)
Sum(x, y) == Becomes(x, assign(plus(strings[x], strings[y])), texts[x] \o texts[y])
SumCharacter(x) ==
  \E c \in Character \cup {Null} :
    Becomes(x, assign(plusCharacter(strings[x], c)), IF c = Null THEN texts[x] ELSE Append(texts[x], c))
Copy(x, y) == x # y /\ y \notin edited /\ Becomes(x, copy(strings[y]), texts[y])
Assign(x, y) == x # y /\ Becomes(x, assign(strings[y]), texts[y])

(* Changes of the text in place, with what each of them promises.           *)
SolidPlaces(text) == {k \in 1 .. Len(text) : text[k] # Blank}
TrimmedText(text) ==
  IF SolidPlaces(text) = {} THEN <<>>
  ELSE SubSeq(text, Lowest(SolidPlaces(text)), Highest(SolidPlaces(text)))
SqueezedText(text) ==
  LET trimmed == TrimmedText(text)
      Second(k) == k > 1 /\ trimmed[k] = Blank /\ trimmed[k - 1] = Blank
      Kept(k) == Cardinality({j \in 1 .. k : ~Second(j)})
  IN [n \in 1 .. Kept(Len(trimmed)) |->
        trimmed[CHOOSE k \in 1 .. Len(trimmed) : ~Second(k) /\ Kept(k) = n]]

MakeUpper(x) == Becomes(x, makeUpper(strings[x]), Mapped(texts[x], getUppercase))
MakeLower(x) == Becomes(x, makeLower(strings[x]), Mapped(texts[x], getLowercase))
Trim(x) == Becomes(x, trim(strings[x]), TrimmedText(texts[x]))
TrimAllSpaces(x) == Becomes(x, trimAllSpaces(strings[x]), SqueezedText(texts[x]))

Cut(x) ==
  \E from, to \in 0 .. MaxText + 1 :
    \/ Becomes(x, assign(part(strings[x], from, to)),
               SubSeq(texts[x], from + 1, AtMost(to, Len(texts[x]))))
    \/ /\ from = 0
       /\ \/ Becomes(x, assign(left(strings[x], to)), SubSeq(texts[x], 1, AtMost(to, Len(texts[x]))))
          \/ Becomes(x, assign(right(strings[x], to)),
                     Drop(texts[x], Len(texts[x]) - AtMost(to, Len(texts[x]))))

(* A careful caller replaces what does not occur in the replacement.        *)
Replace(x, y) ==
  \E c \in Character :
    LET done == replace(strings[x], create(<<c>>), strings[y])
        Each(k) == IF texts[x][k] = c THEN texts[y] ELSE <<texts[x][k]>>
        all[k \in 0 .. Len(texts[x])] == IF k = 0 THEN <<>> ELSE all[k - 1] \o Each(k)
    IN /\ x # y /\ y \notin edited /\ \A k \in DOMAIN texts[y] : texts[y][k] # c
       /\ Becomes(x, done.string, all[Len(texts[x])])

Pad(x) ==
  \E number \in 0 .. MaxText :
    Becomes(x, assign(pad(strings[x], number)),
            texts[x] \o [k \in 1 .. number - Len(texts[x]) |-> Blank])

(* getBuffer() with room for a text, written; the memory behind its null    *)
(* keeps what was there.                                                    *)
Edit(x) ==
  \E text \in Text, lockSize \in 3 .. MaxText + 1 :
    \E memory \in getBuffer(strings[x], lockSize) :
      /\ Len(text) = 2 /\ x \notin edited
      /\ edited' = edited \cup {x}
      /\ strings' = [strings EXCEPT ![x].buffer = Append(text, Null) \o Drop(memory, Len(text) + 1)]
      /\ texts' = [texts EXCEPT ![x] = text]
(* A write through operator []: a null cuts the text, and the length is     *)
(* wrong until the string is rearranged.                                    *)
SetAt(x) ==
  \E index \in 0 .. Len(texts[x]) - 1, c \in Character \cup {Null} :
    /\ strings' = [strings EXCEPT ![x].buffer[index + 1] = c]
    /\ IF c = Null
         THEN texts' = [texts EXCEPT ![x] = SubSeq(@, 1, index)] /\ edited' = edited \cup {x}
         ELSE texts' = [texts EXCEPT ![x][index + 1] = c] /\ UNCHANGED edited
Rearrange(x) ==
  /\ x \in edited /\ edited' = edited \ {x}
  /\ strings' = [strings EXCEPT ![x] = rearrangeStringVector(@.buffer)]
  /\ UNCHANGED texts

StringNext ==
  \E x, y \in Name :
    \/ Create(x) \/ AppendChar(x) \/ Concat(x, y) \/ Copy(x, y) \/ Assign(x, y)
    \/ Sum(x, y) \/ SumCharacter(x) \/ SetAt(x)
    \/ MakeUpper(x) \/ MakeLower(x) \/ Trim(x) \/ TrimAllSpaces(x)
    \/ Cut(x) \/ Replace(x, y) \/ Pad(x) \/ Edit(x) \/ Rearrange(x)
-----------------------------------------------------------------------------
(* A character of the pattern that must be equal.  What follows a '*' is    *)
(* matched by a call that leaves the argument isCaseSensetive out.          *)
SameCharacter(c, d, isCaseSensetive) ==
  IF isCaseSensetive THEN c = d ELSE getUppercase(c) = getUppercase(d)

(* match() of the rest of the string from i with the rest of the pattern    *)
(* from p: the loop that has come to the end of the pattern says yes.       *)
match(string, wildcardPattern, caseSensetive) ==
  LET matches[i \in 0 .. Len(string), p \in 0 .. Len(wildcardPattern), sensitive \in BOOLEAN] ==
        LET ch == wildcardPattern[p + 1]
        IN IF p = Len(wildcardPattern) THEN TRUE
           ELSE IF ch = Star
             THEN \/ p + 1 = Len(wildcardPattern)
                  \/ \E j \in i .. Len(string) - 1 : matches[j, p + 1, TRUE]
           ELSE /\ i < Len(string)
                /\ ch = Question \/ SameCharacter(string[i + 1], ch, sensitive)
                /\ matches[i + 1, p + 1, sensitive]
  IN IF wildcardPattern = <<>> THEN string = <<>> ELSE matches[0, 0, caseSensetive]

(* Subject and pattern grow by a character at a time, so that every short  *)
(* pair is compared.                                                        *)
WildInit == subject = <<>> /\ pattern = <<>>
WildNext ==
  \/ /\ Len(subject) < MaxPattern
     /\ \E c \in Upper \cup Lower : subject' = Append(subject, c)
     /\ UNCHANGED pattern
  \/ /\ Len(pattern) < MaxPattern
     /\ \E c \in Upper \cup Lower \cup {Star, Question} : pattern' = Append(pattern, c)
     /\ UNCHANGED subject
-----------------------------------------------------------------------------
(* Outside an edit an object is its text, its null and its exact length;    *)
(* during one, its memory still begins with the text and a null.            *)
StringHoldsText ==
  \A x \in Name :
    /\ x \notin edited => IsWhole(strings[x]) /\ strings[x] = create(texts[x])
    /\ SubSeq(strings[x].buffer, 1, Len(texts[x]) + 1) = Append(texts[x], Null)

(* The searches find the first and the last place where a text occurs, and  *)
(* say the length where it does not; the pieces of a string split at one    *)
(* character give the string when joined again, and only the first of them  *)
(* may contain the divider, at its beginning; the order of strings that     *)
(* differ in more than case is a strict one.                                *)
OccursAt(text, word, i) == i + Len(word) <= Len(text) /\ SubSeq(text, i + 1, i + Len(word)) = word
SearchesAgree ==
  edited = {} =>
    LET s == strings["s"]
        t == strings["t"]
        Places == {i \in 0 .. Len(texts["s"]) : OccursAt(texts["s"], texts["t"], i)}
    IN /\ texts["t"] # <<>> =>
            \A i \in 0 .. MaxText :
              /\ LET Later == Places \cap i .. MaxText
                 IN find(s, t, i) = IF Later = {} THEN s.length ELSE Lowest(Later)
              /\ LET Sooner == Places \cap 0 .. i
                 IN rfind(s, t, i) = IF Sooner = {} THEN s.length ELSE Highest(Sooner)
       /\ Len(texts["t"]) = 1 /\ texts["s"] # <<>> =>
            LET done == split(s, t)
                joined[n \in 1 .. Len(done.pieces)] ==
                  IF n = 1 THEN done.pieces[1]
                  ELSE concat(concat(joined[n - 1], t), done.pieces[n])
            IN /\ done.done /\ joined[Len(done.pieces)] = s
               /\ \A n \in 1 .. Len(done.pieces) :
                    LET piece == done.pieces[n]
                    IN find(piece, t, IF n = 1 THEN 1 ELSE 0) = piece.length
       /\ icompare(s, t) # 0 => GreaterThan(s, t) = LessThan(t, s)
       /\ Equals(s, t) <=> texts["s"] = texts["t"]

(* A buffer of a fixed size holds the beginning of what was copied and then *)
(* appended to it, as much as fits in front of a null, however it is cut.   *)
FixedBuffersHoldBeginnings ==
  edited = {} =>
    \A count \in 1 .. MaxText + 2 :
      LET both == texts["s"] \o texts["t"]
          buffer == strappend(strncpy(strings["s"].buffer, count), strings["t"].buffer, count)
      IN SubSeq(buffer, 1, getStrlen(buffer)) = SubSeq(both, 1, AtMost(Len(both), count - 1))

(* A text that a pattern describes: its characters are laid along the text, *)
(* those of a '*' over any stretch of it.                                   *)
Describes(text, glob, Same(_, _, _)) ==
  \E at \in [0 .. Len(glob) -> 0 .. Len(text)] :
    /\ at[0] = 0 /\ at[Len(glob)] = Len(text)
    /\ \A k \in 1 .. Len(glob) :
         IF glob[k] = Star THEN at[k - 1] <= at[k]
         ELSE /\ at[k] = at[k - 1] + 1
              /\ glob[k] = Question \/ Same(k, text[at[k]], glob[k])

(* A string that matches begins as the pattern describes, in the case that  *)
(* was asked for.  The other way round, a string that the pattern describes *)
(* to its end matches, if no '*' follows another at once, and if what is    *)
(* behind a '*' is described in the right case.                             *)
MatchIsGlob ==
  \A sensitive \in BOOLEAN :
    LET StarBefore(k) == \E j \in 1 .. k - 1 : pattern[j] = Star
        AsAsked(k, c, d) == SameCharacter(c, d, sensitive)
        Closely(k, c, d) == SameCharacter(c, d, sensitive \/ StarBefore(k))
        Lone == \A k \in 1 .. Len(pattern) - 1 : pattern[k] # Star \/ pattern[k + 1] # Star
    IN /\ match(subject, pattern, sensitive)
            => \E end \in 0 .. Len(subject) : Describes(SubSeq(subject, 1, end), pattern, AsAsked)
       /\ Lone /\ Describes(subject, pattern, Closely) => match(subject, pattern, sensitive)

StringTypeOK ==
  /\ \A x \in Name : /\ DOMAIN strings[x] = {"buffer", "length"}
                     /\ strings[x].length \in Nat /\ texts[x] \in Text
  /\ edited \subseteq Name

WildTypeOK ==
  /\ subject \in Seq(Upper \cup Lower)
  /\ pattern \in Seq(Upper \cup Lower \cup {Star, Question})
=============================================================================
