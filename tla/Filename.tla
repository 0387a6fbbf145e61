------------------------------ MODULE Filename -------------------------------
(***************************************************************************)
(* cFilename (Source/xStl/os/filename.cpp) with its one parser, that of    *)
(* DOS names (winFilename.cpp, of the Windows build): a name is made from  *)
(* a base and a path, relative or absolute, and becomes the next base.  A  *)
(* path is a sequence of characters, a drive's letter, a colon and a       *)
(* separator at its head if it is absolute.                                *)
(***************************************************************************)
EXTENDS Integers, Sequences, SequencesExt

CONSTANTS MaxRelative,   \* bound: characters of a path behind its drive
          MaxPath        \* bound: characters of a name behind its drive

VARIABLE m_filename

m_directorySeperatorWindows == "\\"
isDirectorySeperator(ch) == ch \in {"\\", "/"}
Letter == {"a", "c", "C", "d", "."}   \* that a name may hold; not a colon or a question mark
Drive == {"c", "C", "d"}
getLowercase(ch) == IF ch = "C" THEN "c" ELSE ch
icompare(name, other) ==
  /\ Len(name) = Len(other)
  /\ \A k \in DOMAIN name : getLowercase(name[k]) = getLowercase(other[k])

isAbsolutePath(path) ==
  Len(path) >= 3 /\ path[1] \in Drive /\ path[2] = ":" /\ isDirectorySeperator(path[3])
EndsInSeparator(path) == isDirectorySeperator(path[Len(path)])

(* The directories of an absolute path, read one by one: empty ones between *)
(* separators too, none behind the last.                                    *)
Ends(path) ==
  {k \in 4 .. Len(path) : isDirectorySeperator(path[k])}
    \cup (IF Len(path) > 3 /\ ~EndsInSeparator(path) THEN {Len(path) + 1} ELSE {})
readDirectories(path) ==
  LET ends == SetToSortSeq(Ends(path), <)
  IN [k \in DOMAIN ends |->
        SubSeq(path, IF k = 1 THEN 4 ELSE ends[k - 1] + 1, ends[k] - 1)]

isCurrentDirectoryMarker(name) == name = <<".">>
isPreviousDirectoryMarker(name) == name = <<".", ".">>
checkRelativeNameValidation(name) == \A k \in DOMAIN name : name[k] \in Letter

(* The stack of directories: the root has nothing before it.                *)
Pushed(directories, name) ==
  IF isCurrentDirectoryMarker(name) THEN directories
  ELSE IF ~isPreviousDirectoryMarker(name) THEN Append(directories, name)
  ELSE IF directories = <<>> THEN directories ELSE Front(directories)

(* The drive with the separator it came with, then the directories; the     *)
(* last is closed by a separator if the path was.                           *)
translateAbsolutePath(path) ==
  LET directories == FoldLeft(Pushed, <<>>, readDirectories(path))
      Closed(k) == k < Len(directories) \/ EndsInSeparator(path)
      Written(ret, k) ==
        ret \o directories[k] \o (IF Closed(k) THEN <<m_directorySeperatorWindows>> ELSE <<>>)
  IN FoldLeft(Written, SubSeq(path, 1, 3), [k \in DOMAIN directories |-> k])
TranslateThrows(path) ==
  \E k \in DOMAIN readDirectories(path) : ~checkRelativeNameValidation(readDirectories(path)[k])

enforceDirectory(name) ==
  IF EndsInSeparator(name) THEN name ELSE Append(name, m_directorySeperatorWindows)

FullPath(relative) == IF isAbsolutePath(relative) THEN relative ELSE m_filename \o relative
Named(relative, enforce) ==
  LET name == translateAbsolutePath(FullPath(relative))
  IN IF enforce THEN enforceDirectory(name) ELSE name

(* The constructor throws for a name that is illegal or, if it should not   *)
(* step backward, does not start as its base does.                          *)
Constructs(relative, shouldStepBackward, enforce) ==
  /\ ~TranslateThrows(FullPath(relative))
  /\ LET name == Named(relative, enforce)
     IN \/ shouldStepBackward
        \/ Len(name) >= Len(m_filename) /\ icompare(SubSeq(name, 1, Len(m_filename)), m_filename)

(* getLastDirectorySeparator, and the two halves of a name around it.       *)
LastSeparator(name) ==
  CHOOSE k \in 3 .. Len(name) :
    /\ isDirectorySeperator(name[k])
    /\ \A j \in k + 1 .. Len(name) : ~isDirectorySeperator(name[j])
getDirectoryName(name) == SubSeq(name, 1, LastSeparator(name))
getFilename(name) == SubSeq(name, LastSeparator(name) + 1, Len(name))

Relative ==
  UNION {[1 .. n -> {"\\", "/", ".", "a"}] : n \in 0 .. MaxRelative}
    \cup {<<"a", "/", "?">>, <<"d", ":", "a">>, <<"a", "\\", "a">>, <<".", ".", "\\", "a">>,
          <<"a", "\\", ".", ".">>, <<"a", "/", ".", ".", "/">>, <<".", ".", "/", ".", ".">>}
Path ==
  Relative \cup {<<drive, ":", separator>> \o rest :
                   drive \in Drive, separator \in {"\\", "/"}, rest \in Relative}

FilenameInit == \E drive \in Drive : m_filename = <<drive, ":", m_directorySeperatorWindows>>

cFilename ==
  \E relative \in Path, shouldStepBackward, enforce \in BOOLEAN :
    /\ Constructs(relative, shouldStepBackward, enforce)
    /\ Len(Named(relative, enforce)) <= MaxPath + 3
    /\ m_filename' = Named(relative, enforce)
-----------------------------------------------------------------------------
(* Read backwards, a name stays unless a step to the previous directory is  *)
(* left over behind it.                                                     *)
Resolved(path) ==
  LET names == readDirectories(path)
      pending[k \in 1 .. Len(names) + 1] ==
        IF k > Len(names) THEN 0
        ELSE IF names[k] = <<".", ".">> THEN pending[k + 1] + 1
        ELSE IF names[k] = <<".">> \/ pending[k + 1] = 0 THEN pending[k + 1]
        ELSE pending[k + 1] - 1
      Stays(k) == names[k] \notin {<<".">>, <<".", ".">>} /\ pending[k + 1] = 0
  IN [k \in 1 .. Cardinality({n \in DOMAIN names : Stays(n)}) |->
        names[CHOOSE n \in DOMAIN names :
                Stays(n) /\ Cardinality({j \in 1 .. n : Stays(j)}) = k]]

(* A name holds the directories that its path leads through, the empty ones *)
(* aside, with no marker left in it; to translate it again changes nothing; *)
(* it is its directory and its file.  One that must not step backward lies  *)
(* beneath its base, if that is a directory: of another base the text is    *)
(* compared, not its last name.                                             *)
NamesResolve ==
  \A relative \in Path, back, enforce \in BOOLEAN :
    Constructs(relative, back, enforce) =>
      LET name == Named(relative, enforce)
          names == readDirectories(name)
          NotEmpty(directories) == SelectSeq(directories, LAMBDA d : d # <<>>)
      IN /\ NotEmpty(names) = NotEmpty(Resolved(FullPath(relative)))
         /\ translateAbsolutePath(name) = name
         /\ getDirectoryName(name) \o getFilename(name) = name
         /\ enforce => getFilename(name) = <<>>
         /\ ~back /\ EndsInSeparator(m_filename) =>
              /\ getLowercase(name[1]) = getLowercase(m_filename[1])
              /\ readDirectories(m_filename) = SubSeq(names, 1, Len(readDirectories(m_filename)))

FilenameTypeOK == isAbsolutePath(m_filename) /\ Len(m_filename) <= MaxPath + 3
=============================================================================
