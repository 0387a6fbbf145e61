----------------------------- MODULE FileStream ------------------------------
(***************************************************************************)
(* cFileStream over cFile on Linux: file streams of one thread, the cFile  *)
(* objects they share by smart pointers, and handles that the program has  *)
(* opened itself and gives to a stream.  The system below has files, known *)
(* by their lengths, their names, and handles, the lowest free one first.  *)
(***************************************************************************)
EXTENDS Integers, FiniteSets

CONSTANTS Stream, Name,
          OpenFlags,          \* what is given to open: sets of the names of flags
          Handles,            \* bound: 1 .. n
          MaxFiles,           \* bound: files ever created
          MaxLength,          \* bound: of a file, and of the place in it
          Lends               \* whether a program gives away handles it keeps

VARIABLES disk,               \* the file of a name, or 0
          fileLength,
          handles,            \* [file, pointer, reads, writes], file 0: closed
          m_file,             \* the cFile of a stream, or 0
          cFile,              \* [m_handle, m_isReadable, m_isWriteable]
          opened,             \* ghost: the file a cFile was made for
          kept,               \* handles of the program itself
          piping              \* the pipeRead under way: [stream, left]

fileVars == <<disk, fileLength, handles, m_file, cFile, opened, kept, piping>>

Least(a, b) == IF a < b THEN a ELSE b
Lowest(S) == CHOOSE x \in S : \A y \in S : x <= y
NoStream == "none"
Object == 1 .. Cardinality(Stream) + 1
Files == 1 .. MaxFiles
Closed == [file |-> 0, pointer |-> 0, reads |-> FALSE, writes |-> FALSE]
Free == {h \in Handles : handles[h].file = 0}
Unused == {f \in Files : (\A n \in Name : disk[n] # f) /\ \A h \in Handles : handles[h].file # f}
NoPipe == [stream |-> NoStream, left |-> 0]
Quiet == piping = NoPipe
NoFile == [m_handle |-> 0, m_isReadable |-> FALSE, m_isWriteable |-> FALSE]

FileInit ==
  /\ disk \in [Name -> {0, 1}] /\ Cardinality({n \in Name : disk[n] = 1}) <= 1
  /\ fileLength = [f \in Files |-> IF f = 1 THEN MaxLength - 1 ELSE 0]
  /\ handles = [h \in Handles |-> Closed] /\ kept = {}
  /\ m_file = [s \in Stream |-> 0]
  /\ cFile = [o \in Object |-> NoFile] /\ opened = [o \in Object |-> 0] /\ piping = NoPipe

(* What the flags mean to the system, and to openHandle.                    *)
Reads(flags) == "WRITE" \notin flags
Writes(flags) == flags \cap {"WRITE", "READWRITE"} # {}
SystemReads(flags) == "READWRITE" \in flags \/ Reads(flags)
MadeFor(h, flags) ==
  [m_handle |-> h, m_isReadable |-> flags \cap {"READ", "READWRITE"} # {},
   m_isWriteable |-> Writes(flags)]

Holders(o) == {s \in Stream : m_file[s] = o}
Idle(o) == Holders(o) = {}

(* A stream gives up its cFile: with the last stream the destructor closes  *)
(* the handle, m_closeHandle or not.                                        *)
LastGoes(s) == m_file[s] # 0 /\ Holders(m_file[s]) = {s}
Released(s, hs) ==
  IF LastGoes(s) THEN [hs EXCEPT ![cFile[m_file[s]].m_handle] = Closed] ELSE hs
Without(s, objects, none) == IF LastGoes(s) THEN [objects EXCEPT ![m_file[s]] = none] ELSE objects

(* A new cFile of stream s, made before the old one is given up.            *)
NewFile(s, h, hs, flags) ==
  LET o == Lowest({x \in Object : Idle(x)})
  IN /\ cFile' = [Without(s, cFile, NoFile) EXCEPT ![o] = MadeFor(h, flags)]
     /\ opened' = [Without(s, opened, 0) EXCEPT ![o] = hs[h].file]
     /\ m_file' = [m_file EXCEPT ![s] = o]
     /\ handles' = Released(s, hs)

(* What opening a file of the system gives.                                 *)
OpensTo(f, flags) ==
  [file |-> f, pointer |-> 0, reads |-> SystemReads(flags), writes |-> Writes(flags)]

(* CREATE makes the file, or empties it, and the file is opened after that. *)
(* A call that throws, here and below, changes nothing unless it says so.   *)
open(s, n, flags) ==
  LET creates == "CREATE" \in flags /\ disk[n] = 0
      f == IF creates THEN Lowest(Unused) ELSE disk[n]
  IN /\ Quiet /\ Free # {} /\ (creates => Unused # {})
     /\ f # 0
     /\ disk' = [disk EXCEPT ![n] = f]
     /\ fileLength' = IF "CREATE" \in flags THEN [fileLength EXCEPT ![f] = 0] ELSE fileLength
     /\ NewFile(s, Lowest(Free), [handles EXCEPT ![Lowest(Free)] = OpensTo(f, flags)], flags)
     /\ UNCHANGED <<kept, piping>>

(* The program opens a handle; it gives it away, for good or to keep it;    *)
(* and it closes a handle it has kept.                                      *)
ProgramOpens(n) ==
  /\ Quiet /\ Free # {} /\ disk[n] # 0 /\ kept = {}
  /\ handles' = [handles EXCEPT ![Lowest(Free)] = OpensTo(disk[n], {"READWRITE"})]
  /\ kept' = kept \cup {Lowest(Free)}
  /\ UNCHANGED <<disk, fileLength, m_file, cFile, opened, piping>>
openHandle(s, h, closeHandle) ==
  /\ Quiet /\ h \in kept /\ (closeHandle \/ Lends)
  /\ NewFile(s, h, handles, {"READWRITE"})
  /\ kept' = IF closeHandle THEN kept \ {h} ELSE kept
  /\ UNCHANGED <<disk, fileLength, piping>>
ProgramCloses(h) ==
  /\ Quiet /\ h \in kept
  /\ handles' = [handles EXCEPT ![h] = Closed] /\ kept' = kept \ {h}
  /\ UNCHANGED <<disk, fileLength, m_file, cFile, opened, piping>>

(* A stream made on the cFile of another.                                   *)
Shares(s, other) ==
  /\ Quiet /\ m_file[s] = 0 /\ m_file[other] # 0
  /\ m_file' = [m_file EXCEPT ![s] = m_file[other]]
  /\ UNCHANGED <<disk, fileLength, handles, cFile, opened, kept, piping>>

close(s) ==
  /\ Quiet /\ m_file[s] # 0
  /\ m_file' = [m_file EXCEPT ![s] = 0]
  /\ handles' = Released(s, handles)
  /\ cFile' = Without(s, cFile, NoFile) /\ opened' = Without(s, opened, 0)
  /\ UNCHANGED <<disk, fileLength, kept, piping>>

deleteFile(n) ==
  /\ Quiet /\ disk' = [disk EXCEPT ![n] = 0]
  /\ UNCHANGED <<fileLength, handles, m_file, cFile, opened, kept, piping>>

(* The handle of a stream, and what the system holds for it.                *)
m_handle(s) == cFile[m_file[s]].m_handle
At(s) == IF m_file[s] = 0 THEN Closed ELSE handles[m_handle(s)]
LengthOf(s) == fileLength[At(s).file]
Left(s) == IF At(s).pointer < LengthOf(s) THEN LengthOf(s) - At(s).pointer ELSE 0
CanRead(s) == At(s).file # 0 /\ cFile[m_file[s]].m_isReadable /\ At(s).reads
CanWrite(s) == At(s).file # 0 /\ cFile[m_file[s]].m_isWriteable /\ At(s).writes
Moved(s, to) == handles' = [handles EXCEPT ![m_handle(s)].pointer = to]
Rest == UNCHANGED <<disk, m_file, cFile, opened, kept>>

(* length moves to the end and back, and takes the length 0 for a failure,  *)
(* throws, and leaves the pointer there.                                    *)
LengthThrows(s) == IF At(s).file = 0 THEN TRUE ELSE LengthOf(s) = 0
length(s) ==
  /\ Quiet /\ At(s).file # 0 /\ LengthThrows(s) /\ Moved(s, 0)
  /\ Rest /\ UNCHANGED <<fileLength, piping>>

write(s, k) ==
  /\ Quiet /\ CanWrite(s) /\ At(s).pointer + k <= MaxLength
  /\ Moved(s, At(s).pointer + k)
  /\ fileLength' = [fileLength EXCEPT ![At(s).file] =
                      IF @ < At(s).pointer + k THEN At(s).pointer + k ELSE @]
  /\ Rest /\ UNCHANGED piping

(* seek goes anywhere from the start on, beyond the end too.  Where initSeek*)
(* was not called it may also throw.                                        *)
seek(s, to) ==
  /\ Quiet /\ At(s).file # 0 /\ to \in 0 .. MaxLength /\ Moved(s, to)
  /\ Rest /\ UNCHANGED <<fileLength, piping>>

(* pipeRead: turns of read and isEOS, until all is read or at the end.      *)
pipeRead(s, k) ==
  /\ Quiet /\ CanRead(s) /\ piping' = [stream |-> s, left |-> k]
  /\ Rest /\ UNCHANGED <<fileLength, handles>>
isEOS(s, pointer) == pointer = LengthOf(s)
PipeTurn ==
  /\ ~Quiet
  /\ LET s == piping.stream
         k == Least(piping.left, Left(s))
         pointer == At(s).pointer + k
     IN IF LengthThrows(s)
          THEN Moved(s, 0) /\ piping' = NoPipe
          ELSE /\ Moved(s, pointer)
               /\ piping' = IF k = piping.left \/ isEOS(s, pointer)
                              THEN NoPipe ELSE [piping EXCEPT !.left = @ - k]
  /\ Rest /\ UNCHANGED fileLength

FileNext ==
  \/ PipeTurn
  \/ \E n \in Name : ProgramOpens(n) \/ deleteFile(n)
  \/ \E h \in Handles : ProgramCloses(h)
  \/ \E s \in Stream :
       \/ close(s) \/ length(s)
       \/ \E n \in Name, flags \in OpenFlags : open(s, n, flags)
       \/ \E other \in Stream : Shares(s, other)
       \/ \E h \in Handles, closeHandle \in BOOLEAN : openHandle(s, h, closeHandle)
       \/ \E k \in 1 .. MaxLength : write(s, k) \/ pipeRead(s, k)
       \/ \E to \in 0 .. MaxLength : seek(s, to)
-----------------------------------------------------------------------------
FileTypeOK ==
  /\ \A n \in Name : disk[n] \in Files \cup {0}
  /\ \A h \in Handles : handles[h].file \in Files \cup {0} /\ handles[h].pointer \in 0 .. MaxLength
  /\ \A s \in Stream : m_file[s] \in Object \cup {0}

(* Where nobody gives away a handle and keeps it, a stream stays on the     *)
(* file it was opened on, whoever else opens, shares and closes, no two     *)
(* objects have one handle, and every open handle is somebody's.            *)
StreamsStayOnFiles ==
  Lends \/
    /\ \A s \in Stream : m_file[s] # 0 => At(s).file # 0 /\ At(s).file = opened[m_file[s]]
    /\ \A s, t \in Stream : m_file[s] # 0 /\ m_file[t] # 0 /\ m_handle(s) = m_handle(t) => m_file[s] = m_file[t]
    /\ \A h \in Handles \ Free : h \in kept \/ \E s \in Stream : m_file[s] # 0 /\ m_handle(s) = h

(* pipeRead of a file that is not empty ends, unless it starts beyond the   *)
(* end of the file, where isEOS is never true.                              *)
BeyondEnd == ~Quiet /\ At(piping.stream).pointer > LengthOf(piping.stream)
FileReadEnds == (~Quiet /\ ~BeyondEnd) ~> Quiet
=============================================================================
