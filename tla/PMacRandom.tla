---------------------------- MODULE PMacRandom ------------------------------
(***************************************************************************)
(* cPMacRandom (Source/xStl/enc/random/pmacRnd.cpp), the user of           *)
(* cQueueFifo: a keystream made of HMAC blocks of DigestLength bytes,      *)
(* handed out in requests of any length through a queue of exactly one     *)
(* block.  A byte is represented by its position in the keystream, the     *)
(* value m_a = A(i) by its index i.                                        *)
(***************************************************************************)
EXTENDS Naturals, Sequences

CONSTANTS DigestLength,  \* m_hmac->getDigestLength(), the size of the queue
          MaxLength,     \* bound of TLC: the longest request
          MaxBlock       \* bound of TLC: the number of blocks generated

VARIABLES m_queue, m_readPointer, m_writePointer, m_isFull, reply,
          m_a,      \* the index of the last chain value
          length,   \* the bytes the call in progress still owes
          output,   \* the bytes it has produced
          pc,       \* "idle", "loop", or "thrown" once a CHECK failed
          start     \* history: the keystream bytes handed out by earlier calls

queueVars == <<m_queue, m_readPointer, m_writePointer, m_isFull, reply>>
vars == <<queueVars, m_a, length, output, pc, start>>

Position == 1 .. MaxBlock * DigestLength

Queue == INSTANCE QueueFifo WITH
           Size <- DigestLength, Byte <- Position, MaxCount <- DigestLength

(* The i-th block: HMAC_hash(secret, A(i) + seed). *)
Block(i) == [k \in 1 .. DigestLength |-> (i - 1) * DigestLength + k]

Init ==
  /\ m_queue = [c \in Queue!Cells |-> 1]
  /\ m_readPointer = 0 /\ m_writePointer = 0 /\ m_isFull = FALSE
  /\ reply = <<>>
  /\ m_a = 0 /\ length = 0 /\ output = <<>> /\ pc = "idle" /\ start = 0

generateRandom(request) ==
  /\ pc = "idle"
  /\ pc' = "loop"
  /\ length' = request
  /\ output' = <<>>
  /\ start' = start + Len(output)
  /\ UNCHANGED <<queueVars, m_a>>

NeedsBlock == Queue!getOccupyspace = 0

(* The queue is empty: chain to the next A(i) and store its whole block. *)
Refill ==
  /\ pc = "loop" /\ length > 0 /\ NeedsBlock
  /\ m_a < MaxBlock
  /\ m_a' = m_a + 1
  /\ Queue!write(Block(m_a'))
  /\ pc' = IF Len(reply') = DigestLength THEN "loop" ELSE "thrown"
  /\ UNCHANGED <<length, output, start>>

(* Faulty: waits until the queue can serve all that is owed. *)
TakeAllOrNothing(rest) == IF rest >= length THEN length ELSE 0

Take(rest) == IF rest >= length THEN length ELSE rest

Deliver ==
  LET count == Take(Queue!getOccupyspace)
  IN  /\ pc = "loop" /\ length > 0 /\ ~NeedsBlock
      /\ Queue!read(count)
      /\ output' = output \o reply'
      /\ length' = IF count > length THEN 0 ELSE length - count
      /\ pc' = IF Len(reply') = count THEN "loop" ELSE "thrown"
      /\ UNCHANGED <<m_a, start>>

Return ==
  /\ pc = "loop" /\ length = 0
  /\ pc' = "idle"
  /\ UNCHANGED <<queueVars, m_a, length, output, start>>

(* The steps of the call in progress. *)
Proceed == Refill \/ Deliver \/ Return

Next == (\E request \in 0 .. MaxLength : generateRandom(request)) \/ Proceed
-----------------------------------------------------------------------------
(* However the requests are cut, across block boundaries and wraps of the  *)
(* queue, the bytes handed out are the keystream: none skipped, none twice.*)
KeystreamContiguous == \A k \in 1 .. Len(output) : output[k] = start + k

(* Neither CHECK of generateRandom can fail: the queue takes a whole block *)
(* when it is refilled and holds what it said it holds.                    *)
ChecksHold == pc # "thrown"

(* A call returns unless the bound on blocks stops the run: the loop never *)
(* spins without progress.                                                 *)
CallReturns == (pc = "loop" /\ m_a < MaxBlock) ~> (pc = "idle" \/ m_a = MaxBlock)
=============================================================================
