---------------------------- MODULE SocketStream -----------------------------
(***************************************************************************)
(* cSocketStream on Linux: a client and the socket a server accepts, the   *)
(* listening socket between them, and pipeRead and pipeWrite over read and *)
(* write.  The system below is a reliable connection of limited room.      *)
(* Bytes are numbered in the order they are sent.  One connection at a     *)
(* time, and its sockets are used by one thread each.                      *)
(***************************************************************************)
EXTENDS Integers, Sequences

CONSTANTS Waits,              \* the timeouts a socket is made with
          Room,               \* how many bytes a socket takes before they are read
          Lengths,            \* the lengths of calls
          MaxBytes,           \* bound: bytes of the client, over one connection
          MaxReplies,         \* bound: those of the server
          Setters,            \* bound: the ends that set their timeouts again
          MaxConnections      \* bound: connections ever made

VARIABLES listening,          \* the listening socket: "none", "created", "bound", "listening"
          m_isInit,           \* of the two ends, as all that follow
          m_isClosed,
          timeout,            \* m_readTimeout and m_writeTimeout
          connection,         \* the system's end: "none", "waiting", "open", "closed"
          broken,             \* a reset: "no", "yes", "told" when a call has thrown it
          queue,              \* the bytes that have arrived
          sent, received,     \* ghost: the bytes of this connection
          at,                 \* the call of an end, or "idle", or "killed"
          left,               \* bytes it has still to move
          array,              \* how many bytes of the connection its caller had done before them
          threw,              \* how the last call ended
          connections

socketVars == <<listening, m_isInit, m_isClosed, timeout, connection, broken,
                queue, sent, received, at, left, array, threw, connections>>

INFINITIE_TIMEOUT == -1       \* the timeout that is to mean for ever
Timeouts == Waits \cup {INFINITIE_TIMEOUT}

End == {"client", "server"}
Peer(e) == IF e = "client" THEN "server" ELSE "client"
Bound(e) == IF e = "client" THEN MaxBytes ELSE MaxReplies
Reading == {"read", "pipeRead"}
Writing == {"write", "pipeWrite"}
way(e) == IF at[e] \in Reading THEN "read" ELSE "write"
Least(a, b) == IF a < b THEN a ELSE b
Both(x) == [e \in End |-> x]
Ways(x) == [kind \in {"read", "write"} |-> x]

SocketInit ==
  /\ listening = "none" /\ m_isInit = Both(FALSE) /\ m_isClosed = Both(FALSE)
  /\ \E t \in Timeouts : timeout = Both(Ways(t))
  /\ connection = Both("none") /\ broken = Both("no") /\ queue = Both(<<>>)
  /\ sent = Both(<<>>) /\ received = Both(<<>>)
  /\ at = Both("idle") /\ left = Both(0) /\ array = Both(0) /\ threw = Both(FALSE) /\ connections = 0

Bytes == <<sent, received>>
Call == <<at, left, array>>
Ended(e, thrown) ==
  /\ at' = [at EXCEPT ![e] = "idle"] /\ left' = [left EXCEPT ![e] = 0]
  /\ array' = [array EXCEPT ![e] = 0] /\ threw' = [threw EXCEPT ![e] = thrown]

(* create, bind and listen of the listening socket. *)
Listen ==
  /\ listening # "listening"
  /\ listening' = CASE listening = "none" -> "created"
                    [] listening = "created" -> "bound"
                    [] OTHER -> "listening"
  /\ UNCHANGED <<m_isInit, m_isClosed, timeout, connection, broken, queue, Bytes, Call, threw, connections>>

(* What the system does when an end is shut down and closed: bytes that     *)
(* nobody will read break the connection.                                   *)
HangUp(e) ==
  /\ connection' = IF connection[e] = "open" THEN [connection EXCEPT ![e] = "closed"] ELSE connection
  /\ queue' = [queue EXCEPT ![e] = <<>>]
  /\ broken' = IF connection[e] = "open" /\ queue[e] # <<>> /\ broken[Peer(e)] = "no"
                 THEN [broken EXCEPT ![Peer(e)] = "yes"] ELSE broken

create(e) ==
  /\ at[e] = "idle" /\ e = "client" /\ connections < MaxConnections
  /\ HangUp(e)
  /\ m_isInit' = [m_isInit EXCEPT ![e] = TRUE]
  /\ UNCHANGED <<listening, m_isClosed, timeout, Bytes, Call, threw, connections>>

close(e) ==
  /\ at[e] = "idle" /\ m_isInit[e]
  /\ HangUp(e) /\ m_isInit' = [m_isInit EXCEPT ![e] = FALSE]
  /\ UNCHANGED <<listening, m_isClosed, timeout, Bytes, Call, threw, connections>>

Fresh(e) == m_isInit[e] /\ connection[e] # "open"

(* A connection that is refused throws. *)
connect ==
  /\ at["client"] = "idle" /\ Fresh("client") /\ connection["server"] # "open"
  /\ IF listening = "listening" /\ connections < MaxConnections
       THEN /\ connection' = [e \in End |-> IF e = "client" THEN "open" ELSE "waiting"]
            /\ broken' = Both("no") /\ queue' = Both(<<>>)
            /\ sent' = Both(<<>>) /\ received' = Both(<<>>)
            /\ threw' = [threw EXCEPT !["client"] = FALSE] /\ connections' = connections + 1
       ELSE /\ threw' = [threw EXCEPT !["client"] = TRUE]
            /\ UNCHANGED <<connection, broken, queue, Bytes, connections>>
  /\ UNCHANGED <<listening, m_isInit, m_isClosed, timeout, Call>>

(* accept closes what its new socket was, and waits for a connection.       *)
accept ==
  /\ listening = "listening" /\ at["server"] = "idle"
  /\ at' = [at EXCEPT !["server"] = "accept"]
  /\ IF m_isInit["server"] THEN HangUp("server") ELSE UNCHANGED <<connection, queue, broken>>
  /\ m_isInit' = [m_isInit EXCEPT !["server"] = FALSE]
  /\ UNCHANGED <<listening, m_isClosed, timeout, Bytes, left, array, threw, connections>>
Accepted ==
  /\ at["server"] = "accept" /\ connection["server"] = "waiting" /\ Ended("server", FALSE)
  /\ connection' = [connection EXCEPT !["server"] = "open"]
  /\ m_isInit' = [m_isInit EXCEPT !["server"] = TRUE]
  /\ UNCHANGED <<listening, m_isClosed, timeout, broken, queue, Bytes, connections>>

setTimeout(e, kind, t) ==
  /\ at[e] = "idle" /\ e \in Setters
  /\ timeout' = [timeout EXCEPT ![e][kind] = t]
  /\ UNCHANGED <<listening, m_isInit, m_isClosed, connection, broken, queue, Bytes, Call, threw, connections>>

Calls(e, call, length) ==
  /\ at[e] = "idle" /\ ~Fresh(e)
  /\ at' = [at EXCEPT ![e] = call] /\ left' = [left EXCEPT ![e] = length]
  /\ array' = [array EXCEPT ![e] = Len(IF call \in Reading THEN received[e] ELSE sent[e])]
  /\ threw' = [threw EXCEPT ![e] = FALSE]
  /\ UNCHANGED <<listening, m_isInit, m_isClosed, timeout, connection, broken, queue, Bytes, connections>>

(* Faulty: a stream that is at its end when nothing waits to be read.       *)
EndsWhenEmpty(e) == ~m_isInit[e] \/ m_isClosed[e] \/ queue'[e] = <<>>

(* isEOS of the code: what select holds against the handle, or m_isClosed,  *)
(* which nothing sets.  A reset is no exceptional condition to select.      *)
isEOS(e) == ~m_isInit[e] \/ m_isClosed[e]

(* When select finds the handle ready: what recv or send would not wait for.*)
Readable(e) == queue[e] # <<>> \/ broken[e] # "no" \/ connection[Peer(e)] = "closed"
Writeable(e) == Len(queue[Peer(e)]) < Room \/ broken[e] # "no" \/ connection[Peer(e)] = "closed"
Ready(e) == IF at[e] \in Reading THEN Readable(e) ELSE Writeable(e)

(* select on Linux takes the time it waits off the member it is given.      *)
Wait(e) ==
  /\ at[e] \in Reading \cup Writing /\ m_isInit[e] /\ ~Ready(e) /\ timeout[e][way(e)] > 0
  /\ timeout' = [timeout EXCEPT ![e][way(e)] = @ - 1]
  /\ UNCHANGED <<listening, m_isInit, m_isClosed, connection, broken, queue, Bytes, Call, threw, connections>>

(* A socket that is not made throws, and so does a timeout select refuses,  *)
(* which leaves the handle in the set of errors.                            *)
Refused(e) ==
  /\ at[e] \in Reading \cup Writing
  /\ ~m_isInit[e] \/ timeout[e][way(e)] = INFINITIE_TIMEOUT
  /\ Ended(e, TRUE)
  /\ UNCHANGED <<listening, m_isInit, m_isClosed, timeout, connection, broken, queue, Bytes, connections>>

Selected(e) == m_isInit[e] /\ timeout[e][way(e)] # INFINITIE_TIMEOUT /\ Ready(e)

(* Nothing within the timeout: read and write return 0, and the loops call  *)
(* them again, which changes nothing.                                       *)
TimedOut(e) ==
  /\ at[e] \in {"read", "write"} /\ m_isInit[e] /\ ~Ready(e) /\ timeout[e][way(e)] = 0
  /\ Ended(e, FALSE)
  /\ UNCHANGED <<listening, m_isInit, m_isClosed, timeout, connection, broken, queue, Bytes, connections>>

(* Faulty: a loop that counts what is left down and forgets its pointer.    *)
NotAdvanced(e, k) == array

Advanced(e, k) == [array EXCEPT ![e] = @ + k]

(* A turn of a call has moved k bytes: pipeRead and pipeWrite go on until   *)
(* nothing is left, pipeRead also ends if isEOS says so.                    *)
Turn(e, k) ==
  IF at[e] \in {"read", "write"} \/ k = left[e] \/ (at[e] = "pipeRead" /\ isEOS(e))
    THEN Ended(e, FALSE)
    ELSE left' = [left EXCEPT ![e] = @ - k] /\ array' = Advanced(e, k) /\ UNCHANGED <<at, threw>>

(* recv: bytes first, then the reset, once, and 0 for the end.              *)
Receive(e, k) ==
  /\ at[e] \in Reading /\ Selected(e)
  /\ k <= Least(left[e], Len(queue[e])) /\ (k = 0 <=> queue[e] = <<>> /\ broken[e] # "yes")
  /\ received' = [received EXCEPT ![e] = SubSeq(@, 1, array[e]) \o SubSeq(queue[e], 1, k)]
  /\ queue' = [queue EXCEPT ![e] = SubSeq(@, k + 1, Len(@))]
  /\ Turn(e, k)
  /\ UNCHANGED <<listening, m_isInit, m_isClosed, timeout, connection, broken, sent, connections>>
Reset(e) ==
  /\ at[e] \in Reading \cup Writing /\ Selected(e) /\ broken[e] = "yes"
  /\ at[e] \in Reading => queue[e] = <<>>
  /\ Ended(e, TRUE) /\ broken' = [broken EXCEPT ![e] = "told"]
  /\ UNCHANGED <<listening, m_isInit, m_isClosed, timeout, connection, queue, Bytes, connections>>

(* send: bytes for an end that is closed are lost and break the connection, *)
(* and the send after the one that has thrown the reset kills the process.  *)
Send(e, k) ==
  /\ at[e] \in Writing /\ Selected(e) /\ broken[e] = "no" /\ k <= left[e]
  /\ IF connection[Peer(e)] = "closed"
       THEN broken' = [broken EXCEPT ![e] = "yes"] /\ UNCHANGED <<queue, sent>>
       ELSE /\ k <= Room - Len(queue[Peer(e)]) /\ Len(sent[e]) + k <= Bound(e)
            /\ LET bytes == [i \in 1 .. k |-> array[e] + i]
               IN /\ queue' = [queue EXCEPT ![Peer(e)] = @ \o bytes]
                  /\ sent' = [sent EXCEPT ![e] = @ \o bytes]
            /\ UNCHANGED broken
  /\ Turn(e, k)
  /\ UNCHANGED <<listening, m_isInit, m_isClosed, timeout, connection, received, connections>>
Killed(e) ==
  /\ at[e] \in Writing /\ Selected(e) /\ broken[e] = "told"
  /\ at' = [at EXCEPT ![e] = "killed"]
  /\ HangUp(e) /\ m_isInit' = [m_isInit EXCEPT ![e] = FALSE]
  /\ UNCHANGED <<listening, m_isClosed, timeout, Bytes, left, array, threw, connections>>

Reads(e) == Refused(e) \/ Reset(e) \/ \E k \in 0 .. Room : Receive(e, k)
Writes(e) == Killed(e) \/ \E k \in 1 .. Room : Send(e, k)
SocketNext ==
  \/ Listen \/ connect \/ accept \/ Accepted
  \/ \E e \in End :
       \/ create(e) \/ close(e) \/ Wait(e) \/ TimedOut(e) \/ Reads(e) \/ Writes(e)
       \/ \E kind \in {"read", "write"}, t \in Timeouts : setTimeout(e, kind, t)
       \/ \E call \in Reading \cup Writing, length \in Lengths : Calls(e, call, length)
-----------------------------------------------------------------------------
SocketTypeOK ==
  /\ m_isInit \in [End -> BOOLEAN] /\ m_isClosed \in [End -> BOOLEAN]
  /\ connection \in [End -> {"none", "waiting", "open", "closed"}]
  /\ broken \in [End -> {"no", "yes", "told"}]
  /\ at \in [End -> Reading \cup Writing \cup {"idle", "accept", "killed"}]
  /\ \A e \in End : Len(queue[e]) <= Room /\ left[e] \in Nat /\ array[e] \in Nat

(* What was sent are the caller's bytes, none left out or sent again, and   *)
(* an end receives what the other has sent, in order, however many turns    *)
(* the calls of both take.                                                  *)
SocketKeepsItsWord ==
  \A e \in End :
    /\ sent[e] = [i \in DOMAIN sent[e] |-> i]
    /\ connection[e] = "open" => received[e] \o queue[e] = sent[Peer(e)]

(* A pipeRead ends only with all its bytes, with an exception, or with all  *)
(* that a peer had sent before it closed.                                   *)
PipeReadIsWhole ==
  [][\A e \in End :
       at[e] = "pipeRead" /\ at'[e] = "idle" =>
         \/ Len(received'[e]) = Len(received[e]) + left[e]
         \/ threw'[e]
         \/ connection[Peer(e)] = "closed" /\ queue'[e] = <<>>]_socketVars

(* A pipeRead of an end ends when enough has arrived.                       *)
PipeReadEnds(e) == (at[e] = "pipeRead" /\ Len(queue[e]) >= left[e]) ~> (at[e] # "pipeRead")
=============================================================================
