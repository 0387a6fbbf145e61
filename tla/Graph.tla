-------------------------------- MODULE Graph --------------------------------
(***************************************************************************)
(* cGraph: a list of nodes, each with the list of its neighbors and the    *)
(* colour that was chosen for it.  An edge is an entry in two lists.       *)
(***************************************************************************)
EXTENDS Naturals, Sequences

CONSTANTS NodeId,            \* the ids of nodes
          Colors,            \* m_numberOfPossibleColors
          MaxNeighbors       \* bound: entries of one list of neighbors

VARIABLES m_nodes,           \* the nodes, in the order they were added
          m_neighbors,       \* of each node, the ids of its neighbors
          m_chosenColor,     \* of each node its colour, or NoColor
          edges              \* ghost: the pairs a caller has connected

graphVars == <<m_nodes, m_neighbors, m_chosenColor, edges>>
NoColor == Colors + 1        \* -1 as the uint the member is

Elements(list) == {list[k] : k \in DOMAIN list}
isNodeExists(id) == id \in Elements(m_nodes)
isNeighbor(neighbors, id, other) == other \in Elements(neighbors[id])

GraphInit ==
  /\ m_nodes = <<>> /\ edges = {}
  /\ m_neighbors = [id \in NodeId |-> <<>>]
  /\ m_chosenColor = [id \in NodeId |-> NoColor]

(* A node that is there is left as it is.                                   *)
addNode(id) ==
  /\ m_nodes' = IF isNodeExists(id) THEN m_nodes ELSE Append(m_nodes, id)
  /\ UNCHANGED <<m_neighbors, m_chosenColor, edges>>

(* The lists of neighbors with an edge between two nodes: none is made from *)
(* a node to itself, which the search finds once only, nor to a missing one. *)
Entered(neighbors, id, other, dup) ==
  IF dup \/ ~isNeighbor(neighbors, id, other)
    THEN [neighbors EXCEPT ![id] = Append(@, other)] ELSE neighbors
Connected(neighbors, id1, id2, dup) ==
  IF id1 # id2 /\ isNodeExists(id1) /\ isNodeExists(id2)
    THEN Entered(Entered(neighbors, id1, id2, dup), id2, id1, dup)
    ELSE neighbors
Wanted(ids) == {pair \in SUBSET (ids \cap Elements(m_nodes)) : \E a, b \in pair : a # b /\ pair = {a, b}}

connectNodes(id1, id2, dup) ==
  /\ Len(m_neighbors[id1]) < MaxNeighbors /\ Len(m_neighbors[id2]) < MaxNeighbors
  /\ m_neighbors' = Connected(m_neighbors, id1, id2, dup)
  /\ edges' = edges \cup Wanted({id1, id2})
  /\ UNCHANGED <<m_nodes, m_chosenColor>>

(* Every pair of the list is connected, in both orders.                     *)
makeClique(ids) ==
  LET n == Len(ids)
      done[k \in 0 .. n * n] ==
        IF k = 0 THEN m_neighbors
        ELSE Connected(done[k - 1], ids[((k - 1) \div n) + 1], ids[((k - 1) % n) + 1], FALSE)
  IN /\ \A id \in Elements(ids) : Len(m_neighbors[id]) + n <= MaxNeighbors
     /\ m_neighbors' = done[n * n]
     /\ edges' = edges \cup Wanted(Elements(ids))
     /\ UNCHANGED <<m_nodes, m_chosenColor>>

setChosenColor(id, color) ==
  /\ isNodeExists(id) /\ color < Colors
  /\ m_chosenColor' = [m_chosenColor EXCEPT ![id] = color]
  /\ UNCHANGED <<m_nodes, m_neighbors, edges>>

GraphNext ==
  \/ \E id \in NodeId : addNode(id) \/ \E color \in 0 .. Colors : setChosenColor(id, color)
  \/ \E id1, id2 \in NodeId, dup \in BOOLEAN : connectNodes(id1, id2, dup)
  \/ \E n \in 1 .. 3 : \E ids \in [1 .. n -> NodeId] : makeClique(ids)
-----------------------------------------------------------------------------
isConnected(id1, id2) == isNodeExists(id1) /\ isNeighbor(m_neighbors, id1, id2)

(* Two nodes are connected, from either side, exactly when some call asked  *)
(* for it while both were there: what a call does for a missing node or a   *)
(* node and itself leaves no half of an edge, and both sides hold an edge   *)
(* the same number of times.                                                *)
Entries(id, other) == {k \in DOMAIN m_neighbors[id] : m_neighbors[id][k] = other}
EdgesHaveTwoEnds ==
  \A a, b \in NodeId :
    /\ isConnected(a, b) <=> (a # b /\ {a, b} \in edges)
    /\ \E both \in [Entries(a, b) -> Entries(b, a)] : {both[k] : k \in Entries(a, b)} = Entries(b, a)

GraphTypeOK ==
  /\ m_nodes \in Seq(NodeId) /\ m_neighbors \in [NodeId -> Seq(NodeId)]
  /\ m_chosenColor \in [NodeId -> (0 .. Colors - 1) \cup {NoColor}]
=============================================================================
