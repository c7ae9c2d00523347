----------------------- MODULE AddressSpaceInvariant -----------------------
(***************************************************************************)
(* An inductive invariant of AddressSpaceManager: who owns each frame, and *)
(* what that says about the tables and about the calls in progress.  The   *)
(* history variable owner carries the argument: a frame is linked at most  *)
(* where its owner says, and owner gives each frame one place.             *)
(***************************************************************************)
EXTENDS AddressSpaceManager

\* At most one frame that the allocator hands out counts as in a hole: the one
\* behind the IO region.  So it is when the local memory lies outside of what
\* the allocator hands out.
OneHoleFrame == \A f, g \in Frames : InHole(f) /\ InHole(g) => f = g

\* Calls that use a table of a client, and calls that free one
Using   == {"leaf", "map", "node", "install", "walk", "walk0", "result"}
Freeing == {"free", "free0"}

\* The allocator and the history agree.
UsedOwned == \A f \in Frames : f \in used <=> owner[f] # Free

\* Frames in a hole are passed over, and all of them have been when a
\* second attempt is made.
HolesUnused ==
  /\ \A f \in Frames : InHole(f) => owner[f] \in {Free, Skipped}
  /\ \A t \in Thread : again[t] => \A f \in Frames : InHole(f) => f \in used

\* The mutex is held throughout map_addr_inner, so what it read stays true.
Transaction(t) ==
  /\ pc[t] \in InTransaction => lock = t
  /\ pc[t] = "node" => LeafNode(t) = Unmapped
  /\ pc[t] \in {"install", "walk0"} => LeafNode(t) # Unmapped
  /\ pc[t] = "walk0" => todo[t].node = LeafNode(t)

\* Pages that the loop of a call has still to map
JobPages(t) ==
  pc[t] \in Using =>
    /\ job[t].root \in roots
    /\ \A k \in 0 .. job[t].left - 1 : job[t].vpn + k \in Vpn
    /\ job[t].op = "identity" =>
         /\ job[t].left > 0
         /\ \A k \in 0 .. job[t].left - 1 : job[t].vpn + k \in Reserved

\* A page taken for a table or a mapping belongs to the call until it is linked.
Holding(t) ==
  \/ pc[t] = "zero"
  \/ pc[t] \in {"map", "node", "install"} /\ job[t].op # "identity"

HeldOwned(t) == Holding(t) => frame[t] \in Frames /\ owner[frame[t]] = Held(t)

\* The entry of page v: nothing, itself if reserved, or a frame owned there
LeafOK(r, v, f) ==
  \/ f = Unmapped
  \/ f \in Reserved /\ f = v
  \/ f \in Frames /\ owner[f] = Leaf(r, v)

NodeOK(r, v, n) ==
  /\ n \in Frames /\ owner[n] = Node(r, Hi(v))
  /\ LeafOK(r, v, mem[n][Lo(v)])

TableOK(r) == \A v \in Vpn : mem[r][Hi(v)] = Unmapped \/ NodeOK(r, v, mem[r][Hi(v)])

\* A table that is being freed is out of the clients' reach and its root is
\* the last frame to go; until then its top level tells which nodes it had.
FreedOwned(t) ==
  pc[t] \in Freeing =>
    /\ job[t].root \in Frames \ roots /\ owner[job[t].root] = Root
    /\ \A u \in Thread \ {t} : pc[u] \in Freeing => job[u].root # job[t].root

FreeBegins(t) ==
  /\ pc[t] = "free" => TableOK(job[t].root)
  /\ pc[t] # "free0" => todo[t].nodes = {} /\ todo[t].leaves = {}
  /\ pc[t] \notin {"walk0", "free0"} => todo[t].node = 0

\* What is left to release is owned by the table; the node at hand and its
\* leaves are apart from the other nodes.
NodesLeft(t) ==
  pc[t] = "free0" =>
    /\ todo[t].nodes \subseteq Mapped(mem[job[t].root]) \ {todo[t].node}
    /\ \A v \in Vpn : mem[job[t].root][Hi(v)] \in todo[t].nodes =>
         NodeOK(job[t].root, v, mem[job[t].root][Hi(v)])

LeavesLeft(t, i) ==
  \A f \in todo[t].leaves :
    f \notin Reserved =>
      f \in Frames /\ \E v \in Vpn : Hi(v) = i /\ owner[f] = Leaf(job[t].root, v)

NodeAtHand(t) ==
  pc[t] = "free0" =>
    IF todo[t].node = 0 THEN todo[t].leaves = {}
    ELSE \E i \in Index :
           /\ todo[t].node \in Frames /\ owner[todo[t].node] = Node(job[t].root, i)
           /\ mem[job[t].root][i] = todo[t].node
           /\ LeavesLeft(t, i)

ThreadOK(t) ==
  /\ Transaction(t) /\ JobPages(t) /\ HeldOwned(t)
  /\ FreedOwned(t) /\ FreeBegins(t) /\ NodesLeft(t) /\ NodeAtHand(t)

(***************************************************************************)
(* Every frame is where its owner says and nowhere else: the allocator,    *)
(* the live tables, the calls in progress and the tables being freed agree *)
(* on who has it, at every step of every interleaving.                     *)
(***************************************************************************)
IInv ==
  /\ TypeOK /\ UsedOwned /\ HolesUnused
  /\ \A r \in roots : owner[r] = Root /\ TableOK(r)
  /\ \A t \in Thread : ThreadOK(t)
============================================================================
