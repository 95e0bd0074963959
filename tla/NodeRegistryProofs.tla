------------------------- MODULE NodeRegistryProofs -------------------------
(***************************************************************************)
(* Proofs about the node registry: what NextPeerIP allocates, for every    *)
(* subnet; that no two nodes share a name, an address or a key and that a  *)
(* join token admits one agent, however handlers interleave; and, when     *)
(* handlers run one at a time but may fail after any step, that a removed  *)
(* node is cut off, a worker stays reachable and storage keeps its node.   *)
(***************************************************************************)
EXTENDS NodeRegistry, WellFoundedInduction, TLAPS

USE ZenonT(30)

---------------------------------------------------------------------------
(* Allocation of addresses.                                                *)

Less == {p \in Nat \X Nat : p[1] < p[2]}

\* The order on the natural numbers is well founded.
LEMMA LessWellFounded == IsWellFoundedOn(Less, Nat)
<1>1. Less = OpToRel(<, Nat)
  BY DEF Less, OpToRel
<1> QED
  BY <1>1, NatLessThanWellFounded

\* A nonempty set of natural numbers has a lowest element.
LEMMA LowestIsMember ==
    ASSUME NEW S, S \subseteq Nat, S # {}
    PROVE  Lowest(S) \in S /\ \A j \in S : Lowest(S) <= j
<1>1. PICK i \in S : \A j \in S : <<j, i>> \notin Less
  BY LessWellFounded, WFMin
<1>2. ASSUME NEW j \in S PROVE i <= j
  <2>1. i \in Nat /\ j \in Nat
    OBVIOUS
  <2>2. <<j, i>> \in Less <=> j < i
    BY <2>1 DEF Less
  <2> QED
    BY <1>1, <2>1, <2>2, SMTT(30)
<1> QED
  BY <1>2 DEF Lowest

\* The address NextPeerIP returns is a host of the subnet, and neither the
\* hub's nor in use by any node: the two loops skip what is taken.
THEOREM NextPeerIPIsFree ==
    ASSUME NEW existing, NextPeerIP(existing) # NoIP
    PROVE  /\ NextPeerIP(existing) \in Hosts \ {HubIP}
           /\ NextPeerIP(existing) \notin existing
<1> DEFINE used  == {HubIP} \cup (existing \ {NoIP})
           free  == Hosts \ used
           above == {i \in free : i > Highest(used)}
<1>1. free \subseteq Nat /\ above \subseteq free
  BY SubnetAssumption, SMTT(30) DEF Hosts
<1>2. NextPeerIP(existing) = CASE above # {} -> Lowest(above)
                               [] above = {} /\ free # {} -> Lowest(free)
                               [] OTHER -> NoIP
  BY DEF NextPeerIP
<1> HIDE DEF above
<1>3. NextPeerIP(existing) \in free
  <2>1. CASE above # {}
    <3>1. Lowest(above) \in above
      BY <1>1, <2>1, LowestIsMember
    <3> QED
      BY <1>1, <1>2, <2>1, <3>1
  <2>2. CASE above = {} /\ free # {}
    <3>1. Lowest(free) \in free
      BY <1>1, <2>2, LowestIsMember
    <3> QED
      BY <1>2, <2>2, <3>1
  <2>3. CASE above = {} /\ free = {}
    BY <1>2, <2>3
  <2> QED
    BY <2>1, <2>2, <2>3
<1> QED
  BY <1>3

\* NextPeerIP reports exhaustion only when every host of the subnet is the
\* hub's or in use: the second loop misses no gap.
THEOREM ExhaustedOnlyWhenFull ==
    ASSUME NEW existing, NextPeerIP(existing) = NoIP
    PROVE  Hosts \subseteq {HubIP} \cup existing
<1> DEFINE used  == {HubIP} \cup (existing \ {NoIP})
           free  == Hosts \ used
           above == {i \in free : i > Highest(used)}
<1>1. free \subseteq Nat \ {NoIP} /\ above \subseteq free
  BY SubnetAssumption, SMTT(30) DEF Hosts, NoIP
<1>2. NextPeerIP(existing) = CASE above # {} -> Lowest(above)
                               [] above = {} /\ free # {} -> Lowest(free)
                               [] OTHER -> NoIP
  BY DEF NextPeerIP
<1> HIDE DEF above
<1>3. free = {}
  <2> SUFFICES ASSUME free # {} PROVE FALSE
    OBVIOUS
  <2>1. CASE above # {}
    <3>1. Lowest(above) \in above
      BY <1>1, <2>1, LowestIsMember
    <3> QED
      BY <1>1, <1>2, <2>1, <3>1
  <2>2. CASE above = {}
    <3>1. Lowest(free) \in free
      BY <1>1, <2>2, LowestIsMember
    <3> QED
      BY <1>1, <1>2, <2>2, <3>1
  <2> QED
    BY <2>1, <2>2
<1> QED
  BY <1>3

---------------------------------------------------------------------------
(* Rows and handlers.                                                      *)

RowShape(r) ==
    /\ r = [name |-> r.name, status |-> r.status, ip |-> r.ip, key |-> r.key,
            seen |-> r.seen]
    /\ r.status # "none"
CallShape(k) ==
    k = [op |-> k.op, at |-> k.at, name |-> k.name, id |-> k.id, row |-> k.row,
         ip |-> k.ip, key |-> k.key, token |-> k.token, to |-> k.to,
         peers |-> k.peers, shown |-> k.shown]

RowsShape ==
    /\ rows = [id \in Ids |-> rows[id]]
    /\ \A id \in Ids : Known(id) => RowShape(rows[id])
CallsShape ==
    /\ calls = [c \in Callers |-> calls[c]]
    /\ \A c \in Callers : calls[c] # NoCall => CallShape(calls[c])

\* What an enrolment in progress may write: never the hub's address, and an
\* address wherever it writes a key.
Enrols(k) ==
    /\ k.ip # HubIP
    /\ k.op = "remove" => k.row.ip # HubIP
    /\ k.op = "token" /\ k.at \in {"store", "create", "assign"} => k.ip # NoIP
    /\ k.op = "join" /\ k.at = "peer" => k.ip # NoIP
    /\ k.op = "join" => k.key \in Keys /\ k.token \in Tokens

PeersInv ==
    /\ RowsShape /\ CallsShape
    /\ PeersDistinct
    /\ \A c \in Callers : calls[c] # NoCall => Enrols(calls[c])

\* A step that gives one handler a sound state, or ends it, keeps the others.
LEMMA HandlerMoves ==
    ASSUME PeersInv, NEW c \in Callers, NEW next,
           calls' = [calls EXCEPT ![c] = next],
           next # NoCall => CallShape(next) /\ Enrols(next)
    PROVE  /\ CallsShape'
           /\ \A d \in Callers : calls'[d] # NoCall => Enrols(calls'[d])
BY DEF PeersInv, CallsShape

\* The UNIQUE constraints keep the rows apart.
LEMMA RowWritten ==
    ASSUME PeersInv, NEW id \in Ids, NEW row, rows' = [rows EXCEPT ![id] = row],
           row # NoRow => /\ Unique(id, row) /\ RowShape(row) /\ row.ip # HubIP
                          /\ row.key # NoKey => row.ip # NoIP
    PROVE  RowsShape' /\ PeersDistinct'
<1>1. /\ rows'[id] = row
      /\ \A j \in Ids \ {id} : rows'[j] = rows[j]
      /\ rows' = [j \in Ids |-> rows'[j]]
  BY DEF PeersInv, RowsShape
<1>2. RowsShape'
  BY <1>1 DEF PeersInv, RowsShape, Known
<1>3. PeersDistinct'
  BY <1>1, SMTT(30) DEF PeersInv, PeersDistinct, Known, Unique
<1> QED
  BY <1>2, <1>3

\* FindByName answers a row of that name, or NoId.
LEMMA FoundByName ==
    ASSUME NEW n, FindByName(n) # NoId
    PROVE  FindByName(n) \in Ids /\ Known(FindByName(n)) /\ rows[FindByName(n)].name = n
BY DEF FindByName, Known

\* A handler that moves on without touching the table.
LEMMA QuietRows ==
    ASSUME PeersInv, UNCHANGED rows, NEW c \in Callers, NEW next,
           calls' = [calls EXCEPT ![c] = next],
           next # NoCall => CallShape(next) /\ Enrols(next)
    PROVE  PeersInv'
<1>1. RowsShape' /\ PeersDistinct'
  BY DEF PeersInv, RowsShape, PeersDistinct, Known
<1> QED
  BY <1>1, HandlerMoves DEF PeersInv

\* A handler that answers without touching the table.
LEMMA HandlerEnds ==
    ASSUME PeersInv, UNCHANGED rows, NEW c \in Callers, End(c)
    PROVE  PeersInv'
BY QuietRows DEF End

\* A handler that goes on to a step that enrols nobody.
LEMMA HandlerGoes ==
    ASSUME PeersInv, UNCHANGED rows, NEW c \in Callers, calls[c] # NoCall, NEW at, Go(c, at),
           calls[c].op = "token" => at \notin {"store", "create", "assign"},
           calls[c].op = "join" => at # "peer"
    PROVE  PeersInv'
<1>1. PICK next : next = [calls[c] EXCEPT !.at = at] /\ calls' = [calls EXCEPT ![c] = next]
  BY DEF Go
<1>2. CallShape(next) /\ Enrols(next)
  BY <1>1, SMTT(30) DEF PeersInv, CallsShape, CallShape, Enrols
<1> QED
  BY <1>1, <1>2, QuietRows

\* An empty table and no handler.
LEMMA PeersInvInit == Init => PeersInv
BY DEF Init, PeersInv, RowsShape, CallsShape, PeersDistinct, Known

\* An RPC other than a join begins by reading the table.
LEMMA HandlerBegins ==
    ASSUME PeersInv, UNCHANGED rows, NEW c \in Callers, NEW op, NEW at, NEW n, NEW id,
           Begin(c, op, at, n, id),
           op = "remove" => Known(id),
           op = "token" /\ at = "store" => Known(id) /\ rows[id].ip # NoIP,
           op = "token" => at \notin {"create", "assign"},
           op # "join"
    PROVE  PeersInv'
<1>1. PICK next :
        /\ next = [op |-> op, at |-> at, name |-> n, id |-> id, row |-> Find(id),
                   ip |-> IF Known(id) THEN rows[id].ip ELSE NoIP,
                   key |-> NoKey, token |-> NoToken, to |-> n, peers |-> {}, shown |-> {}]
        /\ calls' = [calls EXCEPT ![c] = next]
  BY DEF Begin
<1>2. CallShape(next)
  BY <1>1 DEF CallShape
<1>3. next.ip # HubIP /\ (Known(id) => next.row.ip # HubIP)
  BY <1>1, SubnetAssumption, SMTT(30) DEF PeersInv, PeersDistinct, Find, NoIP, Known
<1>4. Enrols(next)
  BY <1>1, <1>3 DEF Enrols
<1> QED
  BY <1>1, <1>2, <1>4, QuietRows

\* Accepting an RPC, and the requests that are one step, keep PeersInv.
LEMMA PeersInvRequest ==
    ASSUME PeersInv, NEW c \in Callers, Request(c)
    PROVE  PeersInv'
<1>1. ASSUME NEW n \in Names, CreateJoinToken(c, n) PROVE PeersInv'
  <2>1. PICK id, at : /\ id = FindByName(n)
                      /\ at = IF id # NoId /\ rows[id].ip # NoIP THEN "store" ELSE "allocate"
                      /\ Begin(c, "token", at, n, id)
                      /\ UNCHANGED rows
    BY <1>1 DEF CreateJoinToken
  <2>2. at = "store" => Known(id) /\ rows[id].ip # NoIP
    BY <2>1, FoundByName
  <2>3. at \notin {"create", "assign"}
    BY <2>1
  <2> QED
    BY <2>1, <2>2, <2>3, HandlerBegins
<1>2. ASSUME NEW n \in Names, DrainNode(c, n) PROVE PeersInv'
  BY <1>2, HandlerBegins DEF DrainNode
<1>3. ASSUME NEW n \in Names, UncordonNode(c, n) PROVE PeersInv'
  BY <1>3, HandlerBegins DEF UncordonNode
<1>4. ASSUME NEW n \in Names, RemoveNode(c, n) PROVE PeersInv'
  BY <1>4, HandlerBegins, FoundByName DEF RemoveNode
<1>5. ASSUME NEW n \in Names, PurgeNode(c, n) PROVE PeersInv'
  BY <1>5, HandlerBegins DEF PurgeNode
<1>6. ASSUME NEW n \in Names, NEW to \in Names, RenameNode(c, n, to) PROVE PeersInv'
  <2>1. PICK next : /\ next = [op |-> "rename", at |-> "rename", name |-> n,
                        id |-> FindByName(n), row |-> rows[FindByName(n)],
                        ip |-> NoIP, key |-> NoKey, token |-> NoToken, to |-> to,
                        peers |-> {}, shown |-> {}]
                    /\ calls' = [calls EXCEPT ![c] = next]
    BY <1>6 DEF RenameNode
  <2>2. CallShape(next) /\ Enrols(next)
    BY <2>1, SubnetAssumption, SMTT(30) DEF CallShape, Enrols, NoIP
  <2> QED
    BY <1>6, <2>1, <2>2, QuietRows DEF RenameNode
<1>7. ASSUME NEW k \in Keys, NEW t \in Tokens, JoinNode(c, k, t) PROVE PeersInv'
  <2>1. PICK next : /\ next = [op |-> "join", at |-> "find", name |-> joinTokens[t].name,
                        id |-> NoId, row |-> NoRow, ip |-> NoIP, key |-> k, token |-> t,
                        to |-> joinTokens[t].name, peers |-> {}, shown |-> {}]
                    /\ calls' = [calls EXCEPT ![c] = next]
    BY <1>7 DEF JoinNode
  <2>2. CallShape(next) /\ Enrols(next)
    BY <2>1, SubnetAssumption, SMTT(30) DEF CallShape, Enrols, NoIP
  <2> QED
    BY <1>7, <2>1, <2>2, QuietRows DEF JoinNode
<1>8. ASSUME NEW k \in Keys, NEW op \in {"heartbeat", "bootstrap"}, Authenticate(c, k, op)
      PROVE  PeersInv'
  <2>1. CASE agentTokens[k].state = "live"
    <3>1. PICK next : /\ next = [op |-> op, at |-> "read", name |-> NoName,
                          id |-> agentTokens[k].node, row |-> NoRow, ip |-> NoIP,
                          key |-> k, token |-> NoToken, to |-> NoName,
                          peers |-> {}, shown |-> {}]
                      /\ calls' = [calls EXCEPT ![c] = next]
      BY <1>8, <2>1 DEF Authenticate
    <3>2. CallShape(next) /\ Enrols(next)
      BY <1>8, <3>1, SubnetAssumption, SMTT(30) DEF CallShape, Enrols, NoIP
    <3> QED
      BY <1>8, <3>1, <3>2, QuietRows DEF Authenticate
  <2>2. CASE agentTokens[k].state # "live"
    BY <1>8, <2>2 DEF Authenticate, PeersInv, RowsShape, CallsShape, PeersDistinct, Known
  <2> QED
    BY <2>1, <2>2
<1>9. ASSUME NEW id \in Ids, PinStorage(c, id) PROVE PeersInv'
  BY <1>9 DEF PinStorage, PeersInv, RowsShape, CallsShape, PeersDistinct, Known
<1> QED
  BY <1>1, <1>2, <1>3, <1>4, <1>5, <1>6, <1>7, <1>8, <1>9 DEF Request

\* What PeersInv says of one handler.
LEMMA CallIsShaped ==
    ASSUME PeersInv, NEW c \in Callers, calls[c] # NoCall
    PROVE  CallShape(calls[c]) /\ Enrols(calls[c])
BY DEF PeersInv, CallsShape

\* What PeersInv says of one row.
LEMMA RowIsSound ==
    ASSUME PeersInv, NEW id, Known(id)
    PROVE  /\ id \in Ids /\ RowShape(rows[id]) /\ rows[id].ip # HubIP
           /\ rows[id].key # NoKey => rows[id].ip # NoIP
BY DEF PeersInv, RowsShape, PeersDistinct, Known

\* A status change, with or without the time of a heartbeat, moves no peer.
LEMMA StatusWritten ==
    ASSUME PeersInv, NEW id, NEW s, s # "none",
           UpdateStatus(id, s) \/ UpdateHeartbeat(id, s)
    PROVE  RowsShape' /\ PeersDistinct'
<1>1. PICK row : /\ \/ row = [rows[id] EXCEPT !.status = s]
                    \/ row = [rows[id] EXCEPT !.status = s, !.seen = "fresh"]
                 /\ Update(id, row)
  BY DEF UpdateStatus, UpdateHeartbeat
<1>2. Known(id) /\ Unique(id, row) /\ rows' = [rows EXCEPT ![id] = row]
  BY <1>1 DEF Update
<1>3. RowShape(row) /\ row.ip = rows[id].ip /\ row.key = rows[id].key
  <2>1. id \in Ids /\ RowShape(rows[id])
    BY <1>1, <1>2, RowIsSound
  <2> QED
    BY <1>1, <1>2, <2>1 DEF RowShape
<1> QED
  BY <1>2, <1>3, RowIsSound, RowWritten

\* SetWireGuard gives a row an address and a key that Unique lets through.
LEMMA PeerWritten ==
    ASSUME PeersInv, NEW id, NEW ip, NEW key, SetWireGuard(id, ip, key),
           ip # HubIP, key # NoKey => ip # NoIP
    PROVE  RowsShape' /\ PeersDistinct'
<1>1. PICK row : row = [rows[id] EXCEPT !.ip = ip, !.key = key] /\ Update(id, row)
  BY DEF SetWireGuard
<1>2. Known(id) /\ Unique(id, row) /\ rows' = [rows EXCEPT ![id] = row]
  BY <1>1 DEF Update
<1>3. RowShape(row) /\ row.ip = ip /\ row.key = key
  <2>1. id \in Ids /\ RowShape(rows[id])
    BY <1>1, <1>2, RowIsSound
  <2> QED
    BY <1>1, <1>2, <2>1 DEF RowShape
<1> QED
  BY <1>2, <1>3, RowIsSound, RowWritten

\* The handlers that remain when one answers.
LEMMA CallEnded ==
    ASSUME PeersInv, NEW c \in Callers, End(c)
    PROVE  CallsShape' /\ \A d \in Callers : calls'[d] # NoCall => Enrols(calls'[d])
BY HandlerMoves DEF End

\* The handlers when one goes on to a step that enrols nobody.
LEMMA CallGoes ==
    ASSUME PeersInv, NEW c \in Callers, calls[c] # NoCall, NEW at, Go(c, at),
           calls[c].op = "token" => at \notin {"store", "create", "assign"},
           calls[c].op = "join" => at # "peer"
    PROVE  CallsShape' /\ \A d \in Callers : calls'[d] # NoCall => Enrols(calls'[d])
<1>1. PICK next : next = [calls[c] EXCEPT !.at = at] /\ calls' = [calls EXCEPT ![c] = next]
  BY DEF Go
<1>2. CallShape(next) /\ Enrols(next)
  <2>1. CallShape(calls[c]) /\ Enrols(calls[c])
    BY <1>1, CallIsShaped
  <2> QED
    BY <1>1, <2>1 DEF CallShape, Enrols
<1> QED
  BY <1>1, <1>2, HandlerMoves

\* Every step of a handler keeps PeersInv.
LEMMA PeersInvHandler ==
    ASSUME PeersInv, NEW c \in Callers, Handler(c)
    PROVE  PeersInv'
<1>1. CASE Allocate(c)
  <2>1. PICK ip : ip = NextPeerIP({rows[id].ip : id \in {i \in Ids : Known(i)}})
    OBVIOUS
  <2>2. UNCHANGED rows /\ calls[c] # NoCall /\ calls[c].op \in {"token", "join"}
    BY <1>1 DEF Allocate, AtAny, At
  <2>3. CASE ip = NoIP
    BY <1>1, <2>1, <2>2, <2>3, HandlerEnds DEF Allocate
  <2>4. CASE ip # NoIP
    <3>1. PICK next : /\ next = [calls[c] EXCEPT !.ip = ip,
                              !.at = IF calls[c].op = "token" THEN "store" ELSE "peer"]
                      /\ calls' = [calls EXCEPT ![c] = next]
      <4>1. calls' = [calls EXCEPT ![c].ip = ip,
                        ![c].at = IF calls[c].op = "token" THEN "store" ELSE "peer"]
        BY <1>1, <2>1, <2>4 DEF Allocate
      <4> QED
        BY <4>1
    <3>2. ip # HubIP
      BY <2>1, <2>4, NextPeerIPIsFree
    <3>3. /\ CallShape(next) /\ next.ip = ip /\ next.op = calls[c].op
          /\ next.key = calls[c].key /\ next.token = calls[c].token
      <4>1. CallShape(calls[c]) /\ Enrols(calls[c])
        BY <2>2, <3>1, CallIsShaped
      <4> QED
        BY <2>2, <3>1, <4>1 DEF CallShape
    <3>4. Enrols(next)
      BY <2>2, <2>4, <3>2, <3>3, CallIsShaped DEF Enrols
    <3> QED
      BY <2>2, <3>1, <3>3, <3>4, QuietRows
  <2> QED
    BY <2>3, <2>4
<1>2. CASE StoreToken(c)
  <2>1. calls[c] # NoCall /\ calls[c].op = "token" /\ calls[c].at = "store" /\ UNCHANGED rows
    BY <1>2 DEF StoreToken, At
  <2>2. End(c) \/ Go(c, "create") \/ Go(c, "assign")
    BY <1>2 DEF StoreToken
  <2>3. ASSUME NEW at \in {"create", "assign"}, Go(c, at) PROVE PeersInv'
    <3>1. PICK next : next = [calls[c] EXCEPT !.at = at] /\ calls' = [calls EXCEPT ![c] = next]
      BY <2>3 DEF Go
    <3>2. CallShape(next) /\ Enrols(next)
      <4>1. CallShape(calls[c]) /\ Enrols(calls[c])
        BY <2>1, <3>1, CallIsShaped
      <4> QED
        BY <2>1, <3>1, <4>1 DEF CallShape, Enrols
    <3> QED
      BY <2>1, <3>1, <3>2, QuietRows
  <2> QED
    BY <2>1, <2>2, <2>3, HandlerEnds
<1>3. CASE CreateRow(c)
  <2>1. calls[c] # NoCall /\ calls[c].op \in {"token", "join"}
    BY <1>3 DEF CreateRow, AtAny, At
  <2> DEFINE row == [name |-> calls[c].name, status |-> "pending", ip |-> calls[c].ip,
                     key |-> NoKey, seen |-> "never"]
  <2>2. PICK id \in Ids :
          /\ Unique(id, row) /\ rows' = [rows EXCEPT ![id] = row]
          /\ \/ End(c)
             \/ /\ calls[c].op # "token"
                /\ calls' = [calls EXCEPT ![c].id = id, ![c].row = row, ![c].at = "allocate"]
    BY <1>3 DEF CreateRow
  <2>3. RowsShape' /\ PeersDistinct'
    <3>1. RowShape(row) /\ row.ip # HubIP /\ row.key = NoKey
      BY <2>1, <2>2, CallIsShaped DEF RowShape, Enrols
    <3> QED
      BY <2>2, <3>1, RowWritten
  <2>4. CASE End(c)
    BY <2>3, <2>4, CallEnded DEF PeersInv
  <2>5. CASE /\ calls[c].op # "token"
             /\ calls' = [calls EXCEPT ![c].id = id, ![c].row = row, ![c].at = "allocate"]
    <3>1. PICK next : /\ next = [calls[c] EXCEPT !.id = id, !.row = row, !.at = "allocate"]
                      /\ calls' = [calls EXCEPT ![c] = next]
      BY <2>5
    <3>2. CallShape(next) /\ Enrols(next)
      <4>1. CallShape(calls[c]) /\ Enrols(calls[c])
        BY <2>1, <2>5, <3>1, CallIsShaped
      <4> QED
        BY <2>1, <2>5, <3>1, <4>1 DEF CallShape, Enrols
    <3> QED
      BY <2>3, <3>1, <3>2, HandlerMoves DEF PeersInv
  <2> QED
    BY <2>2, <2>4, <2>5
<1>4. CASE AssignAddress(c)
  <2>1. /\ calls[c] # NoCall /\ calls[c].op = "token" /\ calls[c].at = "assign"
        /\ SetWireGuard(calls[c].id, calls[c].ip, calls[c].row.key) /\ End(c)
    BY <1>4 DEF AssignAddress, At
  <2>2. calls[c].ip # HubIP /\ calls[c].ip # NoIP
    BY <2>1, CallIsShaped DEF Enrols
  <2> QED
    BY <2>1, <2>2, PeerWritten, CallEnded DEF PeersInv
<1>5. CASE EnrollFind(c)
  <2>1. calls[c] # NoCall /\ calls[c].op = "join" /\ UNCHANGED rows
    BY <1>5 DEF EnrollFind, At
  <2>2. \/ Go(c, "create")
        \/ End(c)
        \/ \E id : /\ id # NoId /\ id = FindByName(calls[c].name)
                   /\ calls' = [calls EXCEPT ![c].id = id, ![c].row = rows[id],
                             ![c].ip = rows[id].ip,
                             ![c].at = IF rows[id].ip = NoIP THEN "allocate" ELSE "peer"]
    BY <1>5 DEF EnrollFind
  <2>3. CASE Go(c, "create")
    BY <2>1, <2>3, HandlerGoes
  <2>4. CASE End(c)
    BY <2>1, <2>4, HandlerEnds
  <2>5. ASSUME NEW id, id # NoId, id = FindByName(calls[c].name),
               calls' = [calls EXCEPT ![c].id = id, ![c].row = rows[id],
                           ![c].ip = rows[id].ip,
                           ![c].at = IF rows[id].ip = NoIP THEN "allocate" ELSE "peer"]
        PROVE  PeersInv'
    <3>1. PICK next : /\ next = [calls[c] EXCEPT !.id = id, !.row = rows[id],
                           !.ip = rows[id].ip,
                           !.at = IF rows[id].ip = NoIP THEN "allocate" ELSE "peer"]
                      /\ calls' = [calls EXCEPT ![c] = next]
      BY <2>5
    <3>2. rows[id].ip # HubIP
      BY <2>5, FoundByName, RowIsSound
    <3>3. CallShape(next) /\ Enrols(next)
      <4>1. CallShape(calls[c]) /\ Enrols(calls[c])
        BY <2>1, <3>1, <3>2, CallIsShaped
      <4> QED
        BY <2>1, <3>1, <3>2, <4>1 DEF CallShape, Enrols
    <3> QED
      BY <2>1, <3>1, <3>3, QuietRows
  <2> QED
    BY <2>2, <2>3, <2>4, <2>5
<1>6. CASE EnrollPeer(c)
  <2>1. /\ calls[c] # NoCall /\ calls[c].op = "join" /\ calls[c].at = "peer"
        /\ SetWireGuard(calls[c].id, calls[c].ip, calls[c].key) /\ Go(c, "online")
    BY <1>6 DEF EnrollPeer, At
  <2>2. calls[c].ip # HubIP /\ calls[c].ip # NoIP
    BY <2>1, CallIsShaped DEF Enrols
  <2> QED
    BY <2>1, <2>2, PeerWritten, CallGoes DEF PeersInv
<1>7. CASE EnrollOnline(c)
  BY <1>7, StatusWritten, CallGoes DEF EnrollOnline, At, PeersInv
<1>8. CASE EnrollToken(c)
  BY <1>8, HandlerGoes DEF EnrollToken, At
<1>9. CASE Consume(c)
  BY <1>9, HandlerEnds DEF Consume
<1>10. CASE HeartbeatRead(c)
  <2>1. calls[c] # NoCall /\ calls[c].op = "heartbeat" /\ UNCHANGED rows
    BY <1>10 DEF HeartbeatRead, At
  <2>2. CASE End(c)
    BY <2>1, <2>2, HandlerEnds
  <2>3. CASE ~End(c)
    <3>1. PICK next : /\ next = [calls[c] EXCEPT !.row = rows[calls[c].id],
                                  !.name = rows[calls[c].id].name, !.at = "beat"]
                      /\ calls' = [calls EXCEPT ![c] = next]
      BY <1>10, <2>3 DEF HeartbeatRead
    <3>2. CallShape(next) /\ Enrols(next)
      <4>1. CallShape(calls[c]) /\ Enrols(calls[c])
        BY <2>1, <3>1, CallIsShaped
      <4> QED
        BY <2>1, <3>1, <4>1 DEF CallShape, Enrols
    <3> QED
      BY <2>1, <3>1, <3>2, QuietRows
  <2> QED
    BY <2>2, <2>3
<1>11. CASE HeartbeatWrite(c)
  BY <1>11, StatusWritten, CallGoes DEF HeartbeatWrite, At, PeersInv
<1>12. CASE SyncNodeLabels(c)
  BY <1>12, HandlerEnds DEF SyncNodeLabels
<1>13. CASE BootstrapRead(c)
  <2>1. calls[c] # NoCall /\ calls[c].op = "bootstrap" /\ UNCHANGED rows
    BY <1>13 DEF BootstrapRead, At
  <2>2. CASE End(c)
    BY <2>1, <2>2, HandlerEnds
  <2>3. CASE ~End(c)
    <3>1. PICK next : /\ next = [calls[c] EXCEPT !.row = rows[calls[c].id],
                                  !.name = rows[calls[c].id].name, !.at = "list"]
                      /\ calls' = [calls EXCEPT ![c] = next]
      BY <1>13, <2>3 DEF BootstrapRead
    <3>2. CallShape(next) /\ Enrols(next)
      <4>1. CallShape(calls[c]) /\ Enrols(calls[c])
        BY <2>1, <3>1, CallIsShaped
      <4> QED
        BY <2>1, <3>1, <4>1 DEF CallShape, Enrols
    <3> QED
      BY <2>1, <3>1, <3>2, QuietRows
  <2> QED
    BY <2>2, <2>3
<1>14. CASE RegisterWorker(c)
  BY <1>14, HandlerEnds DEF RegisterWorker
<1>15. CASE ListPeers(c)
  <2>1. calls[c] # NoCall /\ calls[c].op \in Syncing /\ UNCHANGED rows
    BY <1>15 DEF ListPeers, AtAny, At
  <2>2. PICK next, peers : /\ next = [calls[c] EXCEPT !.peers = peers, !.at = "show"]
                           /\ calls' = [calls EXCEPT ![c] = next]
    BY <1>15 DEF ListPeers
  <2>3. CallShape(next) /\ Enrols(next)
    <3>1. CallShape(calls[c]) /\ Enrols(calls[c])
      BY <2>1, <2>2, CallIsShaped
    <3> QED
      BY <2>1, <2>2, <3>1 DEF CallShape, Enrols, Syncing
  <2> QED
    BY <2>1, <2>2, <2>3, QuietRows
<1>16. CASE ShowPeers(c)
  <2>1. calls[c] # NoCall /\ calls[c].op \in Syncing /\ UNCHANGED rows
    BY <1>16 DEF ShowPeers, AtAny, At
  <2>2. PICK next, shown : /\ next = [calls[c] EXCEPT !.shown = shown, !.at = "apply"]
                           /\ calls' = [calls EXCEPT ![c] = next]
    BY <1>16 DEF ShowPeers
  <2>3. CallShape(next) /\ Enrols(next)
    <3>1. CallShape(calls[c]) /\ Enrols(calls[c])
      BY <2>1, <2>2, CallIsShaped
    <3> QED
      BY <2>1, <2>2, <3>1 DEF CallShape, Enrols, Syncing
  <2> QED
    BY <2>1, <2>2, <2>3, QuietRows
<1>17. CASE ApplyPeers(c)
  BY <1>17, HandlerGoes DEF ApplyPeers, AtAny, At, Syncing
<1>18. CASE ApplyPartly(c)
  BY <1>18, HandlerEnds DEF ApplyPartly
<1>19. CASE SetNodeUnschedulable(c)
  BY <1>19, HandlerGoes DEF SetNodeUnschedulable, AtAny, At
<1>20. CASE MarkDrained(c)
  <2>1. CASE UNCHANGED rows
    BY <1>20, <2>1, HandlerEnds DEF MarkDrained
  <2>2. CASE UpdateStatus(calls[c].id, "drained")
    BY <1>20, <2>2, StatusWritten, CallEnded DEF MarkDrained, PeersInv
  <2> QED
    BY <1>20, <2>1, <2>2 DEF MarkDrained
<1>21. CASE MarkSchedulable(c)
  <2>1. CASE UNCHANGED rows
    BY <1>21, <2>1, HandlerEnds DEF MarkSchedulable
  <2>2. ASSUME NEW s \in {"online", "offline"}, UpdateStatus(calls[c].id, s) PROVE PeersInv'
    BY <1>21, <2>2, StatusWritten, CallEnded DEF MarkSchedulable, PeersInv
  <2> QED
    BY <1>21, <2>1, <2>2 DEF MarkSchedulable
<1>22. CASE RevokeTokens(c)
  BY <1>22, HandlerGoes DEF RevokeTokens, AtAny, At
<1>23. CASE DisablePeer(c)
  <2>1. /\ calls[c] # NoCall /\ calls[c].op = "remove"
        /\ SetWireGuard(calls[c].id, calls[c].row.ip, NoKey) /\ Go(c, "mark")
    BY <1>23 DEF DisablePeer, At
  <2>2. calls[c].row.ip # HubIP
    BY <2>1, CallIsShaped DEF Enrols
  <2> QED
    BY <2>1, <2>2, PeerWritten, CallGoes DEF PeersInv
<1>24. CASE MarkRemoved(c)
  BY <1>24, StatusWritten, CallGoes DEF MarkRemoved, At, PeersInv
<1>25. CASE RemoveKubeNode(c)
  BY <1>25, HandlerGoes DEF RemoveKubeNode, AtAny, At
<1>26. CASE ReplyRemoved(c)
  BY <1>26, HandlerEnds DEF ReplyRemoved
<1>27. CASE DeleteAgentTokens(c)
  BY <1>27, HandlerGoes DEF DeleteAgentTokens, At
<1>28. CASE DeleteJoinTokens(c)
  BY <1>28, HandlerGoes, HandlerEnds DEF DeleteJoinTokens, AtAny, At
<1>29. CASE DeleteRow(c)
  <2>1. RowsShape' /\ PeersDistinct'
    BY <1>29, RowWritten DEF DeleteRow, Known
  <2> QED
    BY <1>29, <2>1, CallEnded DEF DeleteRow, PeersInv
<1>30. CASE RenameRow(c)
  <2>1. PICK id, row : /\ id = calls[c].id
                       /\ row = [rows[id] EXCEPT !.name = calls[c].to]
                       /\ Update(id, row)
    BY <1>30 DEF RenameRow
  <2>2. Known(id) /\ Unique(id, row) /\ rows' = [rows EXCEPT ![id] = row]
    BY <2>1 DEF Update
  <2>3. RowShape(row) /\ row.ip = rows[id].ip /\ row.key = rows[id].key
    <3>1. id \in Ids /\ RowShape(rows[id])
      BY <2>1, <2>2, RowIsSound
    <3> QED
      BY <2>1, <2>2, <3>1 DEF RowShape
  <2>4. RowsShape' /\ PeersDistinct'
    BY <2>2, <2>3, RowIsSound, RowWritten
  <2> QED
    BY <1>30, <2>4, CallGoes DEF RenameRow, At, PeersInv
<1>31. CASE Abort(c)
  BY <1>31, HandlerEnds DEF Abort
<1> QED
  BY <1>1, <1>2, <1>3, <1>4, <1>5, <1>6, <1>7, <1>8, <1>9, <1>10, <1>11, <1>12, <1>13,
     <1>14, <1>15, <1>16, <1>17, <1>18, <1>19, <1>20, <1>21, <1>22, <1>23, <1>24, <1>25,
     <1>26, <1>27, <1>28, <1>29, <1>30, <1>31 DEF Handler

\* So does every step of the system.
LEMMA PeersInvNext == PeersInv /\ [Next]_vars => PeersInv'
<1> SUFFICES ASSUME PeersInv, [Next]_vars PROVE PeersInv'
  OBVIOUS
<1>1. ASSUME NEW c \in Callers, Request(c) \/ Handler(c) PROVE PeersInv'
  BY <1>1, PeersInvRequest, PeersInvHandler
<1>2. CASE UNCHANGED << rows, calls >>
  BY <1>2 DEF PeersInv, RowsShape, CallsShape, PeersDistinct, Known
<1>3. ASSUME NEW id \in Ids, MonitorMark(id) PROVE PeersInv'
  <2>1. CASE UpdateStatus(id, "offline")
    BY <1>3, <2>1, StatusWritten DEF MonitorMark, PeersInv, CallsShape
  <2> QED
    BY <1>2, <1>3, <2>1 DEF MonitorMark
<1>4. ASSUME NEW id \in Ids, Silence(id) PROVE PeersInv'
  <2>1. PICK row : /\ row = [rows[id] EXCEPT !.seen = "stale"]
                   /\ rows' = [rows EXCEPT ![id] = row] /\ UNCHANGED calls /\ Known(id)
    BY <1>4 DEF Silence
  <2>2. /\ RowShape(row) /\ row.ip = rows[id].ip /\ row.key = rows[id].key
        /\ row.name = rows[id].name
    <3>1. id \in Ids /\ RowShape(rows[id])
      BY <2>1, RowIsSound
    <3> QED
      BY <2>1, <3>1 DEF RowShape
  <2>3. Unique(id, row)
    BY <2>1, <2>2 DEF PeersInv, PeersDistinct, Unique
  <2>4. RowsShape' /\ PeersDistinct'
    BY <2>1, <2>2, <2>3, RowIsSound, RowWritten
  <2> QED
    BY <2>1, <2>4 DEF PeersInv, CallsShape
<1>5. CASE Restart
  BY <1>5 DEF Restart, PeersInv, RowsShape, CallsShape, PeersDistinct, Known
<1> QED
  BY <1>1, <1>2, <1>3, <1>4, <1>5 DEF Next, vars, MonitorList, Expire

\* No two nodes share a name, an address or a key, whatever handlers, monitor
\* passes and restarts interleave: each handler checks nothing across its
\* steps, and the indexes of the table and the allocator's choice carry it.
THEOREM PeersAlwaysDistinct == Spec => []PeersDistinct
<1>1. PeersInv => PeersDistinct
  BY DEF PeersInv
<1> QED
  BY <1>1, PeersInvInit, PeersInvNext, PTL DEF Spec

---------------------------------------------------------------------------
(* Join tokens.                                                            *)

AgentShape(a) == a = [state |-> a.state, token |-> a.token]
TokenShape(t) == t = [name |-> t.name, state |-> t.state]
Spent == {"used", "deleted"}

\* The token of an agent that was admitted is spent, and stays so.
TokensInv ==
    /\ agents = [k \in Keys |-> agents[k]] /\ \A k \in Keys : AgentShape(agents[k])
    /\ joinTokens = [t \in Tokens |-> joinTokens[t]]
    /\ \A t \in Tokens : TokenShape(joinTokens[t])
    /\ \A k \in Keys : agents[k].token # NoToken =>
         agents[k].token \in Tokens /\ joinTokens[agents[k].token].state \in Spent
    /\ TokenAdmitsOnce

\* No token exists and no agent has joined.
LEMMA TokensInvInit == Init => TokensInv
BY SMTT(30) DEF Init, TokensInv, AgentShape, TokenShape, TokenAdmitsOnce

\* Agents keep their tokens, and spent tokens stay spent.
LEMMA TokensKept ==
    ASSUME TokensInv,
           agents' = [k \in Keys |-> agents'[k]],
           \A k \in Keys : AgentShape(agents'[k]) /\ agents'[k].token = agents[k].token,
           joinTokens' = [t \in Tokens |-> joinTokens'[t]],
           \A t \in Tokens : /\ TokenShape(joinTokens'[t])
                             /\ joinTokens[t].state \in Spent => joinTokens'[t].state \in Spent
    PROVE  TokensInv'
BY DEF TokensInv, TokenAdmitsOnce

\* An agent changes its state and nothing else.
LEMMA AgentsKept ==
    ASSUME TokensInv, UNCHANGED joinTokens, agents' = [k \in Keys |-> agents'[k]],
           \A k \in Keys : \/ agents'[k] = agents[k]
                           \/ \E s : agents'[k] = [agents[k] EXCEPT !.state = s]
    PROVE  TokensInv'
<1>1. ASSUME NEW k \in Keys
      PROVE  AgentShape(agents'[k]) /\ agents'[k].token = agents[k].token
  <2>1. AgentShape(agents[k])
    BY DEF TokensInv
  <2>2. CASE agents'[k] = agents[k]
    BY <2>1, <2>2
  <2>3. ASSUME NEW s, agents'[k] = [agents[k] EXCEPT !.state = s]
        PROVE  AgentShape(agents'[k]) /\ agents'[k].token = agents[k].token
    BY <2>1, <2>3 DEF AgentShape
  <2> QED
    BY <2>2, <2>3
<1> QED
  BY <1>1, TokensKept DEF TokensInv

\* The same for one agent.
LEMMA AgentStateSet ==
    ASSUME TokensInv, UNCHANGED joinTokens, NEW k \in Keys, NEW s,
           agents' = [agents EXCEPT ![k].state = s]
    PROVE  TokensInv'
<1>1. \A l \in Keys : agents'[l] = agents[l] \/ agents'[l] = [agents[l] EXCEPT !.state = s]
  BY DEF TokensInv
<1>2. agents' = [l \in Keys |-> agents'[l]]
  BY DEF TokensInv
<1> QED
  BY <1>1, <1>2, AgentsKept

\* The same for the agent of a handler that is gone.
LEMMA AgentsDropped ==
    ASSUME TokensInv, UNCHANGED joinTokens, NEW c, Dropped(c)
    PROVE  TokensInv'
BY AgentsKept DEF Dropped

\* Writes of one token, which never bring a spent one back.
LEMMA TokenSet ==
    ASSUME TokensInv, UNCHANGED agents, NEW t \in Tokens, NEW next,
           joinTokens' = [joinTokens EXCEPT ![t] = next], TokenShape(next),
           joinTokens[t].state \in Spent => next.state \in Spent
    PROVE  TokensInv'
BY TokensKept DEF TokensInv

\* Every step keeps TokensInv.
LEMMA TokensInvNext == PeersInv /\ TokensInv /\ [Next]_vars => TokensInv'
<1> SUFFICES ASSUME PeersInv, TokensInv, [Next]_vars PROVE TokensInv'
  OBVIOUS
<1>1. CASE UNCHANGED << agents, joinTokens >>
  BY <1>1 DEF TokensInv, TokenAdmitsOnce
<1>2. ASSUME NEW c \in Callers, Request(c) PROVE TokensInv'
  <2>1. ASSUME NEW k \in Keys, NEW t \in Tokens, JoinNode(c, k, t) PROVE TokensInv'
    BY <2>1, AgentStateSet DEF JoinNode, tokenVars
  <2>2. ASSUME NEW k \in Keys, NEW op \in {"heartbeat", "bootstrap"}, Authenticate(c, k, op)
        PROVE  TokensInv'
    BY <1>1, <2>2, AgentStateSet DEF Authenticate, tokenVars
  <2> QED
    BY <1>1, <1>2, <2>1, <2>2 DEF Request, CreateJoinToken, DrainNode, UncordonNode,
       RemoveNode, PurgeNode, RenameNode, PinStorage, agentVars, tokenVars
<1>3. ASSUME NEW c \in Callers, Handler(c) PROVE TokensInv'
  <2>1. CASE Allocate(c)
    BY <1>1, <2>1, AgentsDropped DEF Allocate, tokenVars
  <2>2. CASE StoreToken(c)
    <3>1. PICK t \in Tokens : /\ joinTokens[t].state = "unissued"
                              /\ joinTokens' = [joinTokens EXCEPT ![t] =
                                   [name |-> calls[c].name, state |-> "open"]]
                              /\ UNCHANGED agents
      BY <2>2 DEF StoreToken, agentVars
    <3>2. PICK next : /\ next = [name |-> calls[c].name, state |-> "open"]
                      /\ joinTokens' = [joinTokens EXCEPT ![t] = next]
      BY <3>1
    <3>3. TokenShape(next)
      BY <3>2 DEF TokenShape
    <3>4. joinTokens[t].state \notin Spent
      BY <3>1 DEF Spent
    <3> QED
      BY <3>1, <3>2, <3>3, <3>4, TokenSet
  <2>3. CASE EnrollFind(c)
    BY <1>1, <2>3, AgentsDropped DEF EnrollFind, tokenVars
  <2>4. CASE Consume(c)
    <3>1. PICK k, t : k = calls[c].key /\ t = calls[c].token
      OBVIOUS
    <3>2. k \in Keys /\ t \in Tokens
      BY <2>4, <3>1, CallIsShaped DEF Consume, At, Enrols
    <3>3. joinTokens[t].state = "open"
      BY <2>4, <3>1 DEF Consume
    <3>4. PICK next : /\ next = [joinTokens[t] EXCEPT !.state = "used"]
                      /\ joinTokens' = [joinTokens EXCEPT ![t] = next]
      BY <2>4, <3>1 DEF Consume
    <3>5. TokenShape(next) /\ next.state \in Spent
      <4>1. TokenShape(joinTokens[t])
        BY <3>2 DEF TokensInv
      <4> QED
        BY <3>4, <4>1 DEF TokenShape, Spent
    <3>6. PICK agent : /\ agent = [state |-> "joined", token |-> t]
                       /\ agents' = [agents EXCEPT ![k] = agent]
      BY <2>4, <3>1 DEF Consume
    <3>7. AgentShape(agent) /\ agent.token = t
      BY <3>6 DEF AgentShape
    <3>8. joinTokens[t].state \notin Spent
      BY <3>3 DEF Spent
    <3>9. \A l \in Keys : agents[l].token # t
      BY <3>2, <3>8, RegistryAssumption DEF TokensInv
    <3> QED
      BY <3>2, <3>4, <3>5, <3>6, <3>7, <3>9 DEF TokensInv, TokenAdmitsOnce
  <2>5. CASE HeartbeatRead(c)
    <3>1. UNCHANGED joinTokens
      BY <2>5 DEF HeartbeatRead, tokenVars
    <3>2. calls[c].key \in Keys => TokensInv'
      BY <1>1, <2>5, <3>1, AgentStateSet DEF HeartbeatRead
    <3>3. CASE calls[c].key \notin Keys
      <4>1. \/ UNCHANGED agents
            \/ agents' = [agents EXCEPT ![calls[c].key].state = "stopped"]
        BY <2>5 DEF HeartbeatRead
      <4>2. UNCHANGED agents
        BY <3>3, <4>1 DEF TokensInv
      <4> QED
        BY <1>1, <3>1, <4>2
    <3> QED
      BY <3>2, <3>3
  <2>6. CASE DeleteJoinTokens(c)
    <3>1. /\ UNCHANGED agents
          /\ joinTokens' = [t \in Tokens |-> IF joinTokens[t].name = calls[c].name
                             THEN [joinTokens[t] EXCEPT !.state = "deleted"]
                             ELSE joinTokens[t]]
      BY <2>6 DEF DeleteJoinTokens, DeletedTokens, agentVars
    <3>2. ASSUME NEW t \in Tokens
          PROVE  /\ TokenShape(joinTokens'[t])
                 /\ joinTokens[t].state \in Spent => joinTokens'[t].state \in Spent
      <4>1. TokenShape(joinTokens[t])
        BY DEF TokensInv
      <4>2. CASE joinTokens'[t] = joinTokens[t]
        BY <4>1, <4>2
      <4>3. CASE joinTokens'[t] = [joinTokens[t] EXCEPT !.state = "deleted"]
        BY <4>1, <4>3 DEF TokenShape, Spent
      <4> QED
        BY <3>1, <4>2, <4>3
    <3> QED
      BY <3>1, <3>2, TokensKept DEF TokensInv
  <2>7. CASE Abort(c)
    BY <2>7, AgentsDropped DEF Abort, tokenVars
  <2> QED
    BY <1>1, <1>3, <2>1, <2>2, <2>3, <2>4, <2>5, <2>6, <2>7 DEF Handler, CreateRow,
       AssignAddress, EnrollPeer, EnrollOnline, EnrollToken, HeartbeatWrite, SyncNodeLabels,
       BootstrapRead, RegisterWorker, ListPeers, ShowPeers, ApplyPeers, ApplyPartly,
       SetNodeUnschedulable, MarkDrained, MarkSchedulable, RevokeTokens, DisablePeer,
       MarkRemoved, RemoveKubeNode, ReplyRemoved, DeleteAgentTokens, DeleteRow, RenameRow,
       agentVars, tokenVars
<1>4. ASSUME NEW t \in Tokens, Expire(t) PROVE TokensInv'
  <2>1. PICK next : /\ next = [joinTokens[t] EXCEPT !.state = "expired"]
                    /\ joinTokens' = [joinTokens EXCEPT ![t] = next]
                    /\ UNCHANGED agents
    BY <1>4 DEF Expire, agentVars
  <2>2. TokenShape(next)
    <3>1. TokenShape(joinTokens[t])
      BY DEF TokensInv
    <3> QED
      BY <2>1, <3>1 DEF TokenShape
  <2>3. joinTokens[t].state \notin Spent
    BY <1>4 DEF Expire, Spent
  <2> QED
    BY <2>1, <2>2, <2>3, TokenSet
<1>5. CASE Restart
  BY <1>5, AgentsKept DEF Restart, tokenVars
<1> QED
  BY <1>1, <1>2, <1>3, <1>4, <1>5 DEF Next, vars, MonitorList, MonitorMark, Silence,
     agentVars, tokenVars

\* A join token admits one agent, however many JoinNode calls hold it at once.
THEOREM TokenAlwaysAdmitsOnce == Spec => []TokenAdmitsOnce
<1>1. TokensInv => TokenAdmitsOnce
  BY DEF TokensInv
<1> QED
  BY <1>1, PeersInvInit, PeersInvNext, TokensInvInit, TokensInvNext, PTL DEF Spec

---------------------------------------------------------------------------
(* One handler at a time.  A removal, a bootstrap and a storage check rely *)
(* on nothing changing between their steps but what the offline monitor,   *)
(* the clock and a restart change.                                         *)

OneAtATime == load.alone

Alone == \A c, d \in Callers : calls[c] # NoCall /\ calls[d] # NoCall => c = d
GrantShape(g) == g = [node |-> g.node, state |-> g.state]
NoLiveToken(id) ==
    \A k \in Keys : agentTokens[k].node = id => agentTokens[k].state # "live"
Peers(id) == Known(id) /\ rows[id].status # "removed" /\ rows[id].key # NoKey
Pair(id) == <<rows[id].key, rows[id].ip>>
Functional(peers) == \A p, q \in peers : p[1] = q[1] \/ p[2] = q[2] => p = q

\* What a removal or a purge in progress has made sure of.
Removes(k) ==
    /\ k.op \in {"remove", "purge"} => k.id \notin pinned
    /\ k.op = "remove" /\ k.at \in {"unpeer", "mark"} => NoLiveToken(k.id)
    /\ k.op = "remove" /\ k.at = "mark" /\ Known(k.id) => rows[k.id].key = NoKey
    /\ k.op = "purge" /\ Known(k.id) => rows[k.id].key \notin booted

\* What an enrolment in progress has made sure of.
Joins(k) ==
    /\ k.op \in {"token", "join"} /\ Known(k.id) => rows[k.id].status # "removed"
    /\ k.op = "token" /\ k.id # NoId /\ k.row.ip = NoIP => k.row.key = NoKey
    /\ k.op = "token" /\ k.at = "assign" => k.id # NoId /\ k.row.ip = NoIP
    /\ k.op = "join" => agents[k.key].state = "joining"
    /\ k.op = "join" /\ k.at \in {"online", "agent", "consume"} =>
         Known(k.id) /\ rows[k.id].key = k.key
    /\ k.op = "join" /\ k.at \in {"agent", "consume"} => rows[k.id].status # "pending"

\* What a synchronisation of the hub in progress has listed and set.
Syncs(k) ==
    /\ Functional(k.peers)
    /\ k.at \in {"show", "apply"} =>
         \A id \in Ids : Peers(id) /\ (k.op = "purge" => id # k.id) => Pair(id) \in k.peers
    /\ k.at = "register" => \A id \in Ids : Peers(id) => Pair(id) \in hub
    /\ k.op \in {"bootstrap", "heartbeat"} =>
         k.key \in Keys /\ agents[k.key].state \in {"joined", "stopped"}

StateInv ==
    /\ agentTokens = [k \in Keys |-> agentTokens[k]]
    /\ \A k \in Keys : GrantShape(agentTokens[k])
    /\ RemovedIsCutOff /\ WorkerStaysReachable
    /\ pinned \subseteq Ids /\ StorageKeepsItsNode
    /\ \A k \in booted : k \in Keys /\ agents[k].state \in {"joined", "stopped"}
    /\ \A id \in Ids : Known(id) /\ rows[id].status = "pending" /\ rows[id].key # NoKey =>
         rows[id].key \in Keys /\ agents[rows[id].key].state \in {"joining", "failed"}
CallInv(k) == Removes(k) /\ Joins(k) /\ Syncs(k)
SerialInv ==
    /\ Alone /\ StateInv
    /\ \A c \in Callers : calls[c] # NoCall => CallInv(calls[c])

\* SerialInv holds at the start.
LEMMA SerialInvInit == Init => SerialInv
BY SMTT(30) DEF Init, SerialInv, Alone, StateInv, GrantShape, RemovedIsCutOff, WorkerStaysReachable,
       StorageKeepsItsNode, Known

\* With one handler at a time, an RPC is accepted when none is in flight.
LEMMA AcceptedAlone ==
    ASSUME OneAtATime, NEW c, NEW op, Accepts(c, op)
    PROVE  \A d \in Callers : calls[d] = NoCall
BY DEF Accepts, OneAtATime

\* The only handler there is takes a step.
LEMMA SerialStep ==
    ASSUME PeersInv, SerialInv, NEW c \in Callers, NEW next,
           calls' = [calls EXCEPT ![c] = next],
           calls[c] # NoCall \/ \A d \in Callers : calls[d] = NoCall,
           StateInv', next # NoCall => CallInv(calls[c])'
    PROVE  SerialInv'
<1>1. /\ calls'[c] = next /\ \A d \in Callers \ {c} : calls'[d] = NoCall
      /\ calls' = [d \in Callers |-> calls'[d]]
  BY DEF PeersInv, CallsShape, SerialInv, Alone
<1>2. Alone'
  BY <1>1 DEF Alone
<1> QED
  BY <1>1, <1>2 DEF SerialInv

\* Go changes where a handler is and nothing else of it.
LEMMA GoFields ==
    ASSUME PeersInv, NEW c \in Callers, calls[c] # NoCall, NEW at, Go(c, at)
    PROVE  /\ calls' = [calls EXCEPT ![c] = calls'[c]]
           /\ calls'[c].at = at /\ calls'[c].op = calls[c].op /\ calls'[c].id = calls[c].id
           /\ calls'[c].row = calls[c].row /\ calls'[c].key = calls[c].key
           /\ calls'[c].peers = calls[c].peers /\ calls'[c].ip = calls[c].ip
           /\ calls'[c].name = calls[c].name
<1>1. PICK next : next = [calls[c] EXCEPT !.at = at] /\ calls' = [calls EXCEPT ![c] = next]
  BY DEF Go
<1>2. CallShape(calls[c])
  BY CallIsShaped
<1>3. calls'[c] = next /\ calls' = [calls EXCEPT ![c] = calls'[c]]
  BY <1>1 DEF PeersInv, CallsShape
<1> QED
  BY <1>1, <1>2, <1>3, SMTT(30) DEF CallShape

\* The only handler answers.
LEMMA SerialEnd ==
    ASSUME PeersInv, SerialInv, NEW c \in Callers, calls[c] # NoCall, End(c), StateInv'
    PROVE  SerialInv'
BY SerialStep DEF End

\* The only handler goes on.
LEMMA SerialGo ==
    ASSUME PeersInv, SerialInv, NEW c \in Callers, calls[c] # NoCall, NEW at, Go(c, at),
           StateInv', CallInv(calls[c])'
    PROVE  SerialInv'
BY SerialStep, GoFields

stateVars == << rows, agentTokens, agents, booted, hub, pinned >>

\* StateInv is about the stored state alone.
LEMMA StateQuiet ==
    ASSUME StateInv, UNCHANGED stateVars
    PROVE  StateInv'
BY DEF StateInv, stateVars, RemovedIsCutOff, WorkerStaysReachable, StorageKeepsItsNode, Known

\* An agent that has bootstrapped, or was never able to, stays that way.
LEMMA StateAgents ==
    ASSUME StateInv, UNCHANGED << rows, agentTokens, booted, hub, pinned >>,
           \A k \in Keys :
             /\ agents[k].state \in {"joined", "stopped"} =>
                  agents'[k].state \in {"joined", "stopped"}
             /\ agents[k].state \in {"joining", "failed"} =>
                  agents'[k].state \in {"joining", "failed"}
    PROVE  StateInv'
BY DEF StateInv, stateVars, RemovedIsCutOff, WorkerStaysReachable, StorageKeepsItsNode, Known

\* A row changes its name, its last heartbeat, or its status to one that is
\* neither pending nor removed.
RowsStay ==
    \A j \in Ids :
        /\ Known(j)' <=> Known(j)
        /\ Known(j) => /\ rows'[j].key = rows[j].key /\ rows'[j].ip = rows[j].ip
                       /\ \/ rows'[j].status = rows[j].status
                          \/ rows'[j].status \notin {"removed", "pending"}

\* A write that keeps keys and addresses adds no peer.
LEMMA PeersStay ==
    ASSUME StateInv, RowsStay, NEW id \in Ids, Peers(id)'
    PROVE  Peers(id) /\ Pair(id)' = Pair(id)
BY DEF StateInv, RowsStay, RemovedIsCutOff, Peers, Pair, Known

\* Such a write keeps StateInv.
LEMMA StateRows ==
    ASSUME StateInv, RowsStay, UNCHANGED << agentTokens, agents, booted, hub, pinned >>
    PROVE  StateInv'
<1>1. RemovedIsCutOff'
  BY DEF StateInv, RowsStay, RemovedIsCutOff
<1>2. WorkerStaysReachable'
  BY RegistryAssumption, SMTT(30) DEF StateInv, RowsStay, RemovedIsCutOff, WorkerStaysReachable
<1>3. StorageKeepsItsNode'
  BY DEF StateInv, RowsStay, StorageKeepsItsNode
<1>4. \A id \in Ids : Known(id)' /\ rows'[id].status = "pending" /\ rows'[id].key # NoKey =>
        rows'[id].key \in Keys /\ agents'[rows'[id].key].state \in {"joining", "failed"}
  BY DEF StateInv, RowsStay
<1> QED
  BY <1>1, <1>2, <1>3, <1>4 DEF StateInv

\* A status change between live states is such a write.
LEMMA StatusStays ==
    ASSUME PeersInv, NEW id, NEW s, s \notin {"none", "removed", "pending"},
           UpdateStatus(id, s) \/ UpdateHeartbeat(id, s)
    PROVE  RowsStay /\ Known(id) /\ id \in Ids /\ rows'[id].status = s
<1>1. PICK row : /\ \/ row = [rows[id] EXCEPT !.status = s]
                    \/ row = [rows[id] EXCEPT !.status = s, !.seen = "fresh"]
                 /\ Update(id, row)
  BY DEF UpdateStatus, UpdateHeartbeat
<1>2. Known(id) /\ id \in Ids /\ rows' = [rows EXCEPT ![id] = row]
  BY <1>1 DEF Update, Known
<1>3. RowShape(rows[id])
  BY <1>2, RowIsSound
<1>4. row.ip = rows[id].ip /\ row.key = rows[id].key /\ row.status = s
  BY <1>1, <1>3 DEF RowShape
<1>5. rows'[id] = row /\ \A j \in Ids \ {id} : rows'[j] = rows[j]
  BY <1>2 DEF PeersInv, RowsShape
<1>6. Known(id)'
  BY <1>2, <1>4, <1>5, SMTT(30) DEF Known, NoRow
<1> QED
  BY <1>2, <1>4, <1>5, <1>6 DEF RowsStay, Known

\* What a handler that begins has read.
LEMMA BeginFields ==
    ASSUME PeersInv, NEW c \in Callers, NEW op, NEW at, NEW n, NEW id, Begin(c, op, at, n, id)
    PROVE  /\ calls' = [calls EXCEPT ![c] = calls'[c]]
           /\ calls'[c].at = at /\ calls'[c].op = op /\ calls'[c].id = id
           /\ calls'[c].row = Find(id) /\ calls'[c].peers = {}
<1>1. PICK next :
        /\ next = [op |-> op, at |-> at, name |-> n, id |-> id, row |-> Find(id),
                   ip |-> IF Known(id) THEN rows[id].ip ELSE NoIP,
                   key |-> NoKey, token |-> NoToken, to |-> n, peers |-> {}, shown |-> {}]
        /\ calls' = [calls EXCEPT ![c] = next]
  BY DEF Begin
<1>2. calls'[c] = next /\ calls' = [calls EXCEPT ![c] = calls'[c]]
  BY <1>1 DEF PeersInv, CallsShape
<1> QED
  BY <1>1, <1>2, SMTT(30)

\* A handler that neither enrols, removes, purges nor synchronises.
LEMMA SerialBegin ==
    ASSUME PeersInv, SerialInv, OneAtATime, NEW c \in Callers, UNCHANGED stateVars,
           NEW op, NEW at, NEW n, NEW id, Begin(c, op, at, n, id), CallInv(calls[c])'
    PROVE  SerialInv'
<1>1. StateInv'
  BY StateQuiet DEF SerialInv
<1>2. \A d \in Callers : calls[d] = NoCall
  BY AcceptedAlone DEF Begin
<1> QED
  BY <1>1, <1>2, BeginFields, SerialStep, SMTT(30)

\* Accepting an RPC keeps SerialInv.
LEMMA SerialRequest ==
    ASSUME PeersInv, TokensInv, SerialInv, OneAtATime, NEW c \in Callers, Request(c)
    PROVE  SerialInv'
<1> StateInv
  BY DEF SerialInv
<1>1. ASSUME NEW n \in Names, CreateJoinToken(c, n) PROVE SerialInv'
  <2>1. PICK id, at : /\ id = FindByName(n) /\ at \in {"store", "allocate"}
                      /\ Begin(c, "token", at, n, id)
                      /\ UNCHANGED stateVars
                      /\ id # NoId => rows[id].status = "pending"
    BY <1>1 DEF CreateJoinToken, stateVars, agentVars, tokenVars, clusterVars
  <2>2. id # NoId => Known(id)
    BY <2>1, FoundByName
  <2>3. CallInv(calls[c])'
    <3>1. /\ calls'[c].at = at /\ calls'[c].op = "token" /\ calls'[c].id = id
          /\ calls'[c].row = Find(id) /\ calls'[c].peers = {}
      BY <2>1, BeginFields
    <3>2. Removes(calls[c])' /\ Syncs(calls[c])'
      BY <2>1, <3>1 DEF Removes, Syncs, Functional
    <3>3. id # NoId /\ Find(id).ip = NoIP => Find(id).key = NoKey
      BY <2>2 DEF Find, PeersInv, PeersDistinct, Known
    <3>4. Joins(calls[c])'
      BY <2>1, <2>2, <3>1, <3>3, RegistryAssumption DEF Joins, Known, stateVars
    <3> QED
      BY <3>2, <3>4 DEF CallInv
  <2> QED
    BY <2>1, <2>3, SerialBegin
<1>2. ASSUME NEW n \in Names, NEW op \in {"drain", "uncordon"}, NEW at \in {"cordon", "uncordon"},
             NEW id, Begin(c, op, at, n, id), UNCHANGED stateVars
      PROVE  SerialInv'
  <2>1. calls'[c].at = at /\ calls'[c].op = op /\ calls'[c].peers = {}
    BY <1>2, BeginFields
  <2>2. CallInv(calls[c])'
    BY <1>2, <2>1 DEF CallInv, Removes, Joins, Syncs, Functional
  <2> QED
    BY <1>2, <2>2, SerialBegin
<1>3. ASSUME NEW n \in Names, DrainNode(c, n) PROVE SerialInv'
  BY <1>2, <1>3 DEF DrainNode, stateVars, agentVars, tokenVars, clusterVars
<1>4. ASSUME NEW n \in Names, UncordonNode(c, n) PROVE SerialInv'
  BY <1>2, <1>4 DEF UncordonNode, stateVars, agentVars, tokenVars, clusterVars
<1>5. ASSUME NEW n \in Names, RemoveNode(c, n) PROVE SerialInv'
  <2>1. PICK id, at : /\ id = FindByName(n) /\ id # NoId /\ at \in {"kube", "revoke"}
                      /\ rows[id].status # "removed" => id \notin pinned
                      /\ Begin(c, "remove", at, n, id) /\ UNCHANGED stateVars
    BY <1>5 DEF RemoveNode, stateVars, agentVars, tokenVars, clusterVars
  <2>2. id \notin pinned
    BY <2>1 DEF StateInv, StorageKeepsItsNode
  <2>3. calls'[c].at = at /\ calls'[c].op = "remove" /\ calls'[c].id = id /\ calls'[c].peers = {}
    BY <2>1, BeginFields
  <2>4. CallInv(calls[c])'
    BY <2>1, <2>2, <2>3 DEF CallInv, Removes, Joins, Syncs, Functional, stateVars
  <2> QED
    BY <2>1, <2>4, SerialBegin
<1>6. ASSUME NEW n \in Names, PurgeNode(c, n) PROVE SerialInv'
  <2>1. PICK id : /\ id = FindByName(n) /\ id # NoId /\ id \notin pinned
                  /\ rows[id].status \in {"pending", "removed"}
                  /\ Begin(c, "purge", "revoke", n, id) /\ UNCHANGED stateVars
    BY <1>6 DEF PurgeNode, stateVars, agentVars, tokenVars, clusterVars
  <2>2. id \in Ids /\ Known(id)
    BY <2>1, FoundByName
  <2>3. rows[id].key \notin booted
    BY <2>1, <2>2, RegistryAssumption DEF StateInv, RemovedIsCutOff
  <2>4. calls'[c].at = "revoke" /\ calls'[c].op = "purge" /\ calls'[c].id = id
        /\ calls'[c].peers = {}
    BY <2>1, BeginFields
  <2>5. CallInv(calls[c])'
    BY <2>1, <2>3, <2>4 DEF CallInv, Removes, Joins, Syncs, Functional, stateVars
  <2> QED
    BY <2>1, <2>5, SerialBegin
<1>7. ASSUME NEW next, calls' = [calls EXCEPT ![c] = next], NEW op, Accepts(c, op),
             StateInv', CallInv(calls[c])'
      PROVE  SerialInv'
  BY <1>7, AcceptedAlone, SerialStep
<1>8. ASSUME NEW n \in Names, NEW to \in Names, RenameNode(c, n, to) PROVE SerialInv'
  <2>1. PICK next : /\ next = [op |-> "rename", at |-> "rename", name |-> n,
                        id |-> FindByName(n), row |-> rows[FindByName(n)],
                        ip |-> NoIP, key |-> NoKey, token |-> NoToken, to |-> to,
                        peers |-> {}, shown |-> {}]
                    /\ calls' = [calls EXCEPT ![c] = next]
    BY <1>8 DEF RenameNode
  <2>2. next.op = "rename" /\ next.at = "rename" /\ next.peers = {} /\ calls'[c] = next
    BY <2>1 DEF PeersInv, CallsShape
  <2>3. CallInv(calls[c])'
    BY <2>2 DEF CallInv, Removes, Joins, Syncs, Functional
  <2>4. StateInv' /\ Accepts(c, "rename")
    BY <1>8, StateQuiet DEF RenameNode, stateVars, agentVars, tokenVars, clusterVars
  <2> QED
    BY <1>7, <2>1, <2>3, <2>4
<1>9. ASSUME NEW k \in Keys, NEW t \in Tokens, JoinNode(c, k, t) PROVE SerialInv'
  <2>1. PICK next : /\ next = [op |-> "join", at |-> "find", name |-> joinTokens[t].name,
                        id |-> NoId, row |-> NoRow, ip |-> NoIP, key |-> k, token |-> t,
                        to |-> joinTokens[t].name, peers |-> {}, shown |-> {}]
                    /\ calls' = [calls EXCEPT ![c] = next]
    BY <1>9 DEF JoinNode
  <2>2. /\ next.op = "join" /\ next.at = "find" /\ next.peers = {} /\ next.key = k
        /\ next.id = NoId /\ calls'[c] = next
    BY <2>1 DEF PeersInv, CallsShape
  <2>3. agents'[k].state = "joining" /\ \A l \in Keys \ {k} : agents'[l] = agents[l]
    <3>1. AgentShape(agents[k])
      BY DEF TokensInv
    <3> QED
      BY <1>9, <3>1 DEF JoinNode, TokensInv, AgentShape
  <2>4. CallInv(calls[c])'
    BY <2>2, <2>3, RegistryAssumption DEF CallInv, Removes, Joins, Syncs, Functional, Known
  <2>5. StateInv' /\ Accepts(c, "join")
    BY <1>9, <2>3, StateAgents DEF JoinNode, tokenVars, clusterVars
  <2> QED
    BY <1>7, <2>1, <2>4, <2>5
<1>10. ASSUME NEW k \in Keys, NEW op \in {"heartbeat", "bootstrap"}, Authenticate(c, k, op)
       PROVE  SerialInv'
  <2>1. CASE agentTokens[k].state = "live"
    <3>1. PICK next : /\ next = [op |-> op, at |-> "read", name |-> NoName,
                          id |-> agentTokens[k].node, row |-> NoRow, ip |-> NoIP,
                          key |-> k, token |-> NoToken, to |-> NoName,
                          peers |-> {}, shown |-> {}]
                      /\ calls' = [calls EXCEPT ![c] = next]
      BY <1>10, <2>1 DEF Authenticate
    <3>2. /\ next.op = op /\ next.at = "read" /\ next.peers = {} /\ next.key = k
          /\ calls'[c] = next
      BY <3>1 DEF PeersInv, CallsShape
    <3>3. CallInv(calls[c])'
      BY <1>10, <2>1, <3>2 DEF Authenticate, CallInv, Removes, Joins, Syncs, Functional
    <3>4. StateInv' /\ Accepts(c, op)
      BY <1>10, <2>1, StateQuiet DEF Authenticate, stateVars, tokenVars, clusterVars
    <3> QED
      BY <1>7, <3>1, <3>3, <3>4
  <2>2. CASE agentTokens[k].state # "live"
    <3>1. agents[k].state = "joined" /\ agents' = [agents EXCEPT ![k].state = "stopped"]
      BY <1>10, <2>2 DEF Authenticate
    <3>2. agents'[k].state = "stopped" /\ \A l \in Keys \ {k} : agents'[l] = agents[l]
      <4>1. AgentShape(agents[k])
        BY DEF TokensInv
      <4> QED
        BY <3>1, <4>1 DEF TokensInv, AgentShape
    <3>3. StateInv'
      BY <1>10, <3>1, <3>2, StateAgents DEF Authenticate, tokenVars, clusterVars
    <3>4. \A d \in Callers : calls'[d] = NoCall
      BY <1>10, <2>2, AcceptedAlone DEF Authenticate
    <3> QED
      BY <3>3, <3>4 DEF SerialInv, Alone
  <2> QED
    BY <2>1, <2>2
<1>11. ASSUME NEW id \in Ids, PinStorage(c, id) PROVE SerialInv'
  <2>1. StateInv'
    BY <1>11 DEF PinStorage, StateInv, RemovedIsCutOff, WorkerStaysReachable,
       StorageKeepsItsNode, Known, agentVars, tokenVars
  <2>2. \A d \in Callers : calls'[d] = NoCall
    BY <1>11, AcceptedAlone DEF PinStorage
  <2> QED
    BY <2>1, <2>2 DEF SerialInv, Alone
<1> QED
  BY <1>1, <1>3, <1>4, <1>5, <1>6, <1>8, <1>9, <1>10, <1>11 DEF Request

\* A join that is given up leaves its agent without a credential.
LEMMA DroppedState ==
    ASSUME PeersInv, TokensInv, SerialInv, NEW c \in Callers, calls[c] # NoCall, Dropped(c),
           UNCHANGED << rows, agentTokens, booted, hub, pinned >>
    PROVE  StateInv'
<1>1. calls[c].op = "join" => agents[calls[c].key].state = "joining"
  BY DEF SerialInv, CallInv, Joins
<1>2. ASSUME NEW k \in Keys
      PROVE  \/ agents'[k] = agents[k]
             \/ agents[k].state = "joining" /\ agents'[k].state = "failed"
  <2>1. AgentShape(agents[k])
    BY DEF TokensInv
  <2>2. CASE calls[c].op = "join" /\ calls[c].key = k
    BY <1>1, <2>1, <2>2 DEF Dropped, AgentShape
  <2>3. CASE ~(calls[c].op = "join" /\ calls[c].key = k)
    BY <2>3 DEF Dropped
  <2> QED
    BY <2>2, <2>3
<1> QED
  BY <1>2, StateAgents DEF SerialInv

\* SetWireGuard keeps StateInv when the key has not bootstrapped.
LEMMA PeerKeyed ==
    ASSUME PeersInv, StateInv, NEW id, NEW ip, NEW key, SetWireGuard(id, ip, key),
           UNCHANGED << agentTokens, agents, booted, hub, pinned >>,
           key \notin booted, key = NoKey \/ rows[id].status # "removed",
           key # NoKey => key \in Keys /\ agents[key].state \in {"joining", "failed"}
    PROVE  /\ StateInv' /\ id \in Ids /\ Known(id)' /\ rows'[id].key = key
           /\ rows'[id].status = rows[id].status
<1>1. PICK row : row = [rows[id] EXCEPT !.ip = ip, !.key = key] /\ Update(id, row)
  BY DEF SetWireGuard
<1>2. Known(id) /\ id \in Ids /\ rows' = [rows EXCEPT ![id] = row]
  BY <1>1 DEF Update, Known
<1>3. RowShape(rows[id])
  BY <1>2, RowIsSound
<1>4. row.ip = ip /\ row.key = key /\ row.status = rows[id].status /\ row.status # "none"
  BY <1>1, <1>3 DEF RowShape
<1>5. rows'[id] = row /\ \A j \in Ids \ {id} : rows'[j] = rows[j]
  BY <1>2 DEF PeersInv, RowsShape
<1>6. Known(id)' /\ \A j \in Ids : Known(j)' <=> Known(j)
  BY <1>2, <1>4, <1>5, SMTT(30) DEF Known, NoRow
<1>7. RemovedIsCutOff' /\ WorkerStaysReachable' /\ StorageKeepsItsNode'
  BY <1>2, <1>4, <1>5, <1>6, SMTT(30) DEF StateInv, RemovedIsCutOff, WorkerStaysReachable,
     StorageKeepsItsNode
<1>8. StateInv'
  BY <1>2, <1>4, <1>5, <1>6, <1>7, SMTT(30) DEF StateInv
<1> QED
  BY <1>2, <1>4, <1>5, <1>6, <1>8

\* The handlers of an enrolment.
LEMMA SerialEnrolment ==
    ASSUME PeersInv, TokensInv, SerialInv, OneAtATime, NEW c \in Callers,
           \/ Allocate(c) \/ StoreToken(c) \/ CreateRow(c) \/ AssignAddress(c)
           \/ EnrollFind(c) \/ EnrollPeer(c) \/ EnrollOnline(c) \/ EnrollToken(c)
           \/ Consume(c)
    PROVE  SerialInv'
<1> StateInv /\ calls[c] # NoCall
  BY DEF SerialInv, Allocate, StoreToken, CreateRow, AssignAddress, EnrollFind, EnrollPeer,
     EnrollOnline, EnrollToken, Consume, AtAny, At
<1>0. CallShape(calls[c]) /\ Enrols(calls[c]) /\ Removes(calls[c]) /\ Joins(calls[c])
      /\ Syncs(calls[c])
  BY CallIsShaped DEF SerialInv, CallInv
<1> DEFINE k == calls[c]
<1>1. CASE Allocate(c)
  <2>1. PICK ip : ip = NextPeerIP({rows[id].ip : id \in {i \in Ids : Known(i)}})
    OBVIOUS
  <2>2. UNCHANGED << rows, agentTokens, booted, hub, pinned >> /\ k.op \in {"token", "join"}
    BY <1>1 DEF Allocate, AtAny, At, tokenVars, clusterVars
  <2>3. CASE ip = NoIP
    BY <1>1, <2>1, <2>2, <2>3, DroppedState, SerialEnd DEF Allocate
  <2>4. CASE ip # NoIP
    <3>1. calls' = [calls EXCEPT ![c].ip = ip,
                      ![c].at = IF calls[c].op = "token" THEN "store" ELSE "peer"]
          /\ UNCHANGED agents
      BY <1>1, <2>1, <2>4 DEF Allocate
    <3>2. PICK next : /\ next = [calls[c] EXCEPT !.ip = ip,
                              !.at = IF calls[c].op = "token" THEN "store" ELSE "peer"]
                      /\ calls' = [calls EXCEPT ![c] = next]
      BY <3>1
    <3>3. /\ calls'[c] = next /\ next.op = k.op /\ next.key = k.key /\ next.id = k.id
          /\ next.row = k.row /\ next.peers = k.peers
          /\ next.at \in {"store", "peer"}
      BY <1>0, <3>2 DEF CallShape, PeersInv, CallsShape
    <3>4. CallInv(calls[c])'
      BY <1>0, <2>2, <3>1, <3>3 DEF CallInv, Removes, Joins, Syncs, Functional, Known
    <3>5. StateInv'
      BY <2>2, <3>1, StateQuiet DEF stateVars
    <3> QED
      BY <3>2, <3>4, <3>5, SerialStep
  <2> QED
    BY <2>3, <2>4
<1>2. CASE StoreToken(c)
  <2>1. k.op = "token" /\ UNCHANGED stateVars
    BY <1>2 DEF StoreToken, At, stateVars, agentVars, clusterVars
  <2>2. StateInv'
    BY <2>1, StateQuiet
  <2>3. \/ End(c)
        \/ Go(c, "create")
        \/ Go(c, "assign") /\ k.id # NoId /\ k.row.ip = NoIP
    BY <1>2 DEF StoreToken
  <2>4. ASSUME NEW at \in {"create", "assign"}, Go(c, at),
               at = "assign" => k.id # NoId /\ k.row.ip = NoIP
        PROVE  SerialInv'
    <3>1. /\ calls'[c].at = at /\ calls'[c].op = k.op /\ calls'[c].id = k.id
          /\ calls'[c].row = k.row /\ calls'[c].peers = k.peers
      BY <2>4, GoFields
    <3>2. CallInv(calls[c])'
      BY <1>0, <2>1, <2>4, <3>1 DEF CallInv, Removes, Joins, Syncs, Functional, Known, stateVars
    <3> QED
      BY <2>2, <2>4, <3>2, SerialGo
  <2> QED
    BY <2>2, <2>3, <2>4, SerialEnd
<1>3. CASE CreateRow(c)
  <2>1. k.op \in {"token", "join"} /\ UNCHANGED << agentTokens, agents, booted, hub, pinned >>
    BY <1>3 DEF CreateRow, AtAny, At, agentVars, tokenVars, clusterVars
  <2> DEFINE row == [name |-> calls[c].name, status |-> "pending", ip |-> calls[c].ip,
                     key |-> NoKey, seen |-> "never"]
  <2>2. PICK id \in Ids :
          /\ Unique(id, row) /\ rows' = [rows EXCEPT ![id] = row]
          /\ \/ End(c)
             \/ /\ calls[c].op # "token"
                /\ calls' = [calls EXCEPT ![c].id = id, ![c].row = row, ![c].at = "allocate"]
    BY <1>3 DEF CreateRow
  <2>3. row.status = "pending" /\ row.key = NoKey /\ row # NoRow
    BY DEF NoRow
  <2> HIDE DEF row
  <2>4. rows'[id] = row /\ \A j \in Ids \ {id} : rows'[j] = rows[j]
    BY <2>2 DEF PeersInv, RowsShape
  <2>5. StateInv'
    BY <2>1, <2>3, <2>4, RegistryAssumption, SMTT(30) DEF StateInv, RemovedIsCutOff,
       WorkerStaysReachable, StorageKeepsItsNode, Known
  <2>6. CASE End(c)
    BY <2>5, <2>6, SerialEnd
  <2>7. CASE /\ k.op # "token"
             /\ calls' = [calls EXCEPT ![c].id = id, ![c].row = row, ![c].at = "allocate"]
    <3>1. PICK next : /\ next = [calls[c] EXCEPT !.id = id, !.row = row, !.at = "allocate"]
                      /\ calls' = [calls EXCEPT ![c] = next]
      BY <2>7
    <3>2. /\ calls'[c] = next /\ next.op = k.op /\ next.key = k.key /\ next.id = id
          /\ next.peers = k.peers /\ next.at = "allocate"
      BY <1>0, <3>1 DEF CallShape, PeersInv, CallsShape
    <3>3. CallInv(calls[c])'
      BY <1>0, <2>1, <2>3, <2>4, <2>7, <3>2 DEF CallInv, Removes, Joins, Syncs, Functional, Known
    <3> QED
      BY <2>5, <3>1, <3>3, SerialStep
  <2> QED
    BY <2>2, <2>6, <2>7
<1>4. CASE AssignAddress(c)
  <2>1. /\ SetWireGuard(k.id, k.ip, k.row.key) /\ End(c) /\ k.op = "token" /\ k.at = "assign"
        /\ UNCHANGED << agentTokens, agents, booted, hub, pinned >>
    BY <1>4 DEF AssignAddress, At, agentVars, tokenVars, clusterVars
  <2>2. k.row.key = NoKey /\ NoKey \notin booted
    BY <1>0, <2>1, RegistryAssumption DEF Joins, StateInv
  <2>3. StateInv'
    BY <2>1, <2>2, PeerKeyed
  <2> QED
    BY <2>1, <2>3, SerialEnd
<1>5. CASE EnrollFind(c)
  <2>1. UNCHANGED << rows, agentTokens, booted, hub, pinned >> /\ k.op = "join"
    BY <1>5 DEF EnrollFind, At, tokenVars, clusterVars
  <2>2. \/ Go(c, "create") /\ UNCHANGED agents /\ FindByName(k.name) = NoId
        \/ Dropped(c) /\ End(c)
        \/ \E id : /\ id # NoId /\ id = FindByName(k.name) /\ rows[id].status # "removed"
                   /\ calls' = [calls EXCEPT ![c].id = id, ![c].row = rows[id],
                             ![c].ip = rows[id].ip,
                             ![c].at = IF rows[id].ip = NoIP THEN "allocate" ELSE "peer"]
                   /\ UNCHANGED agents
    BY <1>5 DEF EnrollFind
  <2>3. CASE Go(c, "create") /\ UNCHANGED agents
    <3>1. /\ calls'[c].at = "create" /\ calls'[c].op = k.op /\ calls'[c].id = k.id
          /\ calls'[c].key = k.key /\ calls'[c].peers = k.peers
      BY <2>3, GoFields
    <3>2. CallInv(calls[c])'
      BY <1>0, <2>1, <2>3, <3>1 DEF CallInv, Removes, Joins, Syncs, Functional, Known
    <3> QED
      BY <2>1, <2>3, <3>2, StateQuiet, SerialGo DEF stateVars
  <2>4. CASE Dropped(c) /\ End(c)
    BY <2>1, <2>4, DroppedState, SerialEnd
  <2>5. ASSUME NEW id, id # NoId, id = FindByName(k.name), rows[id].status # "removed",
               calls' = [calls EXCEPT ![c].id = id, ![c].row = rows[id],
                           ![c].ip = rows[id].ip,
                           ![c].at = IF rows[id].ip = NoIP THEN "allocate" ELSE "peer"],
               UNCHANGED agents
        PROVE  SerialInv'
    <3>1. PICK next : /\ next = [calls[c] EXCEPT !.id = id, !.row = rows[id],
                           !.ip = rows[id].ip,
                           !.at = IF rows[id].ip = NoIP THEN "allocate" ELSE "peer"]
                      /\ calls' = [calls EXCEPT ![c] = next]
      BY <2>5
    <3>2. /\ calls'[c] = next /\ next.op = k.op /\ next.key = k.key /\ next.id = id
          /\ next.peers = k.peers /\ next.at \in {"allocate", "peer"}
      BY <1>0, <3>1 DEF CallShape, PeersInv, CallsShape
    <3>3. CallInv(calls[c])'
      BY <1>0, <2>1, <2>5, <3>2 DEF CallInv, Removes, Joins, Syncs, Functional, Known
    <3>4. StateInv'
      BY <2>1, <2>5, StateQuiet DEF stateVars
    <3> QED
      BY <3>1, <3>3, <3>4, SerialStep
  <2> QED
    BY <2>2, <2>3, <2>4, <2>5
<1>6. CASE EnrollPeer(c)
  <2>1. /\ SetWireGuard(k.id, k.ip, k.key) /\ Go(c, "online") /\ k.op = "join"
        /\ UNCHANGED << agentTokens, agents, booted, hub, pinned >>
    BY <1>6 DEF EnrollPeer, At, agentVars, tokenVars, clusterVars
  <2>2. k.key \in Keys /\ agents[k.key].state = "joining" /\ k.key \notin booted
    BY <1>0, <2>1 DEF Joins, Enrols, StateInv
  <2>3. rows[k.id].status # "removed"
    BY <1>0, <2>1 DEF Joins, SetWireGuard, Update
  <2> PICK id : id = k.id
    OBVIOUS
  <2>4. StateInv' /\ Known(id)' /\ rows'[id].key = k.key /\ rows'[id].status = rows[id].status
    <3>1. k.key \in Keys /\ agents[k.key].state \in {"joining", "failed"}
      BY <2>2
    <3>2. SetWireGuard(id, k.ip, k.key) /\ rows[id].status # "removed" /\ k.key \notin booted
      BY <2>1, <2>2, <2>3
    <3>3. PICK key, ip : key = k.key /\ ip = k.ip
      OBVIOUS
    <3>4. /\ SetWireGuard(id, ip, key) /\ key \notin booted
          /\ key \in Keys /\ agents[key].state \in {"joining", "failed"}
      BY <3>1, <3>2, <3>3
    <3>5. /\ StateInv' /\ id \in Ids /\ Known(id)' /\ rows'[id].key = key
          /\ rows'[id].status = rows[id].status
      BY ONLY PeersInv, StateInv, <2>1, <3>2, <3>4, PeerKeyed
    <3> QED
      BY <3>3, <3>5
  <2>5. /\ calls'[c].at = "online" /\ calls'[c].op = k.op /\ calls'[c].id = k.id
        /\ calls'[c].key = k.key /\ calls'[c].peers = k.peers
    BY <2>1, GoFields
  <2>6. CallInv(calls[c])'
    BY <1>0, <2>1, <2>2, <2>3, <2>4, <2>5 DEF CallInv, Removes, Joins, Syncs, Functional, Known
  <2> QED
    BY <2>1, <2>4, <2>6, SerialGo
<1>7. CASE EnrollOnline(c)
  <2>1. /\ UpdateHeartbeat(k.id, "online") /\ Go(c, "agent") /\ k.op = "join" /\ k.at = "online"
        /\ UNCHANGED << agentTokens, agents, booted, hub, pinned >>
    BY <1>7 DEF EnrollOnline, At, agentVars, tokenVars, clusterVars
  <2>2. RowsStay /\ rows'[k.id].status = "online"
    BY <2>1, StatusStays
  <2>3. StateInv'
    BY <2>1, <2>2, StateRows
  <2>4. /\ calls'[c].at = "agent" /\ calls'[c].op = k.op /\ calls'[c].id = k.id
        /\ calls'[c].key = k.key /\ calls'[c].peers = k.peers
    BY <2>1, GoFields
  <2>5. k.id \in Ids /\ rows'[k.id] # NoRow /\ rows'[k.id].key = k.key
    BY <1>0, <2>1, <2>2 DEF Joins, RowsStay, Known
  <2>6. CallInv(calls[c])'
    BY <1>0, <2>1, <2>2, <2>4, <2>5 DEF CallInv, Removes, Joins, Syncs, Functional, Known
  <2> QED
    BY <2>1, <2>3, <2>6, SerialGo
<1>8. CASE EnrollToken(c)
  <2>1. /\ Go(c, "consume") /\ k.op = "join" /\ k.at = "agent"
        /\ UNCHANGED << rows, agents, booted, hub, pinned >>
        /\ agentTokens' = [agentTokens EXCEPT ![k.key] = [node |-> k.id, state |-> "live"]]
    BY <1>8 DEF EnrollToken, At, agentVars, clusterVars
  <2>2. PICK grant : /\ grant = [node |-> k.id, state |-> "live"]
                     /\ agentTokens' = [agentTokens EXCEPT ![k.key] = grant]
    BY <2>1
  <2>3. GrantShape(grant) /\ grant.node = k.id
    BY <2>2 DEF GrantShape
  <2>4. Known(k.id) /\ rows[k.id].status # "removed"
    BY <1>0, <2>1 DEF Joins
  <2>5. RemovedIsCutOff'
    BY <2>1, <2>2, <2>3, <2>4, SMTT(30) DEF StateInv, RemovedIsCutOff, Known
  <2>6. StateInv'
    BY <2>1, <2>2, <2>3, <2>5 DEF StateInv, WorkerStaysReachable, StorageKeepsItsNode, Known
  <2>7. /\ calls'[c].at = "consume" /\ calls'[c].op = k.op /\ calls'[c].id = k.id
        /\ calls'[c].key = k.key /\ calls'[c].peers = k.peers
    BY <2>1, GoFields
  <2>8. CallInv(calls[c])'
    BY <1>0, <2>1, <2>7 DEF CallInv, Removes, Joins, Syncs, Functional, Known
  <2> QED
    BY <2>1, <2>6, <2>8, SerialGo
<1>9. CASE Consume(c)
  <2>1. /\ End(c) /\ k.op = "join" /\ k.at = "consume"
        /\ UNCHANGED << rows, agentTokens, booted, hub, pinned >>
        /\ agents' = [agents EXCEPT ![k.key] = [state |-> "joined", token |-> k.token]]
    BY <1>9 DEF Consume, At, clusterVars
  <2>2. k.key \in Keys /\ agents'[k.key].state = "joined"
        /\ \A l \in Keys \ {k.key} : agents'[l] = agents[l]
    BY <1>0, <2>1 DEF Enrols, TokensInv
  <2>3. Known(k.id) /\ rows[k.id].key = k.key /\ rows[k.id].status # "pending"
    BY <1>0, <2>1 DEF Joins
  <2>4. \A id \in Ids : Known(id) /\ rows[id].key = k.key => id = k.id
    BY <2>2, <2>3, RegistryAssumption DEF PeersInv, PeersDistinct, Known
  <2>5. UNCHANGED << rows, agentTokens, booted, hub, pinned >>
    BY <2>1
  <2>6. \A l \in Keys : agents[l].state \in {"joined", "stopped"} =>
          agents'[l].state \in {"joined", "stopped"}
    BY <2>2
  <2>7. ASSUME NEW id \in Ids, Known(id), rows[id].status = "pending", rows[id].key # NoKey
        PROVE  rows[id].key \in Keys /\ agents'[rows[id].key].state \in {"joining", "failed"}
    BY <2>2, <2>3, <2>4, <2>7 DEF StateInv
  <2>8. StateInv'
    BY <2>5, <2>6, <2>7 DEF StateInv, RemovedIsCutOff, WorkerStaysReachable,
       StorageKeepsItsNode, Known
  <2> QED
    BY <2>1, <2>8, SerialEnd
<1> QED
  BY <1>1, <1>2, <1>3, <1>4, <1>5, <1>6, <1>7, <1>8, <1>9

\* `wg set` in any order keeps a peer that is wanted, and sets what it sets.
LEMMA AppliedSets ==
    ASSUME NEW removed, NEW set
    PROVE  set \subseteq Applied(removed, set)
BY DEF Applied

\* Applying a peer list, in part or in full, keeps the peers it lists.
LEMMA AppliedKeeps ==
    ASSUME NEW removed, NEW peers, NEW set \in SUBSET peers, Functional(peers),
           removed \cap KeysOf(peers) = {}, NEW key, NEW ip,
           <<key, ip>> \in peers, <<key, ip>> \in hub
    PROVE  <<key, ip>> \in Applied(removed, set)
<1>1. CASE <<key, ip>> \in set
  BY <1>1, AppliedSets
<1>2. CASE <<key, ip>> \notin set
  <2>1. key \notin KeysOf(set) /\ ip \notin AddressesOf(set)
    BY <1>2 DEF Functional, KeysOf, AddressesOf
  <2>2. key \notin removed
    BY DEF KeysOf
  <2> QED
    BY <2>1, <2>2, SMTT(30) DEF Applied
<1> QED
  BY <1>1, <1>2

\* The synchronisation wants every peer, and no two with one key or address.
LEMMA DesiredPeersSound ==
    ASSUME PeersInv, NEW skip
    PROVE  /\ Functional(DesiredPeers(skip))
           /\ \A id \in Ids \ {skip} : Peers(id) => Pair(id) \in DesiredPeers(skip)
<1>1. \A id \in Ids \ {skip} : Peers(id) => Pair(id) \in DesiredPeers(skip)
  BY DEF DesiredPeers, Peers, Pair
<1>2. ASSUME NEW p \in DesiredPeers(skip), NEW q \in DesiredPeers(skip),
             p[1] = q[1] \/ p[2] = q[2]
      PROVE  p = q
  <2>1. PICK i \in Ids : p = <<rows[i].key, rows[i].ip>> /\ Known(i) /\ rows[i].key # NoKey
    BY DEF DesiredPeers
  <2>2. PICK j \in Ids : q = <<rows[j].key, rows[j].ip>> /\ Known(j) /\ rows[j].key # NoKey
    BY DEF DesiredPeers
  <2>3. rows[i].key = rows[j].key \/ rows[i].ip = rows[j].ip
    BY <1>2, <2>1, <2>2
  <2>4. i = j
    BY <2>1, <2>2, <2>3 DEF PeersInv, PeersDistinct
  <2> QED
    BY <2>1, <2>2, <2>4
<1> QED
  BY <1>1, <1>2 DEF Functional

\* The handlers of the agent's calls and the synchronisation of the hub.
LEMMA SerialSync ==
    ASSUME PeersInv, TokensInv, SerialInv, OneAtATime, NEW c \in Callers,
           \/ HeartbeatRead(c) \/ HeartbeatWrite(c) \/ SyncNodeLabels(c)
           \/ BootstrapRead(c) \/ RegisterWorker(c)
           \/ ListPeers(c) \/ ShowPeers(c) \/ ApplyPeers(c) \/ ApplyPartly(c)
    PROVE  SerialInv'
<1> StateInv /\ calls[c] # NoCall
  BY DEF SerialInv, HeartbeatRead, HeartbeatWrite, SyncNodeLabels, BootstrapRead,
     RegisterWorker, ListPeers, ShowPeers, ApplyPeers, ApplyPartly, AtAny, At
<1>0. CallShape(calls[c]) /\ Removes(calls[c]) /\ Joins(calls[c]) /\ Syncs(calls[c])
  BY CallIsShaped DEF SerialInv, CallInv
<1> DEFINE k == calls[c]
<1>1. CASE HeartbeatRead(c)
  <2>1. UNCHANGED << rows, agentTokens, booted, hub, pinned >> /\ k.op = "heartbeat"
    BY <1>1 DEF HeartbeatRead, At, tokenVars, clusterVars
  <2>2. k.key \in Keys /\ agents[k.key].state \in {"joined", "stopped"}
    BY <1>0, <2>1 DEF Syncs
  <2>3. CASE Known(k.id) /\ rows[k.id].status # "removed"
    <3>1. PICK next : /\ next = [calls[c] EXCEPT !.row = rows[calls[c].id],
                                  !.name = rows[calls[c].id].name, !.at = "beat"]
                      /\ calls' = [calls EXCEPT ![c] = next]
      BY <1>1, <2>3 DEF HeartbeatRead
    <3>2. /\ calls'[c] = next /\ next.op = k.op /\ next.key = k.key
          /\ next.peers = k.peers /\ next.at = "beat"
      BY <1>0, <3>1 DEF CallShape, PeersInv, CallsShape
    <3>3. UNCHANGED agents
      BY <1>1, <2>3 DEF HeartbeatRead
    <3>4. CallInv(calls[c])'
      BY <1>0, <2>1, <3>2, <3>3 DEF CallInv, Removes, Joins, Syncs, Functional
    <3>5. StateInv'
      BY <2>1, <3>3, StateQuiet DEF stateVars
    <3> QED
      BY <3>1, <3>4, <3>5, SerialStep
  <2>4. CASE ~(Known(k.id) /\ rows[k.id].status # "removed")
    <3>1. /\ End(c)
          /\ \/ UNCHANGED agents
             \/ agents' = [agents EXCEPT ![calls[c].key].state = "stopped"]
      BY <1>1, <2>4 DEF HeartbeatRead
    <3>2. \/ UNCHANGED agents
          \/ /\ agents'[k.key].state = "stopped"
             /\ \A l \in Keys \ {k.key} : agents'[l] = agents[l]
      <4>1. AgentShape(agents[k.key])
        BY <2>2 DEF TokensInv
      <4> QED
        BY <2>2, <3>1, <4>1 DEF TokensInv, AgentShape
    <3>3. StateInv'
      BY <2>1, <2>2, <3>2, StateAgents
    <3> QED
      BY <3>1, <3>3, SerialEnd
  <2> QED
    BY <2>3, <2>4
<1>2. CASE HeartbeatWrite(c)
  <2>1. PICK s : /\ s \in {"drained", "online"} /\ UpdateHeartbeat(k.id, s) /\ Go(c, "label")
                 /\ k.op = "heartbeat"
                 /\ UNCHANGED << agentTokens, agents, booted, hub, pinned >>
    BY <1>2 DEF HeartbeatWrite, At, agentVars, tokenVars, clusterVars
  <2>2. RowsStay
    BY <2>1, StatusStays
  <2>3. StateInv'
    BY <2>1, <2>2, StateRows
  <2>4. /\ calls'[c].at = "label" /\ calls'[c].op = k.op
        /\ calls'[c].key = k.key /\ calls'[c].peers = k.peers
    BY <2>1, GoFields
  <2>5. CallInv(calls[c])'
    BY <1>0, <2>1, <2>4 DEF CallInv, Removes, Joins, Syncs, Functional
  <2> QED
    BY <2>1, <2>3, <2>5, SerialGo
<1>3. CASE SyncNodeLabels(c)
  <2>1. UNCHANGED stateVars /\ End(c)
    BY <1>3 DEF SyncNodeLabels, stateVars, agentVars, tokenVars
  <2> QED
    BY <2>1, StateQuiet, SerialEnd
<1>4. CASE BootstrapRead(c)
  <2>1. UNCHANGED stateVars /\ k.op = "bootstrap"
    BY <1>4 DEF BootstrapRead, At, stateVars, agentVars, tokenVars, clusterVars
  <2>2. StateInv'
    BY <2>1, StateQuiet
  <2>3. CASE End(c)
    BY <2>2, <2>3, SerialEnd
  <2>4. CASE ~End(c)
    <3>1. PICK next : /\ next = [calls[c] EXCEPT !.row = rows[calls[c].id],
                                  !.name = rows[calls[c].id].name, !.at = "list"]
                      /\ calls' = [calls EXCEPT ![c] = next]
      BY <1>4, <2>4 DEF BootstrapRead
    <3>2. /\ calls'[c] = next /\ next.op = k.op /\ next.key = k.key
          /\ next.peers = k.peers /\ next.at = "list"
      BY <1>0, <3>1 DEF CallShape, PeersInv, CallsShape
    <3>3. CallInv(calls[c])'
      BY <1>0, <2>1, <3>2 DEF CallInv, Removes, Joins, Syncs, Functional, stateVars
    <3> QED
      BY <2>2, <3>1, <3>3, SerialStep
  <2> QED
    BY <2>3, <2>4
<1>5. CASE RegisterWorker(c)
  <2>1. /\ k.op = "bootstrap" /\ k.at = "register" /\ End(c) /\ booted' = booted \cup {k.key}
        /\ UNCHANGED << rows, agentTokens, agents, hub, pinned >>
    BY <1>5 DEF RegisterWorker, At, tokenVars
  <2>2. /\ k.key \in Keys /\ agents[k.key].state \in {"joined", "stopped"}
        /\ \A id \in Ids : Peers(id) => Pair(id) \in hub
    BY <1>0, <2>1 DEF Syncs
  <2>3. WorkerStaysReachable'
    BY <2>1, <2>2, RegistryAssumption DEF StateInv, WorkerStaysReachable, Peers, Pair, Known
  <2>4. StateInv'
    BY <2>1, <2>2, <2>3 DEF StateInv, RemovedIsCutOff, StorageKeepsItsNode, Known
  <2> QED
    BY <2>1, <2>4, SerialEnd
<1>6. CASE ListPeers(c)
  <2>1. UNCHANGED stateVars /\ k.op \in Syncing
    BY <1>6 DEF ListPeers, AtAny, At, stateVars, agentVars, tokenVars, clusterVars
  <2>2. PICK skip, peers :
          /\ skip = IF k.op = "purge" THEN k.id ELSE NoId
          /\ peers = DesiredPeers(skip)
          /\ calls' = [calls EXCEPT ![c].peers = peers, ![c].at = "show"]
    BY <1>6 DEF ListPeers
  <2>3. PICK next : /\ next = [calls[c] EXCEPT !.peers = peers, !.at = "show"]
                    /\ calls' = [calls EXCEPT ![c] = next]
    BY <2>2
  <2>4. /\ calls'[c] = next /\ next.op = k.op /\ next.key = k.key /\ next.id = k.id
        /\ next.peers = peers /\ next.at = "show"
    BY <1>0, <2>3 DEF CallShape, PeersInv, CallsShape
  <2>5. /\ Functional(peers)
        /\ \A id \in Ids : Peers(id) /\ (k.op = "purge" => id # k.id) => Pair(id) \in peers
    BY <2>2, DesiredPeersSound, RegistryAssumption
  <2>6. Syncs(calls[c])'
    BY <1>0, <2>1, <2>4, <2>5 DEF Syncs, Peers, Pair, Functional, Known, stateVars
  <2>7. Removes(calls[c])' /\ Joins(calls[c])'
    BY <1>0, <2>1, <2>4 DEF Removes, Joins, Known, Syncing, stateVars
  <2> QED
    BY <2>1, <2>3, <2>6, <2>7, StateQuiet, SerialStep DEF CallInv
<1>7. CASE ShowPeers(c)
  <2>1. UNCHANGED stateVars /\ k.op \in Syncing /\ k.at = "show"
    BY <1>7 DEF ShowPeers, AtAny, At, stateVars, agentVars, tokenVars, clusterVars
  <2>2. PICK next, shown : /\ next = [calls[c] EXCEPT !.shown = shown, !.at = "apply"]
                           /\ calls' = [calls EXCEPT ![c] = next]
    BY <1>7 DEF ShowPeers
  <2>3. /\ calls'[c] = next /\ next.op = k.op /\ next.key = k.key /\ next.id = k.id
        /\ next.peers = k.peers /\ next.at = "apply"
    BY <1>0, <2>2 DEF CallShape, PeersInv, CallsShape
  <2>4. Syncs(calls[c])'
    BY <1>0, <2>1, <2>3 DEF Syncs, Peers, Pair, Functional, Known, stateVars
  <2>5. Removes(calls[c])' /\ Joins(calls[c])'
    BY <1>0, <2>1, <2>3 DEF Removes, Joins, Known, Syncing, stateVars
  <2> QED
    BY <2>1, <2>2, <2>4, <2>5, StateQuiet, SerialStep DEF CallInv
<1>8. ASSUME k.at = "apply", NEW id \in Ids, Known(id), rows[id].status # "removed",
             rows[id].key \in booted
      PROVE  Peers(id) /\ Pair(id) \in k.peers
  BY <1>0, <1>8, RegistryAssumption DEF StateInv, Removes, Syncs, Peers
<1>9. CASE ApplyPeers(c)
  <2>1. PICK removed, at :
          /\ k.op \in Syncing /\ k.at = "apply" /\ hub' = Applied(removed, k.peers)
          /\ Go(c, at) /\ at \in {"register", "reply", "agents"}
          /\ at = "register" => k.op = "bootstrap"
          /\ UNCHANGED << rows, agentTokens, agents, booted, pinned >>
    BY <1>9 DEF ApplyPeers, AtAny, At, agentVars, tokenVars
  <2>2. k.peers \subseteq hub'
    BY <2>1, AppliedSets
  <2>3. WorkerStaysReachable'
    BY <1>8, <2>1, <2>2 DEF WorkerStaysReachable, Pair, Known
  <2>4. StateInv'
    BY <2>1, <2>3 DEF StateInv, RemovedIsCutOff, StorageKeepsItsNode, Known
  <2>5. /\ calls'[c].at = at /\ calls'[c].op = k.op /\ calls'[c].id = k.id
        /\ calls'[c].key = k.key /\ calls'[c].peers = k.peers
    BY <2>1, GoFields
  <2>6. Syncs(calls[c])'
    BY <1>0, <2>1, <2>2, <2>5 DEF Syncs, Peers, Pair, Functional, Known
  <2>7. Removes(calls[c])' /\ Joins(calls[c])'
    BY <1>0, <2>1, <2>5 DEF Removes, Joins, Known, Syncing
  <2> QED
    BY <2>1, <2>4, <2>6, <2>7, SerialGo DEF CallInv
<1>10. CASE ApplyPartly(c)
  <2>1. PICK removed, set :
          /\ k.at = "apply" /\ removed \in SUBSET (k.shown \ KeysOf(k.peers))
          /\ set \in SUBSET k.peers /\ hub' = Applied(removed, set) /\ End(c)
          /\ UNCHANGED << rows, agentTokens, agents, booted, pinned >>
    BY <1>10 DEF ApplyPartly, AtAny, At, agentVars, tokenVars
  <2>2. Functional(k.peers) /\ removed \cap KeysOf(k.peers) = {}
    BY <1>0, <2>1 DEF Syncs
  <2>3. ASSUME NEW id \in Ids, Known(id), rows[id].status # "removed", rows[id].key \in booted
        PROVE  <<rows[id].key, rows[id].ip>> \in hub'
    <3>1. <<rows[id].key, rows[id].ip>> \in k.peers
      BY <1>8, <2>1, <2>3 DEF Pair
    <3>2. <<rows[id].key, rows[id].ip>> \in hub
      BY <2>3 DEF StateInv, WorkerStaysReachable
    <3> QED
      BY <2>1, <2>2, <3>1, <3>2, AppliedKeeps
  <2>4. StateInv'
    BY <2>1, <2>3 DEF StateInv, RemovedIsCutOff, WorkerStaysReachable, StorageKeepsItsNode, Known
  <2> QED
    BY <2>1, <2>4, SerialEnd
<1> QED
  BY <1>1, <1>2, <1>3, <1>4, <1>5, <1>6, <1>7, <1>9, <1>10

\* The handlers of the operator's calls.
LEMMA SerialOperator ==
    ASSUME PeersInv, TokensInv, SerialInv, OneAtATime, NEW c \in Callers,
           \/ SetNodeUnschedulable(c) \/ MarkDrained(c) \/ MarkSchedulable(c)
           \/ RevokeTokens(c) \/ DisablePeer(c) \/ MarkRemoved(c) \/ RemoveKubeNode(c)
           \/ ReplyRemoved(c) \/ DeleteAgentTokens(c) \/ DeleteJoinTokens(c)
           \/ DeleteRow(c) \/ RenameRow(c) \/ Abort(c)
    PROVE  SerialInv'
<1> StateInv /\ calls[c] # NoCall
  BY DEF SerialInv, SetNodeUnschedulable, MarkDrained, MarkSchedulable, RevokeTokens,
     DisablePeer, MarkRemoved, RemoveKubeNode, ReplyRemoved, DeleteAgentTokens,
     DeleteJoinTokens, DeleteRow, RenameRow, Abort, AtAny, At
<1>0. CallShape(calls[c]) /\ Removes(calls[c]) /\ Joins(calls[c]) /\ Syncs(calls[c])
  BY CallIsShaped DEF SerialInv, CallInv
<1> DEFINE k == calls[c]
<1>1. ASSUME UNCHANGED stateVars, NEW at, Go(c, at),
             k.op \in {"drain", "uncordon", "remove", "purge"},
             at \in {"drained", "schedulable", "list", "delete"}
      PROVE  SerialInv'
  <2>1. StateInv'
    BY <1>1, StateQuiet
  <2>2. /\ calls'[c].at = at /\ calls'[c].op = k.op /\ calls'[c].id = k.id
        /\ calls'[c].peers = k.peers
    BY <1>1, GoFields
  <2>3. CallInv(calls[c])'
    BY <1>0, <1>1, <2>2 DEF CallInv, Removes, Joins, Syncs, Functional, Known, stateVars
  <2> QED
    BY <1>1, <2>1, <2>3, SerialGo
<1>2. CASE SetNodeUnschedulable(c)
  BY <1>1, <1>2 DEF SetNodeUnschedulable, AtAny, At, stateVars, agentVars, tokenVars
<1>3. ASSUME NEW s \in {"drained", "online", "offline"},
             UNCHANGED rows \/ UpdateStatus(k.id, s),
             UNCHANGED << agentTokens, agents, booted, hub, pinned >>, End(c)
      PROVE  SerialInv'
  <2>1. RowsStay
    BY <1>3, StatusStays DEF RowsStay, Known
  <2> QED
    BY <1>3, <2>1, StateRows, SerialEnd
<1>4. CASE MarkDrained(c)
  BY <1>3, <1>4 DEF MarkDrained, agentVars, tokenVars, clusterVars
<1>5. CASE MarkSchedulable(c)
  BY <1>3, <1>5 DEF MarkSchedulable, agentVars, tokenVars, clusterVars
<1>6. CASE RevokeTokens(c)
  <2>1. PICK at : /\ k.op \in {"remove", "purge"} /\ Go(c, at) /\ at \in {"unpeer", "kube"}
                  /\ UNCHANGED << rows, agents, booted, hub, pinned >>
                  /\ agentTokens' = [l \in Keys |->
                       IF agentTokens[l].node = k.id /\ agentTokens[l].state = "live"
                       THEN [agentTokens[l] EXCEPT !.state = "revoked"] ELSE agentTokens[l]]
    BY <1>6 DEF RevokeTokens, AtAny, At, agentVars, clusterVars
  <2>2. ASSUME NEW l \in Keys
        PROVE  /\ GrantShape(agentTokens'[l]) /\ agentTokens'[l].node = agentTokens[l].node
               /\ agentTokens'[l].state = "live" => agentTokens[l].state = "live"
               /\ agentTokens'[l].node = k.id => agentTokens'[l].state # "live"
    <3>1. GrantShape(agentTokens[l])
      BY DEF StateInv
    <3>2. CASE agentTokens[l].node = k.id /\ agentTokens[l].state = "live"
      BY <2>1, <3>1, <3>2 DEF GrantShape
    <3>3. CASE ~(agentTokens[l].node = k.id /\ agentTokens[l].state = "live")
      BY <2>1, <3>1, <3>3
    <3> QED
      BY <3>2, <3>3
  <2>3. RemovedIsCutOff'
    BY <2>1, <2>2, SMTT(30) DEF StateInv, RemovedIsCutOff, Known
  <2>4. StateInv'
    BY <2>1, <2>2, <2>3 DEF StateInv, WorkerStaysReachable, StorageKeepsItsNode, Known
  <2>5. /\ calls'[c].at = at /\ calls'[c].op = k.op /\ calls'[c].id = k.id
        /\ calls'[c].peers = k.peers
    BY <2>1, GoFields
  <2>6. CallInv(calls[c])'
    BY <1>0, <2>1, <2>2, <2>5, SMTT(30) DEF CallInv, Removes, Joins, Syncs, Functional, Known, NoLiveToken
  <2> QED
    BY <2>1, <2>4, <2>6, SerialGo
<1>7. CASE DisablePeer(c)
  <2>1. /\ SetWireGuard(k.id, k.row.ip, NoKey) /\ Go(c, "mark") /\ k.op = "remove"
        /\ k.at = "unpeer" /\ UNCHANGED << agentTokens, agents, booted, hub, pinned >>
    BY <1>7 DEF DisablePeer, At, agentVars, tokenVars, clusterVars
  <2>2. NoKey \notin booted
    BY RegistryAssumption DEF StateInv
  <2> PICK id : id = k.id
    OBVIOUS
  <2>3. StateInv' /\ rows'[id].key = NoKey
    BY <2>1, <2>2, PeerKeyed, SMTT(30)
  <2>4. /\ calls'[c].at = "mark" /\ calls'[c].op = k.op /\ calls'[c].id = id
        /\ calls'[c].peers = k.peers
    BY <2>1, GoFields
  <2>5. CallInv(calls[c])'
    BY <1>0, <2>1, <2>3, <2>4 DEF CallInv, Removes, Joins, Syncs, Functional, NoLiveToken
  <2> QED
    BY <2>1, <2>3, <2>5, SerialGo
<1>8. CASE MarkRemoved(c)
  <2> PICK id : id = k.id
    OBVIOUS
  <2>1. PICK row : /\ row = [rows[id] EXCEPT !.status = "removed"] /\ Update(id, row)
                   /\ Go(c, "kube") /\ k.op = "remove" /\ k.at = "mark"
                   /\ UNCHANGED << agentTokens, agents, booted, hub, pinned >>
    BY <1>8 DEF MarkRemoved, UpdateStatus, At, agentVars, tokenVars, clusterVars
  <2>2. Known(id) /\ id \in Ids /\ rows' = [rows EXCEPT ![id] = row]
    BY <2>1 DEF Update, Known
  <2>3. RowShape(rows[id])
    BY <2>2, RowIsSound
  <2>4. row.key = rows[id].key /\ row.status = "removed"
    BY <2>1, <2>3 DEF RowShape
  <2>5. rows'[id] = row /\ \A j \in Ids \ {id} : rows'[j] = rows[j]
    BY <2>2 DEF PeersInv, RowsShape
  <2>6. rows[id].key = NoKey /\ NoLiveToken(id) /\ id \notin pinned
    BY <1>0, <2>1, <2>2 DEF Removes
  <2>u. UNCHANGED << agentTokens, agents, booted, hub, pinned >>
    BY <2>1
  <2>7. RemovedIsCutOff'
    BY <2>u, <2>4, <2>5, <2>6, SMTT(30) DEF StateInv, RemovedIsCutOff, NoLiveToken, Known
  <2>8. WorkerStaysReachable' /\ StorageKeepsItsNode'
    BY <2>u, <2>4, <2>5, <2>6 DEF StateInv, WorkerStaysReachable, StorageKeepsItsNode, Known
  <2>9. StateInv'
    BY <2>u, <2>4, <2>5, <2>6, <2>7, <2>8 DEF StateInv, Known
  <2>10. /\ calls'[c].at = "kube" /\ calls'[c].op = k.op /\ calls'[c].id = id
         /\ calls'[c].peers = k.peers
    BY <2>1, GoFields
  <2>11. CallInv(calls[c])'
    BY <1>0, <2>1, <2>6, <2>10 DEF CallInv, Removes, Joins, Syncs, Functional
  <2> QED
    BY <2>1, <2>9, <2>11, SerialGo
<1>9. CASE RemoveKubeNode(c)
  BY <1>1, <1>9 DEF RemoveKubeNode, AtAny, At, stateVars, agentVars, tokenVars
<1>10. CASE ReplyRemoved(c)
  BY <1>10, StateQuiet, SerialEnd DEF ReplyRemoved, stateVars, agentVars, tokenVars, clusterVars
<1>11. CASE DeleteAgentTokens(c)
  <2>1. /\ k.op = "purge" /\ Go(c, "tokens") /\ UNCHANGED << rows, agents, booted, hub, pinned >>
        /\ agentTokens' = [l \in Keys |->
             IF agentTokens[l].node = k.id
             THEN [agentTokens[l] EXCEPT !.state = "deleted"] ELSE agentTokens[l]]
    BY <1>11 DEF DeleteAgentTokens, At, agentVars, clusterVars
  <2>2. ASSUME NEW l \in Keys
        PROVE  /\ GrantShape(agentTokens'[l]) /\ agentTokens'[l].node = agentTokens[l].node
               /\ agentTokens'[l].state = "live" => agentTokens[l].state = "live"
    <3>1. GrantShape(agentTokens[l])
      BY DEF StateInv
    <3>2. CASE agentTokens[l].node = k.id
      BY <2>1, <3>1, <3>2 DEF GrantShape
    <3>3. CASE ~(agentTokens[l].node = k.id)
      BY <2>1, <3>1, <3>3
    <3> QED
      BY <3>2, <3>3
  <2>3. RemovedIsCutOff'
    BY <2>1, <2>2, SMTT(30) DEF StateInv, RemovedIsCutOff, Known
  <2>4. StateInv'
    BY <2>1, <2>2, <2>3 DEF StateInv, WorkerStaysReachable, StorageKeepsItsNode, Known
  <2>5. /\ calls'[c].at = "tokens" /\ calls'[c].op = k.op /\ calls'[c].id = k.id
        /\ calls'[c].peers = k.peers
    BY <2>1, GoFields
  <2>6. CallInv(calls[c])'
    BY <1>0, <2>1, <2>5 DEF CallInv, Removes, Joins, Syncs, Functional, Known
  <2> QED
    BY <2>1, <2>4, <2>6, SerialGo
<1>12. CASE DeleteJoinTokens(c)
  <2>1. /\ UNCHANGED stateVars
        /\ (k.op = "purge" /\ Go(c, "delete")) \/ End(c)
    BY <1>12 DEF DeleteJoinTokens, AtAny, At, stateVars, agentVars, clusterVars
  <2> QED
    BY <1>1, <2>1, StateQuiet, SerialEnd
<1>13. CASE DeleteRow(c)
  <2> PICK id : id = k.id
    OBVIOUS
  <2>1. /\ Known(id) /\ rows' = [rows EXCEPT ![id] = NoRow] /\ End(c) /\ k.op = "purge"
        /\ UNCHANGED << agentTokens, agents, booted, hub, pinned >>
    BY <1>13 DEF DeleteRow, At, agentVars, tokenVars, clusterVars
  <2>2. id \notin pinned
    BY <1>0, <2>1 DEF Removes
  <2>3. ~Known(id)' /\ \A j \in Ids \ {id} : rows'[j] = rows[j]
    BY <2>1 DEF PeersInv, RowsShape, Known
  <2>4. StateInv'
    BY <2>1, <2>2, <2>3, SMTT(30) DEF StateInv, RemovedIsCutOff, WorkerStaysReachable,
       StorageKeepsItsNode, Known
  <2> QED
    BY <2>1, <2>4, SerialEnd
<1>14. CASE RenameRow(c)
  <2> PICK id : id = k.id
    OBVIOUS
  <2>1. PICK row : /\ row = [rows[id] EXCEPT !.name = calls[c].to] /\ Update(id, row)
                   /\ Go(c, "tokens") /\ k.op = "rename"
                   /\ UNCHANGED << agentTokens, agents, booted, hub, pinned >>
    BY <1>14 DEF RenameRow, At, agentVars, tokenVars, clusterVars
  <2>2. Known(id) /\ id \in Ids /\ rows' = [rows EXCEPT ![id] = row]
    BY <2>1 DEF Update, Known
  <2>3. RowShape(rows[id])
    BY <2>2, RowIsSound
  <2>4. /\ row.ip = rows[id].ip /\ row.key = rows[id].key /\ row.status = rows[id].status
        /\ row.status # "none"
    BY <2>1, <2>3 DEF RowShape
  <2>5. rows'[id] = row /\ \A j \in Ids \ {id} : rows'[j] = rows[j]
    BY <2>2 DEF PeersInv, RowsShape
  <2>n. row # NoRow
    BY ONLY <2>4 DEF NoRow
  <2>6. RowsStay
    BY <2>n, <2>2, <2>4, <2>5 DEF RowsStay, Known
  <2>7. StateInv'
    BY <2>1, <2>6, StateRows
  <2>8. calls'[c].at = "tokens" /\ calls'[c].op = k.op /\ calls'[c].peers = k.peers
    BY <2>1, GoFields
  <2>9. CallInv(calls[c])'
    BY <1>0, <2>1, <2>8 DEF CallInv, Removes, Joins, Syncs, Functional
  <2> QED
    BY <2>1, <2>7, <2>9, SerialGo
<1>15. CASE Abort(c)
  BY <1>15, DroppedState, SerialEnd DEF Abort, tokenVars, clusterVars
<1> QED
  BY <1>2, <1>4, <1>5, <1>6, <1>7, <1>8, <1>9, <1>10, <1>11, <1>12, <1>13, <1>14, <1>15

\* The offline monitor, the clock and the heartbeats of the row a handler works
\* on leave what the handler relies on.
LEMMA SerialAround ==
    ASSUME SerialInv, RowsStay,
           UNCHANGED << agentTokens, agents, booted, hub, pinned, calls >>
    PROVE  SerialInv'
<1>1. StateInv'
  BY StateRows DEF SerialInv
<1>2. ASSUME NEW c \in Callers, calls'[c] # NoCall
      PROVE  CallInv(calls[c])'
  <2>1. Removes(calls[c]) /\ Joins(calls[c]) /\ Syncs(calls[c]) /\ calls'[c] = calls[c]
    BY <1>2 DEF SerialInv, CallInv
  <2>2. Removes(calls[c])'
    BY <2>1 DEF Removes, RowsStay, NoLiveToken, Known
  <2>3. Joins(calls[c])'
    BY <2>1 DEF Joins, RowsStay, Known
  <2>4. \A id \in Ids : Peers(id)' => Peers(id) /\ Pair(id)' = Pair(id)
    BY PeersStay DEF SerialInv
  <2>5. Syncs(calls[c])'
    BY <2>1, <2>4 DEF Syncs, Functional
  <2> QED
    BY <2>2, <2>3, <2>5 DEF CallInv
<1>3. Alone'
  BY DEF SerialInv, Alone
<1> QED
  BY <1>1, <1>2, <1>3 DEF SerialInv

\* Every step keeps SerialInv while handlers run one at a time.
LEMMA SerialInvNext ==
    PeersInv /\ TokensInv /\ OneAtATime /\ SerialInv /\ [Next]_vars =>
        OneAtATime' /\ SerialInv'
<1> SUFFICES ASSUME PeersInv, TokensInv, OneAtATime, SerialInv, [Next]_vars
             PROVE  OneAtATime' /\ SerialInv'
  OBVIOUS
<1>1. OneAtATime'
  BY DEF OneAtATime, Next, vars
<1>2. ASSUME NEW c \in Callers, Request(c) PROVE SerialInv'
  BY <1>2, SerialRequest
<1>3. ASSUME NEW c \in Callers, Handler(c) PROVE SerialInv'
  BY <1>3, SerialEnrolment, SerialSync, SerialOperator DEF Handler
<1>4. CASE UNCHANGED << stateVars, calls >>
  <2>1. RowsStay
    BY <1>4 DEF stateVars, RowsStay, Known
  <2> QED
    BY <1>1, <1>4, <2>1, SerialAround DEF stateVars
<1>5. ASSUME NEW id \in Ids, MonitorMark(id) PROVE SerialInv'
  <2>1. CASE UpdateStatus(id, "offline")
    BY <1>5, <2>1, StatusStays, SerialAround DEF MonitorMark, agentVars, tokenVars, clusterVars
  <2> QED
    BY <1>4, <1>5, <2>1 DEF MonitorMark, stateVars, agentVars, tokenVars, clusterVars
<1>6. ASSUME NEW id \in Ids, Silence(id) PROVE SerialInv'
  <2>1. PICK row : /\ row = [rows[id] EXCEPT !.seen = "stale"]
                   /\ rows' = [rows EXCEPT ![id] = row] /\ Known(id)
                   /\ UNCHANGED << agentTokens, agents, booted, hub, pinned, calls >>
    BY <1>6 DEF Silence, agentVars, tokenVars, clusterVars
  <2>2. RowShape(rows[id])
    BY <2>1, RowIsSound
  <2>3. /\ row.ip = rows[id].ip /\ row.key = rows[id].key /\ row.status = rows[id].status
        /\ row.status # "none"
    BY <2>1, <2>2 DEF RowShape
  <2>4. rows'[id] = row /\ \A j \in Ids \ {id} : rows'[j] = rows[j]
    BY <2>1 DEF PeersInv, RowsShape
  <2>5. RowsStay
    BY <2>1, <2>3, <2>4, SMTT(30) DEF RowsStay, Known, NoRow
  <2> QED
    BY <2>1, <2>5, SerialAround
<1>7. CASE Restart
  <2>1. /\ \A d \in Callers : calls'[d] = NoCall
        /\ hub' = DesiredPeers(NoId)
        /\ UNCHANGED << rows, agentTokens, booted, pinned >>
        /\ agents' = [k \in Keys |-> IF agents[k].state = "joining"
                                     THEN [agents[k] EXCEPT !.state = "failed"] ELSE agents[k]]
    BY <1>7 DEF Restart, tokenVars
  <2>2. ASSUME NEW k \in Keys
        PROVE  \/ agents'[k] = agents[k]
               \/ agents[k].state = "joining" /\ agents'[k].state = "failed"
    <3>1. AgentShape(agents[k])
      BY DEF TokensInv
    <3> QED
      BY <2>1, <3>1 DEF AgentShape
  <2>3. \A id \in Ids : Peers(id) => Pair(id) \in hub'
    BY <2>1, DesiredPeersSound, RegistryAssumption
  <2>4. WorkerStaysReachable'
    BY <2>1, <2>3, RegistryAssumption DEF SerialInv, StateInv, WorkerStaysReachable, Peers, Pair, Known
  <2>5. StateInv'
    BY <2>1, <2>2, <2>4 DEF SerialInv, StateInv, RemovedIsCutOff, StorageKeepsItsNode, Known
  <2>6. \A d \in Callers : calls'[d] = NoCall
    BY <2>1
  <2> QED
    BY <1>1, <2>5, <2>6 DEF SerialInv, Alone
<1>8. CASE MonitorList \/ \E t \in Tokens : Expire(t)
  BY <1>4, <1>8 DEF MonitorList, Expire, stateVars, agentVars, tokenVars, clusterVars
<1>9. CASE UNCHANGED vars
  BY <1>4, <1>9 DEF vars, stateVars
<1> QED
  BY <1>1, <1>2, <1>3, <1>5, <1>6, <1>7, <1>8, <1>9 DEF Next

\* Handlers that run one at a time, each of which may fail after any step and
\* may be cut off by a restart, keep the serial invariant.
LEMMA SerialInvHolds == Spec => [](OneAtATime => SerialInv)
<1>1. Init => PeersInv /\ TokensInv /\ (OneAtATime => SerialInv)
  BY PeersInvInit, TokensInvInit, SerialInvInit
<1>2. ~OneAtATime /\ [Next]_vars => ~OneAtATime'
  BY DEF OneAtATime, Next, vars
<1>3. /\ PeersInv /\ TokensInv /\ (OneAtATime => SerialInv)
      /\ [Next]_vars
      => (PeersInv /\ TokensInv /\ (OneAtATime => SerialInv))'
  BY <1>2, PeersInvNext, TokensInvNext, SerialInvNext
<1> QED
  BY <1>1, <1>3, PTL DEF Spec

\* A removed node has no peer key and no usable agent token: RemoveNode
\* revokes, disables and marks in that order, whichever step fails.
THEOREM RemovedAlwaysCutOff == Spec => [](OneAtATime => RemovedIsCutOff)
<1>1. SerialInv => RemovedIsCutOff
  BY DEF SerialInv, StateInv
<1> QED
  BY <1>1, SerialInvHolds, PTL

\* A bootstrapped worker stays a peer of the hub through synchronisations that
\* fail half way, restarts, purges of other nodes and the offline monitor.
THEOREM WorkerAlwaysReachable == Spec => [](OneAtATime => WorkerStaysReachable)
<1>1. SerialInv => WorkerStaysReachable
  BY DEF SerialInv, StateInv
<1> QED
  BY <1>1, SerialInvHolds, PTL

\* A node with retained storage is neither removed nor purged.
THEOREM StorageAlwaysKeepsItsNode == Spec => [](OneAtATime => StorageKeepsItsNode)
<1>1. SerialInv => StorageKeepsItsNode
  BY DEF SerialInv, StateInv
<1> QED
  BY <1>1, SerialInvHolds, PTL

=============================================================================
