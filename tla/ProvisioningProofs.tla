------------------------- MODULE ProvisioningProofs -------------------------
(***************************************************************************)
(* Theorems about Provisioning, for any requests, devices, credentials,    *)
(* tables, failures and deaths.                                            *)
(***************************************************************************)
EXTENDS Provisioning, ChannelLemmas, WellFoundedInduction

-----------------------------------------------------------------------------
(* The shape of the state.                                                 *)

Places == {"new", "failed", "applied", "lost"} \cup Handled \cup Committed
Record == [pc : Places, i : Nat, read : States,
           writes : [Rows -> States \cup {"none"}],
           states : Seq({"off", "on"}), kept : SUBSET Nat,
           alone : SUBSET AllIps]

\* Of its first n devices, the i-th is the last with its address.
Latest(r, i, n) == \A j \in (i + 1)..n : Device(r, j).ip # Device(r, i).ip

\* A request that has got to device q.i has a state for each one before, and
\* its transaction has written the latest of each row.
Progress(r, q) ==
  /\ q.i \in Indices(r)
  /\ q.kept \subseteq 1..Len(q.states)
  /\ q.alone \subseteq Ips(r)
  /\ q.pc = "new" => q.states = <<>>
  /\ q.pc \in {"new", "select", "write"} => Len(q.states) = q.i - 1
  /\ q.pc \in {"commit"} \cup Committed => Len(q.states) = Len(Devices[r])
WritesOwn(r, q) ==
  \A w \in Rows : q.writes[w] # "none" => \E i \in Indices(r) : w = Row(r, i)
WritesLatest(r, q) ==
  q.pc \in Handled =>
    \A i \in 1..Len(q.states) :
      Latest(r, i, Len(q.states)) => q.writes[Row(r, i)] = q.states[i]
RequestOf(r, q) ==
  q \in Record /\ Progress(r, q) /\ WritesOwn(r, q) /\ WritesLatest(r, q)

DatabaseShape ==
  table \in [Rows -> States] /\ lock \in [Rows -> Requests \cup {NoRequest}]
RequestsShape ==
  /\ request \in [Requests -> Record]
  /\ \A r \in Requests : RequestOf(r, request[r])
ChannelShape ==
  deviceChannel \in Seq(Requests) /\ Len(deviceChannel) <= DeviceBuffer
SenderShape ==
  /\ sender \in [pc : {"select", "send", "stopped"},
                 msg : Requests \cup {NoRequest}]
  /\ sender.pc = "send" => sender.msg \in Requests
PhaseShape == phase \in {"up", "tokens", "term", "down", "panicked", "exited"}
WireShape == toPoller \in Seq(Requests)
RegistryShape == IsABag(registry)
SettledShape ==
  /\ settled \in [AllIps -> Rows \cup {NoRow}]
  /\ \A a \in AllIps : settled[a] # NoRow => settled[a][1] = a

Shape ==
  /\ DatabaseShape /\ RequestsShape /\ ChannelShape /\ SenderShape
  /\ PhaseShape /\ WireShape /\ RegistryShape /\ SettledShape

\* A step that leaves a part alone keeps its shape.
LEMMA Frame ==
  ASSUME Shape
  PROVE  /\ UNCHANGED database => DatabaseShape'
         /\ UNCHANGED request => RequestsShape'
         /\ UNCHANGED deviceChannel => ChannelShape'
         /\ UNCHANGED sender => SenderShape'
         /\ UNCHANGED phase => PhaseShape'
         /\ UNCHANGED toPoller => WireShape'
         /\ UNCHANGED registry => RegistryShape'
         /\ UNCHANGED settled => SettledShape'
  BY DEF Shape, database, DatabaseShape, RequestsShape, ChannelShape,
         SenderShape, PhaseShape, WireShape, RegistryShape, SettledShape

LEMMA DevicesType ==
  ASSUME NEW r \in Requests
  PROVE  /\ Len(Devices[r]) \in Nat \ {0}
         /\ Indices(r) = 1..Len(Devices[r]) /\ 1 \in Indices(r)
         /\ \A i \in Indices(r) : /\ Row(r, i) \in Rows
                                  /\ Row(r, i)[1] = Device(r, i).ip
                                  /\ Device(r, i).ip \in Ips(r)
         /\ Ips(r) \subseteq AllIps
<1>1. Devices[r] \in Seq([ip : STRING, credential : Nat]) /\ Devices[r] # <<>>
  BY RequestsAssumption
<1>2. Len(Devices[r]) \in Nat \ {0}
  BY <1>1
<1>3. Indices(r) = 1..Len(Devices[r]) /\ 1 \in Indices(r)
  BY <1>2 DEF Indices
<1>4. Ips(r) \subseteq AllIps
  BY DEF AllIps
<1>5. ASSUME NEW i \in Indices(r)
      PROVE  /\ Row(r, i) \in Rows /\ Row(r, i)[1] = Device(r, i).ip
             /\ Device(r, i).ip \in Ips(r)
  <2>1. Row(r, i) \in {Row(r, j) : j \in Indices(r)}
    OBVIOUS
  <2>2. Row(r, i) \in Rows
    BY <2>1 DEF Rows
  <2> QED BY <2>2 DEF Row, Ips
<1> QED BY <1>2, <1>3, <1>4, <1>5

LEMMA NewRequestIs ==
  /\ NewRequest \in Record
  /\ NewRequest.pc = "new" /\ NewRequest.i = 1 /\ NewRequest.states = <<>>
  /\ NewRequest.kept = {} /\ NewRequest.alone = {}
  /\ NewRequest.writes = NoWrites
<1>1. NewRequest \in Record
  <2>1. <<>> \in Seq({"off", "on"})
    OBVIOUS
  <2>2. NoWrites \in [Rows -> States \cup {"none"}] /\ "absent" \in States
    BY DEF NoWrites, States
  <2>3. "new" \in Places
    BY DEF Places
  <2> QED BY <2>1, <2>2, <2>3 DEF Record, NewRequest
<1> QED BY <1>1 DEF NewRequest

LEMMA OverIs ==
  ASSUME NEW pc \in Places
  PROVE  /\ Over(pc) \in Record
         /\ Over(pc).pc = pc /\ Over(pc).i = 1 /\ Over(pc).states = <<>>
         /\ Over(pc).kept = {} /\ Over(pc).alone = {}
         /\ Over(pc).writes = NoWrites
  BY NewRequestIs DEF Over, Record

\* A request that has not begun, or is over.
LEMMA BlankShape ==
  ASSUME NEW r \in Requests, NEW q \in Record,
         q.pc \in {"new", "failed", "applied", "lost"}, q.i = 1,
         q.states = <<>>, q.kept = {}, q.alone = {}, q.writes = NoWrites
  PROVE  RequestOf(r, q)
<1>1. Progress(r, q)
  BY DevicesType DEF Progress, Committed
<1>2. WritesOwn(r, q)
  BY DEF WritesOwn, NoWrites
<1>3. WritesLatest(r, q)
  BY DEF WritesLatest, Handled
<1> QED BY <1>1, <1>2, <1>3 DEF RequestOf

LEMMA OverShape ==
  ASSUME NEW r \in Requests, NEW pc \in {"failed", "applied", "lost"}
  PROVE  RequestOf(r, Over(pc))
<1>1. pc \in Places
  BY DEF Places
<1> QED BY <1>1, OverIs, BlankShape

\* A step of one request.
LEMMA RequestStep ==
  ASSUME Shape, NEW r \in Requests, NEW q, RequestOf(r, q),
         request' = [request EXCEPT ![r] = q]
  PROVE  /\ RequestsShape'
         /\ request'[r] = q
         /\ \A s \in Requests : s # r => request'[s] = request[s]
<1>1. q \in Record
  BY DEF RequestOf
<1>2. /\ request' \in [Requests -> Record] /\ request'[r] = q
      /\ \A s \in Requests : s # r => request'[s] = request[s]
  BY <1>1 DEF Shape, RequestsShape
<1> QED BY <1>2 DEF Shape, RequestsShape
-----------------------------------------------------------------------------
(* What each action makes of a request.                                    *)

\* Every request in flight loses addresses, and one begins.
LEMMA BeginStep ==
  ASSUME Shape, NEW r \in Requests, Begin(r)
  PROVE  /\ RequestsShape'
         /\ request[r].pc = "new" /\ request'[r].pc = "select"
         /\ \A s \in Requests :
              /\ s # r => request'[s].pc = request[s].pc
              /\ request'[s].states = request[s].states
              /\ s # r => request'[s].alone = request[s].alone \ Ips(r)
         /\ \A s \in Requests :
              s # r /\ InFlight(s) => request'[r].alone \cap Ips(s) = {}
<1> DEFINE shared == UNION {Ips(s) : s \in Overlapping(r)}
           n(s) == IF s = r
                   THEN [request[r] EXCEPT !.pc = "select",
                                           !.alone = Ips(r) \ shared]
                   ELSE [request[s] EXCEPT !.alone = @ \ Ips(r)]
<1>1. request[r].pc = "new" /\ request' = [s \in Requests |-> n(s)]
  BY DEF Begin, At
<1> HIDE DEF shared
<1>2. ASSUME NEW s \in Requests
      PROVE  /\ n(s) \in Record
             /\ n(s).pc = IF s = r THEN "select" ELSE request[s].pc
             /\ n(s).alone = IF s = r THEN Ips(r) \ shared
                             ELSE request[s].alone \ Ips(r)
             /\ n(s).i = request[s].i /\ n(s).writes = request[s].writes
             /\ n(s).states = request[s].states /\ n(s).kept = request[s].kept
  <2>1. request[s] \in Record /\ request[r] \in Record
    BY DEF Shape, RequestsShape
  <2>2. Ips(r) \subseteq AllIps /\ "select" \in Places
    BY DevicesType DEF Places, Handled
  <2>3. CASE s = r
    BY <2>1, <2>2, <2>3 DEF Record
  <2>4. CASE s # r
    <3>1. n(s) = [request[s] EXCEPT !.alone = @ \ Ips(r)]
      BY <2>4
    <3> QED BY <2>1, <2>4, <3>1 DEF Record
  <2> QED BY <2>3, <2>4
<1> HIDE DEF n
<1>3. ASSUME NEW s \in Requests PROVE request'[s] = n(s)
  BY <1>1
<1>4. ASSUME NEW s \in Requests PROVE RequestOf(s, n(s))
  <2>1. RequestOf(s, request[s]) /\ RequestOf(r, request[r])
    BY DEF Shape, RequestsShape
  <2>2. Progress(s, n(s))
    BY <1>1, <1>2, <2>1 DEF RequestOf, Progress, Committed
  <2>3. WritesOwn(s, n(s))
    BY <1>2, <2>1 DEF RequestOf, WritesOwn
  <2>4. WritesLatest(s, n(s))
    <3>1. CASE s = r
      <4>1. n(s).states = <<>>
        BY <1>1, <1>2, <2>1, <3>1 DEF RequestOf, Progress
      <4> QED BY <4>1 DEF WritesLatest
    <3>2. CASE s # r
      BY <1>2, <2>1, <3>2 DEF RequestOf, WritesLatest
    <3> QED BY <3>1, <3>2
  <2> QED BY <1>2, <2>2, <2>3, <2>4 DEF RequestOf
<1>5. request' \in [Requests -> Record]
  BY <1>1, <1>2
<1>6. RequestsShape'
  BY <1>3, <1>4, <1>5 DEF RequestsShape
<1>7. \A s \in Requests : s # r /\ InFlight(s) => Ips(s) \subseteq shared
  BY DEF shared, Overlapping
<1>8. \A s \in Requests :
        s # r /\ InFlight(s) => request'[r].alone \cap Ips(s) = {}
  BY <1>2, <1>3, <1>7
<1> QED BY <1>1, <1>2, <1>3, <1>6, <1>8

LEMMA SeenType ==
  ASSUME Shape, NEW r \in Requests, NEW w \in Rows
  PROVE  Seen(r, w) \in States
  BY DEF Shape, RequestsShape, DatabaseShape, Record, Seen

LEMMA SelectStep ==
  ASSUME Shape, NEW r \in Requests, SelectRow(r)
  PROVE  \E q : /\ RequestOf(r, q) /\ request' = [request EXCEPT ![r] = q]
                /\ q.pc = "write" /\ q.alone = request[r].alone
<1> DEFINE q == [request[r] EXCEPT !.pc = "write",
                                   !.read = Seen(r, Row(r, request[r].i))]
<1>1. /\ request[r].pc = "select" /\ request[r] \in Record
      /\ RequestOf(r, request[r]) /\ request \in [Requests -> Record]
  BY DEF SelectRow, At, Shape, RequestsShape
<1>2. request' = [request EXCEPT ![r] = q]
  BY <1>1 DEF SelectRow
<1>3. Seen(r, Row(r, request[r].i)) \in States
  BY <1>1, SeenType, DevicesType DEF RequestOf, Progress
<1>4. /\ q \in Record /\ q.pc = "write" /\ q.i = request[r].i
      /\ q.states = request[r].states /\ q.writes = request[r].writes
      /\ q.kept = request[r].kept /\ q.alone = request[r].alone
  BY <1>1, <1>3 DEF Record, Places, Handled
<1> HIDE DEF q
<1>5. Progress(r, q)
  BY <1>1, <1>4 DEF RequestOf, Progress, Committed
<1>6. WritesOwn(r, q) /\ WritesLatest(r, q)
  BY <1>1, <1>4 DEF RequestOf, WritesOwn, WritesLatest, Handled
<1> QED BY <1>2, <1>4, <1>5, <1>6 DEF RequestOf

\* The write of a row is the latest of its address, and no longer those before.
LEMMA WriteStep ==
  ASSUME Shape, NEW r \in Requests, WriteRow(r)
  PROVE  \E q : /\ RequestOf(r, q) /\ request' = [request EXCEPT ![r] = q]
                /\ q.pc \in {"select", "commit"} /\ q.alone = request[r].alone
<1> DEFINE old == request[r]
           i == old.i
           w == Row(r, i)
           state == Toggled(old.read)
           more == i < Len(Devices[r])
           q == [old EXCEPT !.writes = [@ EXCEPT ![w] = state],
                            !.read = "absent",
                            !.states = Append(@, state),
                            !.i = IF more THEN i + 1 ELSE i,
                            !.pc = IF more THEN "select" ELSE "commit"]
<1>1. /\ old.pc = "write" /\ old \in Record
      /\ RequestOf(r, old) /\ request \in [Requests -> Record]
  BY DEF WriteRow, At, Shape, RequestsShape
<1>2. i \in 1..Len(Devices[r]) /\ w \in Rows /\ Len(old.states) = i - 1
      /\ Len(Devices[r]) \in Nat
  BY <1>1, DevicesType DEF RequestOf, Progress
<1>3. request' = [request EXCEPT ![r] = q]
  BY <1>1, <1>2 DEF WriteRow
<1>4. state \in {"off", "on"} /\ state # "none"
  BY DEF Toggled
<1>5. /\ old.writes \in [Rows -> States \cup {"none"}]
      /\ old.states \in Seq({"off", "on"})
      /\ old.i \in Nat /\ old.kept \in SUBSET Nat /\ old.alone \in SUBSET AllIps
  BY <1>1 DEF Record
<1> HIDE DEF state, w, i, more
<1>6. /\ q.pc = (IF more THEN "select" ELSE "commit")
      /\ q.i = (IF more THEN i + 1 ELSE i)
      /\ q.states = Append(old.states, state)
      /\ q.writes = [old.writes EXCEPT ![w] = state]
      /\ q.kept = old.kept /\ q.alone = old.alone
  BY <1>1 DEF Record
<1>7. q \in Record
  <2>1. /\ {"select", "commit"} \subseteq Places /\ "absent" \in States
        /\ {"off", "on"} \subseteq States
    BY DEF Places, Handled, States
  <2>2. (IF more THEN "select" ELSE "commit") \in Places
    BY <2>1
  <2>3. (IF more THEN i + 1 ELSE i) \in Nat
    BY <1>2
  <2>4. Append(old.states, state) \in Seq({"off", "on"})
    BY <1>4, <1>5
  <2>5. [old.writes EXCEPT ![w] = state] \in [Rows -> States \cup {"none"}]
    BY <1>4, <1>5, <2>1
  <2> QED BY <1>1, <2>1, <2>2, <2>3, <2>4, <2>5 DEF Record
<1> HIDE DEF q
<1>8. /\ Len(q.states) = i /\ q.states[i] = state
      /\ \A k \in 1..(i - 1) : q.states[k] = old.states[k]
  BY <1>2, <1>4, <1>5, <1>6
<1>9. Progress(r, q)
  <2>1. i = Len(Devices[r]) \/ i + 1 \in 1..Len(Devices[r])
    BY <1>2
  <2>2. q.kept \subseteq 1..Len(q.states)
    BY <1>1, <1>2, <1>6, <1>8 DEF RequestOf, Progress
  <2> QED
    BY <1>1, <1>2, <1>6, <1>8, <2>1, <2>2, DevicesType
    DEF RequestOf, Progress, Committed, more
<1>10. WritesOwn(r, q)
  <2>1. w = Row(r, i) /\ i \in Indices(r)
    BY <1>2, DevicesType DEF w, i
  <2> QED BY <1>1, <1>5, <1>6, <2>1 DEF RequestOf, WritesOwn
<1>11. WritesLatest(r, q)
  <2> SUFFICES ASSUME NEW k \in 1..i, Latest(r, k, i)
               PROVE  q.writes[Row(r, k)] = q.states[k]
    BY <1>8 DEF WritesLatest
  <2>1. w = Row(r, i)
    BY DEF w, i
  <2>2. CASE k = i
    BY <1>2, <1>5, <1>6, <1>8, <2>1, <2>2
  <2>3. CASE k # i
    <3>1. k \in 1..(i - 1) /\ Latest(r, k, i - 1) /\ i \in (k + 1)..i
      BY <1>2, <2>3 DEF Latest
    <3>2. Device(r, i).ip # Device(r, k).ip
      BY <3>1 DEF Latest
    <3>3. k \in Indices(r) /\ i \in Indices(r)
      BY <1>2, DevicesType
    <3>4. Row(r, k) # w /\ Row(r, k) \in Rows
      BY <2>1, <3>2, <3>3, DevicesType
    <3>5. old.writes[Row(r, k)] = old.states[k]
      BY <1>1, <1>2, <3>1 DEF RequestOf, WritesLatest, Handled
    <3> QED BY <1>5, <1>6, <1>8, <3>1, <3>4, <3>5
  <2> QED BY <2>2, <2>3
<1> QED BY <1>3, <1>6, <1>7, <1>9, <1>10, <1>11 DEF RequestOf

LEMMA CommitStep ==
  ASSUME Shape, NEW r \in Requests, Commit(r)
  PROVE  /\ request[r].pc = "commit"
         /\ table' = [w \in Rows |-> Seen(r, w)]
         /\ \E q : /\ RequestOf(r, q) /\ request' = [request EXCEPT ![r] = q]
                   /\ q.pc = "committed" /\ q.alone = request[r].alone
                   /\ q.states = request[r].states
<1> DEFINE q == [request[r] EXCEPT !.pc = "committed", !.writes = NoWrites]
<1>1. /\ request[r].pc = "commit" /\ request[r] \in Record
      /\ RequestOf(r, request[r]) /\ request \in [Requests -> Record]
  BY DEF Commit, At, Shape, RequestsShape
<1>2. request' = [request EXCEPT ![r] = q]
  BY <1>1 DEF Commit
<1>3. NoWrites \in [Rows -> States \cup {"none"}] /\ "committed" \in Places
  BY DEF NoWrites, Places, Committed
<1>4. /\ q \in Record /\ q.pc = "committed" /\ q.i = request[r].i
      /\ q.states = request[r].states /\ q.writes = NoWrites
      /\ q.kept = request[r].kept /\ q.alone = request[r].alone
  BY <1>1, <1>3 DEF Record
<1> HIDE DEF q
<1>5. Progress(r, q)
  BY <1>1, <1>4 DEF RequestOf, Progress, Committed
<1>6. WritesOwn(r, q) /\ WritesLatest(r, q)
  BY <1>4 DEF WritesOwn, WritesLatest, NoWrites, Handled
<1> QED BY <1>1, <1>2, <1>4, <1>5, <1>6 DEF RequestOf, Commit

\* A request whose message is made keeps some of its devices; one that keeps
\* none is over.
LEMMA CredentialsStep ==
  ASSUME Shape, NEW r \in Requests, ReadCredentials(r)
  PROVE  \E kept \in SUBSET (1..Len(request[r].states)) : \E q :
           /\ request[r].pc = "committed"
           /\ settled' = Unsettled({Device(r, i).ip : i \in Indices(r) \ kept})
           /\ RequestOf(r, q) /\ request' = [request EXCEPT ![r] = q]
           /\ \/ /\ kept = {} /\ q = Over("lost")
              \/ /\ q.pc = "offering" /\ q.alone = request[r].alone
                 /\ q.states = request[r].states
<1> DEFINE found == {i \in DOMAIN request[r].states :
                       Device(r, i).credential \in KnownCredentials}
<1>1. /\ request[r].pc = "committed" /\ request[r] \in Record
      /\ RequestOf(r, request[r]) /\ request \in [Requests -> Record]
  BY DEF ReadCredentials, At, Shape, RequestsShape
<1>2. PICK kept \in {found} \cup {K \in SUBSET found : faults < MaxFaults} :
        /\ request' = [request EXCEPT
                         ![r] = IF kept = {} THEN Over("lost")
                                ELSE [@ EXCEPT !.pc = "offering", !.kept = kept]]
        /\ settled' = Unsettled({Device(r, i).ip : i \in Indices(r) \ kept})
  BY DEF ReadCredentials
<1>3. request[r].states \in Seq({"off", "on"})
  BY <1>1 DEF Record
<1>4. kept \in SUBSET (1..Len(request[r].states))
  BY <1>2, <1>3
<1>5. CASE kept = {}
  BY <1>1, <1>2, <1>4, <1>5, OverShape
<1>6. CASE kept # {}
  <2> DEFINE q == [request[r] EXCEPT !.pc = "offering", !.kept = kept]
  <2>1. request' = [request EXCEPT ![r] = q]
    BY <1>1, <1>2, <1>6
  <2>2. kept \in SUBSET Nat /\ "offering" \in Places
    BY <1>3, <1>4 DEF Places, Committed
  <2>3. /\ q \in Record /\ q.pc = "offering" /\ q.i = request[r].i
        /\ q.states = request[r].states /\ q.writes = request[r].writes
        /\ q.kept = kept /\ q.alone = request[r].alone
    BY <1>1, <2>2 DEF Record
  <2> HIDE DEF q
  <2>4. Progress(r, q)
    BY <1>1, <1>4, <2>3 DEF RequestOf, Progress, Committed
  <2>5. WritesOwn(r, q) /\ WritesLatest(r, q)
    BY <1>1, <2>3 DEF RequestOf, WritesOwn, WritesLatest, Handled
  <2>6. RequestOf(r, q)
    BY <2>3, <2>4, <2>5 DEF RequestOf
  <2> QED BY <1>1, <1>2, <1>4, <2>1, <2>3, <2>6
<1> QED BY <1>5, <1>6

LEMMA OfferStep ==
  ASSUME Shape, NEW r \in Requests, Offer(r)
  PROVE  /\ request[r].pc = "offering"
         /\ \E q : /\ RequestOf(r, q) /\ request' = [request EXCEPT ![r] = q]
                   /\ q.pc = "queued" /\ q.alone = request[r].alone
                   /\ q.states = request[r].states
<1> DEFINE q == [request[r] EXCEPT !.pc = "queued"]
<1>1. /\ request[r].pc = "offering" /\ request[r] \in Record
      /\ RequestOf(r, request[r]) /\ request \in [Requests -> Record]
  BY DEF Offer, At, Shape, RequestsShape
<1>2. request' = [request EXCEPT ![r] = q]
  BY <1>1 DEF Offer
<1>3. /\ q \in Record /\ q.pc = "queued" /\ q.i = request[r].i
      /\ q.states = request[r].states /\ q.writes = request[r].writes
      /\ q.kept = request[r].kept /\ q.alone = request[r].alone
  BY <1>1 DEF Record, Places, Committed
<1> HIDE DEF q
<1>4. Progress(r, q)
  BY <1>1, <1>3 DEF RequestOf, Progress, Committed
<1>5. WritesOwn(r, q) /\ WritesLatest(r, q)
  BY <1>1, <1>3 DEF RequestOf, WritesOwn, WritesLatest, Handled
<1> QED BY <1>1, <1>2, <1>3, <1>4, <1>5 DEF RequestOf

LEMMA AbortStep ==
  ASSUME Shape, NEW r \in Requests, Abort(r)
  PROVE  /\ request[r].pc \in Handled
         /\ RequestOf(r, Over("failed"))
         /\ request' = [request EXCEPT ![r] = Over("failed")]
  BY OverShape DEF Abort, MayFail

\* A process that ends leaves every request as it is or over.
LEMMA EndedShape ==
  ASSUME Shape,
         \/ \E delivered : request' = [r \in Requests |-> Ended(r, delivered)]
         \/ \E R : request' = [r \in Requests |-> IF r \in R THEN Over("lost")
                                                  ELSE request[r]]
  PROVE  /\ RequestsShape'
         /\ \A r \in Requests : \/ request'[r] \in {Over("failed"), Over("lost")}
                                \/ request'[r] = request[r]
<1>1. request' = [r \in Requests |-> request'[r]]
  OBVIOUS
<1>2. ASSUME NEW r \in Requests
      PROVE  \/ request'[r] \in {Over("failed"), Over("lost")}
             \/ request'[r] = request[r]
  BY DEF Ended
<1>3. ASSUME NEW r \in Requests PROVE RequestOf(r, request'[r])
  BY <1>2, OverShape DEF Shape, RequestsShape
<1> QED BY <1>1, <1>2, <1>3 DEF RequestsShape, RequestOf

-----------------------------------------------------------------------------
(* The shape holds.                                                        *)

LEMMA ShapeInit == Init => Shape
<1> SUFFICES ASSUME Init PROVE Shape
  OBVIOUS
<1>1. DatabaseShape
  BY TablesAssumption DEF Init, DatabaseShape
<1>2. RequestsShape
  <2>1. \A r \in Requests : RequestOf(r, NewRequest)
    BY NewRequestIs, BlankShape
  <2> QED BY <2>1 DEF Init, RequestsShape, RequestOf
<1>3. ChannelShape /\ SenderShape /\ PhaseShape /\ WireShape
  BY BoundsAssumption DEF Init, ChannelShape, SenderShape, PhaseShape, WireShape
<1>4. RegistryShape
  BY DEF Init, RegistryShape, IsABag, EmptyBag, SetToBag
<1>5. SettledShape
  BY DEF Init, SettledShape
<1> QED BY <1>1, <1>2, <1>3, <1>4, <1>5 DEF Shape

LEMMA UnsettledShape ==
  ASSUME Shape, NEW A, settled' = Unsettled(A)
  PROVE  SettledShape'
  BY DEF Shape, SettledShape, Unsettled

LEMMA RowsOfIps ==
  ASSUME NEW r \in Requests, NEW a \in Ips(r)
  PROVE  <<a, Discovery[r]>> \in Rows /\ a \in AllIps
<1>1. PICK i \in Indices(r) : a = Device(r, i).ip
  BY DEF Ips
<1>2. Row(r, i) = <<a, Discovery[r]>>
  BY <1>1 DEF Row
<1> QED BY <1>1, <1>2, DevicesType

\* The update of the registry adds entries of the request's addresses and
\* takes some of them away.
LEMMA UpdatedBag ==
  ASSUME Shape, NEW r \in Requests
  PROVE  /\ IsABag(Updated(r))
         /\ DOMAIN Updated(r) =
              {e \in DOMAIN registry : \A d \in NewDeviceMap(r) :
                                         d.row[1] = e.row[1] => d.on}
              \cup {[row |-> d.row, credential |-> d.credential] :
                      d \in {n \in NewDeviceMap(r) : n.on}}
<1> DEFINE stays == {e \in DOMAIN registry : \A d \in NewDeviceMap(r) :
                                               d.row[1] = e.row[1] => d.on}
           added == {[row |-> d.row, credential |-> d.credential] :
                      d \in {n \in NewDeviceMap(r) : n.on}}
           b == [e \in stays |-> registry[e]]
           c == SetToBag(added)
<1>1. Updated(r) = b (+) c
  BY DEF Updated
<1>2. \A e \in DOMAIN registry : registry[e] \in Nat /\ registry[e] > 0
  BY DEF Shape, RegistryShape, IsABag
<1>3. stays \subseteq DOMAIN registry
  OBVIOUS
<1> HIDE DEF stays, added
<1>4. /\ DOMAIN b = stays /\ \A e \in stays : b[e] \in Nat /\ b[e] > 0
      /\ DOMAIN c = added /\ \A e \in added : c[e] = 1
  BY <1>2, <1>3 DEF SetToBag
<1> HIDE DEF b, c
<1>5. b (+) c = [e \in stays \cup added |->
                   (IF e \in stays THEN b[e] ELSE 0)
                     + (IF e \in added THEN c[e] ELSE 0)]
  BY <1>4 DEF (+)
<1>6. ASSUME NEW e \in stays \cup added
      PROVE  (IF e \in stays THEN b[e] ELSE 0)
               + (IF e \in added THEN c[e] ELSE 0) \in {n \in Nat : n > 0}
  BY <1>4
<1>7. DOMAIN (b (+) c) = stays \cup added /\ IsABag(b (+) c)
  BY <1>5, <1>6 DEF IsABag
<1> QED BY <1>1, <1>7 DEF stays, added

LEMMA ShapeStep == Shape /\ [Next]_vars => Shape'
<1> SUFFICES ASSUME Shape, [Next]_vars PROVE Shape'
  OBVIOUS
<1> USE Frame
<1>1. ASSUME NEW r \in Requests, Begin(r) PROVE Shape'
  BY <1>1, BeginStep DEF Begin, backend, poller, Shape
<1>2. ASSUME NEW r \in Requests, NoDiscovery(r) PROVE Shape'
  BY <1>2, OverShape, RequestStep DEF NoDiscovery, backend, poller, Shape
<1>3. ASSUME NEW r \in Requests, SelectRow(r) PROVE Shape'
  BY <1>3, SelectStep, RequestStep DEF SelectRow, backend, poller, Shape
<1>4. ASSUME NEW r \in Requests, WriteRow(r) PROVE Shape'
  <2>1. RequestsShape'
    BY <1>4, WriteStep, RequestStep
  <2>2. DatabaseShape'
    BY <1>4 DEF WriteRow, Shape, DatabaseShape
  <2> QED BY <1>4, <2>1, <2>2 DEF WriteRow, backend, poller, Shape
<1>5. ASSUME NEW r \in Requests, Abort(r) PROVE Shape'
  <2>1. RequestsShape'
    BY <1>5, AbortStep, RequestStep
  <2>2. DatabaseShape'
    BY <1>5 DEF Abort, Unlocked, Shape, DatabaseShape
  <2> QED BY <1>5, <2>1, <2>2 DEF Abort, backend, poller, Shape
<1>6. ASSUME NEW r \in Requests, Commit(r) PROVE Shape'
  <2>1. RequestsShape'
    BY <1>6, CommitStep, RequestStep
  <2>2. DatabaseShape'
    BY <1>6, SeenType DEF Commit, Unlocked, Shape, DatabaseShape
  <2> QED BY <1>6, <2>1, <2>2 DEF Commit, backend, poller, Shape
<1>7. ASSUME NEW r \in Requests, ReadCredentials(r) PROVE Shape'
  <2>1. RequestsShape'
    BY <1>7, CredentialsStep, RequestStep
  <2>2. SettledShape'
    BY <1>7, CredentialsStep, UnsettledShape
  <2> QED BY <1>7, <2>1, <2>2 DEF ReadCredentials, backend, poller, Shape
<1>8. ASSUME NEW r \in Requests, Offer(r) PROVE Shape'
  <2>1. RequestsShape'
    BY <1>8, OfferStep, RequestStep
  <2>2. ChannelShape'
    BY <1>8, BoundsAssumption DEF Offer, Shape, ChannelShape
  <2> QED BY <1>8, <2>1, <2>2 DEF Offer, poller, Shape
<1>9. ASSUME NEW D, BackendEnds(D), phase' \in {"panicked", "exited", "up"},
             UNCHANGED <<table, registry>>, WireShape'
      PROVE  Shape'
  <2>1. RequestsShape' /\ SettledShape'
    BY <1>9, EndedShape, UnsettledShape DEF BackendEnds
  <2>2. DatabaseShape'
    BY <1>9 DEF BackendEnds, Unlocked, Shape, DatabaseShape
  <2>3. ChannelShape' /\ SenderShape' /\ PhaseShape'
    BY <1>9, BoundsAssumption DEF BackendEnds, ChannelShape, SenderShape, PhaseShape
  <2> QED BY <1>9, <2>1, <2>2, <2>3 DEF Shape
<1>10. ASSUME NEW r \in Requests, OfferPanics(r) PROVE Shape'
  BY <1>9, <1>10 DEF OfferPanics, poller, Shape
<1>11. CASE BackendDies
  <2>1. PICK n \in 0..Len(toPoller) :
          /\ toPoller' = SubSeq(toPoller, 1, n)
          /\ BackendEnds({toPoller[j] : j \in 1..n})
    BY <1>11 DEF BackendDies
  <2>2. WireShape'
    BY <2>1, ChannelType DEF Shape, WireShape
  <2> QED BY <1>9, <1>11, <2>1, <2>2 DEF BackendDies
<1>12. CASE BackendShutdown
  <2>1. CASE UNCHANGED <<database, request, deviceChannel, sender, poller,
                         settled, faults>>
    BY <1>12, <2>1 DEF BackendShutdown, poller, Shape, PhaseShape
  <2>2. CASE BackendEnds(Sent) /\ phase' = "exited"
             /\ UNCHANGED <<table, poller, faults>>
    BY <1>9, <2>2 DEF poller, Shape
  <2> QED BY <1>12, <2>1, <2>2 DEF BackendShutdown
<1>13. CASE TakeDevices
  <2>1. SenderShape' /\ ChannelShape'
    <3>1. /\ Head(deviceChannel) \in Requests /\ Tail(deviceChannel) \in Seq(Requests)
          /\ Len(Tail(deviceChannel)) = Len(deviceChannel) - 1
      BY <1>13, ChannelType DEF TakeDevices, Shape, ChannelShape
    <3>2. sender' = [pc |-> "send", msg |-> Head(deviceChannel)]
          /\ deviceChannel' = Tail(deviceChannel)
      BY <1>13 DEF TakeDevices
    <3>3. SenderShape'
      BY <3>1, <3>2 DEF SenderShape
    <3>4. Len(deviceChannel) \in Nat /\ DeviceBuffer \in Nat
          /\ Len(deviceChannel) <= DeviceBuffer
      BY BoundsAssumption, ChannelType DEF Shape, ChannelShape
    <3>5. deviceChannel' \in Seq(Requests)
      BY <3>1, <3>2
    <3>6. Len(deviceChannel') = Len(deviceChannel) - 1
      BY <3>1, <3>2
    <3>7. Len(deviceChannel') <= DeviceBuffer
      BY <3>4, <3>6
    <3> QED BY <3>3, <3>5, <3>7 DEF ChannelShape
  <2> QED BY <1>13, <2>1 DEF TakeDevices, poller, Shape
<1>14. CASE SendDevices
  BY <1>14, ChannelType DEF SendDevices, SenderShape, WireShape, Shape
<1>15. CASE SendDevicesFails
  <2>1. RequestsShape' /\ SettledShape'
    BY <1>15, OverShape, RequestStep, UnsettledShape
    DEF SendDevicesFails, Shape, SenderShape
  <2>2. SenderShape'
    BY <1>15 DEF SendDevicesFails, SenderShape
  <2> QED BY <1>15, <2>1, <2>2 DEF SendDevicesFails, poller, Shape
<1>16. CASE SenderStops
  BY <1>16 DEF SenderStops, SenderShape, poller, Shape
<1>17. CASE SetProvisionedDevices
  <2> DEFINE r == Head(toPoller)
  <2>1. /\ registry' = Updated(r) /\ settled' = Settled(r)
        /\ request' = [request EXCEPT ![r] = Over("applied")]
        /\ toPoller # <<>> /\ toPoller' = Tail(toPoller)
        /\ UNCHANGED <<database, backend>>
    BY <1>17 DEF SetProvisionedDevices
  <2>2. r \in Requests /\ WireShape'
    BY <2>1, ChannelType DEF Shape, WireShape
  <2> HIDE DEF r
  <2>3. RequestsShape' /\ RegistryShape'
    BY <2>1, <2>2, OverShape, RequestStep, UpdatedBag DEF RegistryShape
  <2>4. SettledShape'
    BY <2>1, <2>2, RowsOfIps DEF Settled, Shape, SettledShape
  <2> QED BY <2>1, <2>2, <2>3, <2>4 DEF backend, Shape
<1>18. CASE PollerDies
  <2>1. PICK n \in 0..Len(toPoller) :
          /\ toPoller' = SubSeq(toPoller, n + 1, Len(toPoller))
          /\ request' = [r \in Requests |->
                           IF r \in {toPoller[j] : j \in 1..n}
                           THEN Over("lost") ELSE request[r]]
    BY <1>18 DEF PollerDies
  <2>2. WireShape'
    BY <2>1, ChannelType DEF Shape, WireShape
  <2>3. RequestsShape'
    BY <2>1, EndedShape
  <2>4. RegistryShape' /\ SettledShape'
    BY <1>18
    DEF PollerDies, RegistryShape, IsABag, EmptyBag, SetToBag, SettledShape
  <2> QED BY <1>18, <2>2, <2>3, <2>4 DEF PollerDies, backend, Shape
<1>19. CASE PollerStarts \/ UNCHANGED vars
  BY <1>19 DEF PollerStarts, vars, backend, poller, database, Shape
<1> QED
  BY <1>1, <1>2, <1>3, <1>4, <1>5, <1>6, <1>7, <1>8, <1>10, <1>11, <1>12, <1>13,
     <1>14, <1>15, <1>16, <1>17, <1>18, <1>19
  DEF Next, HandlerStep, SenderStep

LEMMA ShapeHolds == Spec => []Shape
  BY ShapeInit, ShapeStep, PTL DEF Spec

-----------------------------------------------------------------------------
(* A message is in one place on its way to the registry.                   *)

InHand == IF sender.pc = "send" THEN {sender.msg} ELSE {}

WayInv ==
  /\ Distinct(deviceChannel) /\ Distinct(toPoller)
  /\ Elems(deviceChannel) \cap InHand = {}
  /\ Elems(deviceChannel) \cap Elems(toPoller) = {}
  /\ InHand \cap Elems(toPoller) = {}
  /\ \A r \in Elems(deviceChannel) \cup InHand \cup Elems(toPoller) :
       request[r].pc = "queued"

LEMMA EmptyWay == Elems(<<>>) = {} /\ Distinct(<<>>)
  BY DEF Elems, Distinct

LEMMA SentIs == Sent = Elems(toPoller)
  BY DEF Sent, Elems

LEMMA WayType ==
  ASSUME Shape
  PROVE  /\ Elems(deviceChannel) \subseteq Requests
         /\ Elems(toPoller) \subseteq Requests
         /\ InHand \subseteq Requests
<1>1. Elems(deviceChannel) \subseteq Requests
  BY DEF Elems, Shape, ChannelShape
<1>2. Elems(toPoller) \subseteq Requests
  BY DEF Elems, Shape, WireShape
<1> QED BY <1>1, <1>2 DEF InHand, Shape, SenderShape

\* The state of a request on the way changes only when it is taken off it.
LEMMA WayFrame ==
  ASSUME Shape, WayInv, UNCHANGED <<deviceChannel, sender, toPoller>>,
         \A r \in Requests : request[r].pc = "queued" => request'[r].pc = "queued"
  PROVE  WayInv'
  BY WayType DEF WayInv, InHand

LEMMA BackendEndsWay ==
  ASSUME Shape, WayInv, NEW D, BackendEnds(D), Distinct(toPoller'),
         Elems(toPoller') \subseteq Elems(toPoller) \cap D
  PROVE  WayInv'
<1>1. /\ request' = [r \in Requests |-> Ended(r, D)]
      /\ deviceChannel' = <<>> /\ sender'.pc = "select"
  BY DEF BackendEnds
<1>2. ASSUME NEW r \in Elems(toPoller') PROVE request'[r].pc = "queued"
  <2>1. r \in Requests /\ r \in D /\ request[r].pc = "queued"
    BY <1>2, WayType DEF WayInv
  <2>2. Ended(r, D) = request[r]
    BY <2>1 DEF Ended, Handled, Committed
  <2> QED BY <1>1, <2>1, <2>2
<1> QED BY <1>1, <1>2, EmptyWay DEF WayInv, InHand

LEMMA WayStep == Shape /\ WayInv /\ [Next]_vars => WayInv'
<1> SUFFICES ASSUME Shape, WayInv, [Next]_vars PROVE WayInv'
  OBVIOUS
<1>1. ASSUME NEW r \in Requests, Begin(r) PROVE WayInv'
  BY <1>1, BeginStep, WayFrame DEF Begin, backend, poller
<1>2. ASSUME NEW r \in Requests, NEW q,
             request' = [request EXCEPT ![r] = q], request[r].pc # "queued"
      PROVE  \A s \in Requests :
               request[s].pc = "queued" => request'[s].pc = "queued"
  BY <1>2 DEF Shape, RequestsShape
<1>3. ASSUME NEW r \in Requests,
             \/ NoDiscovery(r) \/ SelectRow(r) \/ WriteRow(r) \/ Abort(r)
             \/ Commit(r) \/ ReadCredentials(r)
      PROVE  WayInv'
  <2>1. UNCHANGED <<deviceChannel, sender, toPoller>> /\ request[r].pc # "queued"
    BY <1>3
    DEF NoDiscovery, SelectRow, WriteRow, Abort, Commit, ReadCredentials, At,
        MayFail, Handled, backend, poller
  <2>2. \E q : request' = [request EXCEPT ![r] = q]
    <3>1. CASE SelectRow(r) \/ WriteRow(r) \/ Commit(r)
      BY <3>1, SelectStep, WriteStep, CommitStep
    <3>2. CASE ReadCredentials(r)
      BY <3>2, CredentialsStep
    <3>3. CASE NoDiscovery(r) \/ Abort(r)
      BY <3>3 DEF NoDiscovery, Abort
    <3> QED BY <1>3, <3>1, <3>2, <3>3
  <2> QED BY <1>2, <2>1, <2>2, WayFrame
<1>4. ASSUME NEW r \in Requests, Offer(r) PROVE WayInv'
  <2>1. /\ request[r].pc = "offering" /\ deviceChannel' = Append(deviceChannel, r)
        /\ UNCHANGED <<sender, toPoller>>
    BY <1>4, OfferStep DEF Offer, poller
  <2>2. request'[r].pc = "queued" /\ \A s \in Requests : s # r => request'[s] = request[s]
    BY <1>4, OfferStep, RequestStep
  <2>3. r \notin Elems(deviceChannel) \cup InHand \cup Elems(toPoller)
    BY <2>1 DEF WayInv
  <2>4. /\ Elems(deviceChannel') = Elems(deviceChannel) \cup {r}
        /\ Distinct(deviceChannel')
    BY <2>1, <2>3, DistinctChannels DEF WayInv, Shape, ChannelShape
  <2>5. InHand' = InHand
    BY <2>1 DEF InHand
  <2> QED BY <2>1, <2>2, <2>3, <2>4, <2>5, WayType DEF WayInv
<1>5. ASSUME NEW r \in Requests, OfferPanics(r) PROVE WayInv'
  BY <1>5, BackendEndsWay, SentIs DEF OfferPanics, poller, WayInv
<1>6. CASE TakeDevices
  <2> DEFINE r == Head(deviceChannel)
  <2>1. /\ sender.pc = "select" /\ deviceChannel # <<>>
        /\ sender' = [pc |-> "send", msg |-> r]
        /\ deviceChannel' = Tail(deviceChannel)
        /\ UNCHANGED <<request, toPoller>>
    BY <1>6 DEF TakeDevices, poller
  <2>2. /\ r \in Elems(deviceChannel) /\ Distinct(deviceChannel')
        /\ Elems(deviceChannel') = Elems(deviceChannel) \ {r}
    BY <2>1, DistinctChannels DEF WayInv, Shape, ChannelShape
  <2> HIDE DEF r
  <2>3. InHand' = {r}
    BY <2>1 DEF InHand
  <2> QED BY <2>1, <2>2, <2>3 DEF WayInv
<1>7. CASE SendDevices
  <2> DEFINE r == sender.msg
  <2>1. /\ sender.pc = "send" /\ sender'.pc = "select"
        /\ toPoller' = Append(toPoller, r)
        /\ UNCHANGED <<request, deviceChannel>>
    BY <1>7 DEF SendDevices
  <2>2. InHand = {r} /\ InHand' = {} /\ r \in Requests
    BY <2>1 DEF InHand, Shape, SenderShape
  <2> HIDE DEF r
  <2>3. /\ Elems(toPoller') = Elems(toPoller) \cup {r} /\ Distinct(toPoller')
    BY <2>1, <2>2, DistinctChannels DEF WayInv, Shape, WireShape
  <2> QED BY <2>1, <2>2, <2>3 DEF WayInv
<1>8. CASE SendDevicesFails
  <2> DEFINE r == sender.msg
  <2>1. /\ sender.pc = "send" /\ sender'.pc = "select"
        /\ request' = [request EXCEPT ![r] = Over("lost")]
        /\ UNCHANGED <<toPoller, deviceChannel>>
    BY <1>8 DEF SendDevicesFails, poller
  <2>2. InHand = {r} /\ InHand' = {} /\ r \in Requests
    BY <2>1 DEF InHand, Shape, SenderShape
  <2> HIDE DEF r
  <2>3. \A s \in Requests : s # r => request'[s] = request[s]
    BY <2>1 DEF Shape, RequestsShape
  <2> QED BY <2>1, <2>2, <2>3, WayType DEF WayInv
<1>9. CASE SenderStops
  <2>1. /\ sender.pc = "select" /\ sender'.pc = "stopped"
        /\ UNCHANGED <<toPoller, deviceChannel, request>>
    BY <1>9 DEF SenderStops, poller, Shape, SenderShape
  <2> QED BY <2>1 DEF WayInv, InHand
<1>10. CASE BackendShutdown
  BY <1>10, BackendEndsWay, WayFrame, SentIs
  DEF BackendShutdown, poller, WayInv
<1>11. CASE BackendDies
  <2>1. PICK n \in 0..Len(toPoller) :
          /\ toPoller' = SubSeq(toPoller, 1, n)
          /\ BackendEnds({toPoller[j] : j \in 1..n})
    BY <1>11 DEF BackendDies
  <2>2. /\ Elems(toPoller') = {toPoller[j] : j \in 1..n}
        /\ Elems(toPoller') \subseteq Elems(toPoller) /\ Distinct(toPoller')
    BY <2>1, DistinctChannels DEF WayInv, Shape, WireShape
  <2> QED BY <2>1, <2>2, BackendEndsWay
<1>12. CASE SetProvisionedDevices
  <2> DEFINE r == Head(toPoller)
  <2>1. /\ toPoller # <<>> /\ toPoller' = Tail(toPoller)
        /\ request' = [request EXCEPT ![r] = Over("applied")]
        /\ UNCHANGED <<deviceChannel, sender>>
    BY <1>12 DEF SetProvisionedDevices, backend
  <2>2. /\ r \in Elems(toPoller) /\ Distinct(toPoller')
        /\ Elems(toPoller') = Elems(toPoller) \ {r}
    BY <2>1, DistinctChannels DEF WayInv, Shape, WireShape
  <2> HIDE DEF r
  <2>3. \A s \in Requests : s # r => request'[s] = request[s]
    BY <2>1 DEF Shape, RequestsShape
  <2>4. InHand' = InHand
    BY <2>1 DEF InHand
  <2> QED BY <2>1, <2>2, <2>3, <2>4, WayType DEF WayInv
<1>13. CASE PollerDies
  <2>1. PICK n \in 0..Len(toPoller) :
          /\ toPoller' = SubSeq(toPoller, n + 1, Len(toPoller))
          /\ request' = [r \in Requests |->
                           IF r \in {toPoller[j] : j \in 1..n}
                           THEN Over("lost") ELSE request[r]]
    BY <1>13 DEF PollerDies
  <2>2. UNCHANGED <<deviceChannel, sender>>
    BY <1>13 DEF PollerDies, backend
  <2>3. Len(toPoller) \in Nat /\ n + 1 \in 1..(Len(toPoller) + 1)
    BY ChannelType DEF Shape, WireShape
  <2>4. /\ Elems(toPoller') \subseteq Elems(toPoller) /\ Distinct(toPoller')
        /\ \A j \in 1..n : toPoller[j] \notin Elems(toPoller')
    BY <2>1, <2>3, DistinctChannels DEF WayInv, Shape, WireShape
  <2>5. {toPoller[j] : j \in 1..n} \subseteq Elems(toPoller)
    BY <2>3 DEF Elems
  <2>6. InHand' = InHand
    BY <2>2 DEF InHand
  <2>7. \A r \in Elems(deviceChannel) \cup InHand \cup Elems(toPoller') :
          request'[r] = request[r]
    BY <2>1, <2>4, <2>5, WayType DEF WayInv
  <2> QED BY <2>2, <2>4, <2>6, <2>7 DEF WayInv
<1>14. CASE PollerStarts \/ UNCHANGED vars
  BY <1>14, WayFrame DEF PollerStarts, vars, backend, poller
<1> QED
  BY <1>1, <1>3, <1>4, <1>5, <1>6, <1>7, <1>8, <1>9, <1>10, <1>11, <1>12,
     <1>13, <1>14
  DEF Next, HandlerStep, SenderStep

LEMMA WayInit == Init => WayInv
  BY EmptyWay DEF Init, WayInv, InHand

LEMMA WayHolds == Spec => []WayInv
  BY WayInit, WayStep, ShapeHolds, PTL DEF Spec

\* Every request has one state for each device it has got to, the message of a
\* request is sent once and is queued until the registry has it, and the
\* channel, the tables and the bag of polled entries keep their types.
THEOREM TypeCorrect == Spec => []TypeOK
<1>1. Shape /\ WayInv => TypeOK
  <2> SUFFICES ASSUME Shape, WayInv PROVE TypeOK
    OBVIOUS
  <2>1. ASSUME NEW r \in Requests
        PROVE  /\ request[r].pc \in {"new", "failed", "applied", "lost"}
                                      \cup Handled \cup Committed
               /\ request[r].i \in Indices(r)
               /\ request[r].states \in Seq({"off", "on"})
               /\ request[r].kept \subseteq DOMAIN request[r].states
               /\ request[r].alone \subseteq Ips(r)
    <3>1. request[r] \in Record /\ Progress(r, request[r])
      BY DEF Shape, RequestsShape, RequestOf
    <3>2. request[r].states \in Seq({"off", "on"})
      BY <3>1 DEF Record
    <3>3. DOMAIN request[r].states = 1..Len(request[r].states)
      BY <3>2
    <3> QED BY <3>1, <3>2, <3>3 DEF Record, Places, Progress
  <2>2. Sent \subseteq {r \in Requests : request[r].pc = "queued"}
    BY SentIs, WayType DEF WayInv
  <2> QED
    BY <2>1, <2>2
    DEF TypeOK, Shape, DatabaseShape, ChannelShape, SenderShape, PhaseShape,
        RegistryShape, SettledShape
<1> QED BY <1>1, ShapeHolds, WayHolds, PTL

-----------------------------------------------------------------------------
(* A request is alone with an address.                                     *)

\* No other request in flight names an address a request is alone with.
AloneInv ==
  \A r, s \in Requests :
    r # s /\ InFlight(r) /\ InFlight(s) => request[r].alone \cap Ips(s) = {}

\* What is committed for such an address is the latest the request has written.
TableLatest ==
  \A r \in Requests : request[r].pc \in Committed =>
    \A i \in 1..Len(request[r].states) :
      /\ Latest(r, i, Len(request[r].states))
      /\ Device(r, i).ip \in request[r].alone
      => table[Row(r, i)] = request[r].states[i]

OwnRows == AloneInv /\ TableLatest

\* What a step leaves of a request does not widen what it claims: it goes on
\* with the addresses it was alone with, or it is over.
GoesOn(r) ==
  /\ request'[r].pc \in Handled => request[r].pc \in Handled
  /\ request'[r].pc \in Committed =>
       /\ request[r].pc \in Committed
       /\ request'[r].states = request[r].states
  /\ request'[r].alone \subseteq request[r].alone

LEMMA GoOnKeep ==
  ASSUME OwnRows, UNCHANGED table, \A r \in Requests : GoesOn(r)
  PROVE  OwnRows'
<1>1. \A r \in Requests : InFlight(r)' => InFlight(r)
  BY DEF InFlight, GoesOn
<1>2. AloneInv'
  <2> SUFFICES ASSUME NEW r \in Requests, NEW s \in Requests, r # s,
                      InFlight(r)', InFlight(s)'
               PROVE  request'[r].alone \cap Ips(s) = {}
    BY DEF AloneInv
  <2>1. request[r].alone \cap Ips(s) = {}
    BY <1>1 DEF OwnRows, AloneInv
  <2> QED BY <2>1 DEF GoesOn
<1>3. TableLatest'
  <2> SUFFICES ASSUME NEW r \in Requests, request'[r].pc \in Committed,
                      NEW i \in 1..Len(request'[r].states),
                      Latest(r, i, Len(request'[r].states)),
                      Device(r, i).ip \in request'[r].alone
               PROVE  table[Row(r, i)] = request'[r].states[i]
    BY DEF TableLatest
  <2> QED BY DEF GoesOn, OwnRows, TableLatest
<1> QED BY <1>2, <1>3 DEF OwnRows

LEMMA OverGoesOn ==
  ASSUME NEW r \in Requests,
         \/ request'[r] = request[r]
         \/ \E pc \in {"failed", "applied", "lost"} : request'[r] = Over(pc)
  PROVE  GoesOn(r)
<1>1. CASE request'[r] = request[r]
  BY <1>1 DEF GoesOn
<1>2. ASSUME NEW pc \in {"failed", "applied", "lost"}, request'[r] = Over(pc)
      PROVE  GoesOn(r)
  <2>1. pc \in Places
    BY DEF Places
  <2>2. request'[r].pc = pc /\ request'[r].alone = {}
    BY <1>2, <2>1, OverIs
  <2> QED BY <2>2 DEF GoesOn, Handled, Committed
<1> QED BY <1>1, <1>2

LEMMA OwnStep == Shape /\ OwnRows /\ [Next]_vars => OwnRows'
<1> SUFFICES ASSUME Shape, OwnRows, [Next]_vars PROVE OwnRows'
  OBVIOUS
<1>1. ASSUME NEW r \in Requests, Begin(r) PROVE OwnRows'
  <2>1. UNCHANGED table
    BY <1>1 DEF Begin, database
  <2>2. AloneInv'
    <3> SUFFICES ASSUME NEW s \in Requests, NEW t \in Requests, s # t,
                        InFlight(s)', InFlight(t)'
                 PROVE  request'[s].alone \cap Ips(t) = {}
      BY DEF AloneInv
    <3>1. CASE s = r
      BY <1>1, <3>1, BeginStep DEF InFlight
    <3>2. CASE t = r
      BY <1>1, <3>2, BeginStep
    <3>3. CASE s # r /\ t # r
      <4>1. InFlight(s) /\ InFlight(t) /\ request'[s].alone \subseteq request[s].alone
        BY <1>1, <3>3, BeginStep DEF InFlight
      <4> QED BY <4>1 DEF OwnRows, AloneInv
    <3> QED BY <3>1, <3>2, <3>3
  <2>3. TableLatest'
    <3> SUFFICES ASSUME NEW s \in Requests, request'[s].pc \in Committed,
                        NEW i \in 1..Len(request'[s].states),
                        Latest(s, i, Len(request'[s].states)),
                        Device(s, i).ip \in request'[s].alone
                 PROVE  table'[Row(s, i)] = request'[s].states[i]
      BY DEF TableLatest
    <3>1. s # r
      BY <1>1, BeginStep DEF Committed
    <3>2. /\ request[s].pc \in Committed /\ request'[s].states = request[s].states
          /\ Device(s, i).ip \in request[s].alone
      BY <1>1, <3>1, BeginStep
    <3> QED BY <2>1, <3>2 DEF OwnRows, TableLatest
  <2> QED BY <2>2, <2>3 DEF OwnRows
<1>2. ASSUME NEW r \in Requests, NEW q, RequestOf(r, q),
             request' = [request EXCEPT ![r] = q], UNCHANGED table,
             \/ /\ q.pc \in Handled => request[r].pc \in Handled
                /\ q.pc \in Committed =>
                     request[r].pc \in Committed /\ q.states = request[r].states
                /\ q.alone = request[r].alone
             \/ \E pc \in {"failed", "applied", "lost"} : q = Over(pc)
      PROVE  OwnRows'
  <2>1. request'[r] = q /\ \A t \in Requests : t # r => request'[t] = request[t]
    BY <1>2, RequestStep
  <2>2. ASSUME NEW s \in Requests PROVE GoesOn(s)
    <3>1. CASE s # r
      BY <2>1, <3>1, OverGoesOn
    <3>2. CASE s = r
      BY <1>2, <2>1, <3>2, OverGoesOn DEF GoesOn
    <3> QED BY <3>1, <3>2
  <2> QED BY <1>2, <2>2, GoOnKeep
<1>3. ASSUME NEW r \in Requests, SelectRow(r) \/ WriteRow(r) PROVE OwnRows'
  <2>1. UNCHANGED table /\ request[r].pc \in Handled
    BY <1>3 DEF SelectRow, WriteRow, At, Handled, database
  <2>2. PICK q : /\ RequestOf(r, q) /\ request' = [request EXCEPT ![r] = q]
                 /\ q.pc \in {"write", "select", "commit"}
                 /\ q.alone = request[r].alone
    BY <1>3, SelectStep, WriteStep
  <2> QED BY <1>2, <2>1, <2>2 DEF Handled, Committed
<1>4. ASSUME NEW r \in Requests, NoDiscovery(r) \/ Abort(r) PROVE OwnRows'
  <2>1. UNCHANGED table /\ request' = [request EXCEPT ![r] = Over("failed")]
    BY <1>4 DEF NoDiscovery, Abort, database
  <2> QED BY <1>2, <2>1, OverShape
<1>5. ASSUME NEW r \in Requests, ReadCredentials(r) \/ Offer(r) PROVE OwnRows'
  <2>1. UNCHANGED table /\ request[r].pc \in Committed
    BY <1>5 DEF ReadCredentials, Offer, At, Committed, database
  <2>2. PICK q : /\ RequestOf(r, q) /\ request' = [request EXCEPT ![r] = q]
                 /\ \/ q = Over("lost")
                    \/ /\ q.pc \in Committed /\ q.alone = request[r].alone
                       /\ q.states = request[r].states
    BY <1>5, CredentialsStep, OfferStep DEF Committed
  <2>3. q.pc \in Committed => q.pc \notin Handled
    BY DEF Committed, Handled
  <2> QED BY <1>2, <2>1, <2>2, <2>3
<1>6. ASSUME NEW r \in Requests, Commit(r) PROVE OwnRows'
  <2>1. PICK q : /\ RequestOf(r, q) /\ request' = [request EXCEPT ![r] = q]
                 /\ q.pc = "committed" /\ q.alone = request[r].alone
                 /\ q.states = request[r].states
    BY <1>6, CommitStep
  <2>2. request[r].pc = "commit" /\ table' = [w \in Rows |-> Seen(r, w)]
    BY <1>6, CommitStep
  <2>3. request'[r] = q /\ \A t \in Requests : t # r => request'[t] = request[t]
    BY <2>1, RequestStep
  <2>4. \A s \in Requests : /\ InFlight(s)' => InFlight(s)
                            /\ request'[s].alone = request[s].alone
                            /\ request'[s].states = request[s].states
    BY <2>1, <2>2, <2>3 DEF InFlight, Handled
  <2>5. AloneInv'
    BY <2>4 DEF OwnRows, AloneInv
  <2>6. RequestOf(r, request[r])
    BY DEF Shape, RequestsShape
  <2>7. TableLatest'
    <3> SUFFICES ASSUME NEW s \in Requests, request'[s].pc \in Committed,
                        NEW i \in 1..Len(request[s].states),
                        Latest(s, i, Len(request[s].states)),
                        Device(s, i).ip \in request[s].alone
                 PROVE  table'[Row(s, i)] = request[s].states[i]
      BY <2>4 DEF TableLatest
    <3>1. Progress(s, request[s]) /\ request[s] \in Record
      BY DEF Shape, RequestsShape, RequestOf
    <3>2. CASE s = r
      <4>1. i \in Indices(r) /\ Row(r, i) \in Rows
        BY <2>2, <3>1, <3>2, DevicesType DEF Progress
      <4>2. request[r].writes[Row(r, i)] = request[r].states[i]
        BY <2>2, <2>6, <3>2 DEF RequestOf, WritesLatest, Handled
      <4>3. request[r].states[i] \in {"off", "on"}
        BY <3>1, <3>2 DEF Record
      <4> QED BY <2>2, <3>2, <4>1, <4>2, <4>3 DEF Seen
    <3>3. CASE s # r
      <4>1. request[s].pc \in Committed /\ table[Row(s, i)] = request[s].states[i]
        BY <2>3, <3>3 DEF OwnRows, TableLatest
      <4>2. i \in Indices(s) /\ Row(s, i) \in Rows /\ Row(s, i)[1] = Device(s, i).ip
        BY <3>1, <4>1, DevicesType DEF Progress
      <4>3. InFlight(r) /\ InFlight(s)
        BY <2>2, <4>1 DEF InFlight, Handled
      <4>4. Device(s, i).ip \notin Ips(r)
        BY <3>3, <4>3 DEF OwnRows, AloneInv
      <4>5. request[r].writes[Row(s, i)] = "none"
        BY <2>6, <4>2, <4>4, DevicesType DEF RequestOf, WritesOwn
      <4> QED BY <2>2, <4>1, <4>2, <4>5 DEF Seen
    <3> QED BY <3>2, <3>3
  <2> QED BY <2>5, <2>7 DEF OwnRows
<1>7. ASSUME NEW D, BackendEnds(D), UNCHANGED table PROVE OwnRows'
  <2>1. \A r \in Requests : \/ request'[r] \in {Over("failed"), Over("lost")}
                            \/ request'[r] = request[r]
    BY <1>7, EndedShape DEF BackendEnds
  <2>2. \A r \in Requests : GoesOn(r)
    BY <2>1, OverGoesOn
  <2> QED BY <1>7, <2>2, GoOnKeep
<1>8. CASE SendDevicesFails
  <2>1. /\ sender.msg \in Requests
        /\ request' = [request EXCEPT ![sender.msg] = Over("lost")]
        /\ UNCHANGED table
    BY <1>8 DEF SendDevicesFails, Shape, SenderShape, database
  <2> QED BY <1>2, <2>1, OverShape
<1>9. CASE SetProvisionedDevices
  <2>1. /\ Head(toPoller) \in Requests
        /\ request' = [request EXCEPT ![Head(toPoller)] = Over("applied")]
        /\ UNCHANGED table
    BY <1>9, ChannelType DEF SetProvisionedDevices, Shape, WireShape, database
  <2> QED BY <1>2, <2>1, OverShape
<1>10. CASE PollerDies
  <2>1. \A r \in Requests : \/ request'[r] \in {Over("failed"), Over("lost")}
                            \/ request'[r] = request[r]
    BY <1>10, EndedShape DEF PollerDies
  <2>2. \A r \in Requests : GoesOn(r)
    BY <2>1, OverGoesOn
  <2>3. UNCHANGED table
    BY <1>10 DEF PollerDies, database
  <2> QED BY <2>2, <2>3, GoOnKeep
<1>11. ASSUME UNCHANGED <<table, request>> PROVE OwnRows'
  BY <1>11, OverGoesOn, GoOnKeep
<1>12. ASSUME \/ BackendShutdown \/ BackendDies
              \/ \E r \in Requests : OfferPanics(r)
       PROVE  \/ \E D : BackendEnds(D) /\ UNCHANGED table
              \/ UNCHANGED <<table, request>>
  BY <1>12 DEF BackendShutdown, BackendDies, OfferPanics, database
<1>13. ASSUME \/ TakeDevices \/ SendDevices \/ SenderStops \/ PollerStarts
              \/ UNCHANGED vars
       PROVE  UNCHANGED <<table, request>>
  BY <1>13
  DEF TakeDevices, SendDevices, SenderStops, PollerStarts, vars, database
<1> QED
  BY <1>1, <1>3, <1>4, <1>5, <1>6, <1>7, <1>8, <1>9, <1>10, <1>11, <1>12, <1>13
  DEF Next, HandlerStep, SenderStep

LEMMA OwnInit == Init => OwnRows
  BY NewRequestIs
  DEF Init, OwnRows, AloneInv, TableLatest, InFlight, Handled, Committed

LEMMA OwnHolds == Spec => []OwnRows
  BY OwnInit, OwnStep, ShapeHolds, PTL DEF Spec

-----------------------------------------------------------------------------
(* The registry agrees with the table.                                     *)

AgreesOn(a) ==
  /\ Polled(a) <=> table[settled[a]] = "on"
  /\ Polled(a) => \E e \in DOMAIN registry : e.row = settled[a]

\* Something committed for the address has not reached the registry.
Awaited(a) == \E r \in Requests : a \in Ips(r) /\ request[r].pc \in Committed

\* Stronger than SettledPolled: requests that have not committed do not matter.
SettledInv ==
  \A a \in AllIps : settled[a] # NoRow /\ ~Awaited(a) => AgreesOn(a)

\* A step that takes a message off its way without applying it unsettles its
\* addresses.
LEMMA SettledFrame ==
  ASSUME SettledInv, UNCHANGED <<table, registry>>,
         \A a \in AllIps : settled'[a] \in {NoRow, settled[a]},
         \A r \in Requests :
           request[r].pc \in Committed /\ request'[r].pc \notin Committed =>
             \A a \in Ips(r) : settled'[a] = NoRow
  PROVE  SettledInv'
<1> SUFFICES ASSUME NEW a \in AllIps, settled'[a] # NoRow, ~Awaited(a)'
             PROVE  AgreesOn(a)'
  BY DEF SettledInv
<1>1. settled'[a] = settled[a] /\ settled[a] # NoRow
  OBVIOUS
<1>2. ~Awaited(a)
  BY DEF Awaited
<1>3. AgreesOn(a)
  BY <1>1, <1>2 DEF SettledInv
<1>4. Polled(a)' <=> Polled(a)
  BY DEF Polled
<1> QED BY <1>1, <1>3, <1>4 DEF AgreesOn

\* A non-empty set of positions has a last one.
LEMMA LastExists ==
  ASSUME NEW n \in Nat, NEW K \in SUBSET (1..n), K # {}
  PROVE  \E i \in K : \A j \in K : j <= i
<1> DEFINE T == {n - i : i \in K}
<1>1. T \subseteq Nat /\ T # {}
  <2>1. \A i \in K : i \in 1..n /\ n - i \in Nat
    OBVIOUS
  <2> QED BY <2>1
<1>2. \E x \in T : \A y \in T : ~ (<<y, x>> \in OpToRel(<, Nat))
  BY <1>1, NatLessThanWellFounded, WFMin
<1>3. ASSUME NEW x \in Nat, NEW y \in Nat, y < x
      PROVE  <<y, x>> \in OpToRel(<, Nat)
  BY <1>3 DEF OpToRel
<1> HIDE DEF T
<1>4. \E x \in T : \A y \in T : ~ (y < x)
  BY <1>1, <1>2, <1>3, Zenon
<1>5. PICK i \in K : \A y \in T : ~ (y < n - i)
  BY <1>4 DEF T
<1>6. ASSUME NEW j \in K PROVE j <= i
  <2>1. n - j \in T /\ j \in Int /\ i \in Int
    BY DEF T
  <2>2. ~ (n - j < n - i)
    BY <1>5, <2>1
  <2> QED BY <2>1, <2>2
<1> QED BY <1>5, <1>6

\* In the message of a request, the last of the devices with an address.
LEMMA LastOfIs ==
  ASSUME Shape, NEW r \in Requests,
         NEW a \in {Device(r, i).ip : i \in request[r].kept}
  PROVE  /\ LastOf(r, a) \in request[r].kept
         /\ Device(r, LastOf(r, a)).ip = a
         /\ \A j \in request[r].kept : Device(r, j).ip = a => j <= LastOf(r, a)
<1> DEFINE K == {i \in request[r].kept : Device(r, i).ip = a}
           n == Len(request[r].states)
<1>1. request[r].kept \subseteq 1..n /\ n \in Nat
  BY DEF Shape, RequestsShape, RequestOf, Progress, Record
<1>2. K \in SUBSET (1..n) /\ K # {}
  BY <1>1
<1> HIDE DEF n
<1>3. \E i \in K : \A j \in K : j <= i
  BY <1>1, <1>2, LastExists
<1>4. \E i \in request[r].kept :
        /\ Device(r, i).ip = a
        /\ \A j \in request[r].kept : Device(r, j).ip = a => j <= i
  BY <1>3
<1> QED BY <1>4 DEF LastOf

\* The message has one device for each of its addresses, the last.
LEMMA NewDevices ==
  ASSUME Shape, NEW r \in Requests, request[r].pc \in Committed
  PROVE  /\ \A d \in NewDeviceMap(r) : d.row[1] \in Ips(r)
         /\ \A a \in {Device(r, i).ip : i \in request[r].kept} :
              LET l == LastOf(r, a)
              IN  /\ \E d \in NewDeviceMap(r) :
                       /\ d.row = Row(r, l)
                       /\ d.on = (request[r].states[l] = "on")
                  /\ \A d \in NewDeviceMap(r) : d.row[1] = a =>
                       /\ d.row = Row(r, l)
                       /\ d.on = (request[r].states[l] = "on")
<1> DEFINE A == {Device(r, i).ip : i \in request[r].kept}
           dev(i) == [row |-> Row(r, i), credential |-> Device(r, i).credential,
                      on |-> request[r].states[i] = "on"]
<1>1. request[r].kept \subseteq Indices(r)
  BY DevicesType DEF Shape, RequestsShape, RequestOf, Progress
<1>2. NewDeviceMap(r) = {dev(LastOf(r, a)) : a \in A}
  BY DEF NewDeviceMap
<1>3. \A i : dev(i).row = Row(r, i) /\ dev(i).on = (request[r].states[i] = "on")
  OBVIOUS
<1>4. ASSUME NEW a \in A
      PROVE  LastOf(r, a) \in Indices(r) /\ Row(r, LastOf(r, a))[1] = a /\ a \in Ips(r)
  BY <1>1, LastOfIs, DevicesType
<1> HIDE DEF dev, A
<1>5. ASSUME NEW d \in NewDeviceMap(r)
      PROVE  \E a \in A : d = dev(LastOf(r, a)) /\ d.row[1] = a /\ a \in Ips(r)
  BY <1>2, <1>3, <1>4
<1>6. ASSUME NEW a \in A, NEW d \in NewDeviceMap(r), d.row[1] = a
      PROVE  d = dev(LastOf(r, a))
  BY <1>5, <1>6
<1>7. ASSUME NEW a \in A PROVE dev(LastOf(r, a)) \in NewDeviceMap(r)
  BY <1>2
<1> QED BY <1>3, <1>5, <1>6, <1>7 DEF A

LEMMA AppliedAgrees ==
  ASSUME Shape, WayInv, OwnRows, SettledInv, SetProvisionedDevices
  PROVE  SettledInv'
<1> DEFINE r == Head(toPoller)
<1>1. /\ registry' = Updated(r) /\ settled' = Settled(r)
      /\ request' = [request EXCEPT ![r] = Over("applied")]
      /\ toPoller # <<>> /\ UNCHANGED table
  BY DEF SetProvisionedDevices, database
<1>2. r \in Elems(toPoller) /\ r \in Requests
  BY <1>1, DistinctChannels DEF WayInv, Shape, WireShape
<1>3. request[r].pc \in Committed
  BY <1>2 DEF WayInv, Committed
<1> HIDE DEF r
<1>4. \A s \in Requests : s # r => request'[s] = request[s]
  BY <1>1, <1>2 DEF Shape, RequestsShape
<1>5. DOMAIN registry' =
        {e \in DOMAIN registry : \A d \in NewDeviceMap(r) :
                                   d.row[1] = e.row[1] => d.on}
        \cup {[row |-> d.row, credential |-> d.credential] :
                d \in {n \in NewDeviceMap(r) : n.on}}
  BY <1>1, <1>2, UpdatedBag
<1> SUFFICES ASSUME NEW a \in AllIps, settled'[a] # NoRow, ~Awaited(a)'
             PROVE  AgreesOn(a)'
  BY DEF SettledInv
<1>6. CASE a \notin Ips(r)
  <2>1. settled'[a] = settled[a]
    BY <1>1, <1>6 DEF Settled
  <2>2. ~Awaited(a)
    BY <1>4, <1>6 DEF Awaited
  <2>3. AgreesOn(a)
    BY <2>1, <2>2 DEF SettledInv
  <2>4. \A d \in NewDeviceMap(r) : d.row[1] # a
    BY <1>2, <1>3, <1>6, NewDevices
  <2>5. \A e : e.row[1] = a => (e \in DOMAIN registry' <=> e \in DOMAIN registry)
    BY <1>5, <2>4
  <2>6. Polled(a)' <=> Polled(a)
    BY <2>5 DEF Polled
  <2>7. settled[a][1] = a
    BY <2>1 DEF Shape, SettledShape
  <2>8. \A e : e.row = settled[a] => e.row[1] = a
    BY <2>7
  <2> QED BY <1>1, <2>1, <2>3, <2>5, <2>6, <2>8 DEF AgreesOn
<1>7. CASE a \in Ips(r)
  <2> DEFINE l == LastOf(r, a)
             n == Len(request[r].states)
  <2>1. /\ settled'[a] = <<a, Discovery[r]>> /\ a \in request[r].alone
        /\ \A i \in Indices(r) : Device(r, i).ip = a => i \in request[r].kept
    BY <1>1, <1>7 DEF Settled
  <2>2. PICK k \in Indices(r) : Device(r, k).ip = a
    BY <1>7 DEF Ips
  <2>3. a \in {Device(r, i).ip : i \in request[r].kept}
    BY <2>1, <2>2
  <2>4. /\ l \in request[r].kept /\ Device(r, l).ip = a
        /\ \A j \in request[r].kept : Device(r, j).ip = a => j <= l
    BY <1>2, <2>3, LastOfIs
  <2>5. Indices(r) = 1..n /\ n \in Nat /\ l \in 1..n
    BY <1>2, <1>3, <2>4, DevicesType DEF Shape, RequestsShape, RequestOf, Progress
  <2>6. /\ \E d \in NewDeviceMap(r) :
             d.row = Row(r, l) /\ d.on = (request[r].states[l] = "on")
        /\ \A d \in NewDeviceMap(r) : d.row[1] = a =>
             d.row = Row(r, l) /\ d.on = (request[r].states[l] = "on")
    BY <1>2, <1>3, <2>3, NewDevices
  <2> HIDE DEF l, n
  <2>7. Latest(r, l, n)
    <3> SUFFICES ASSUME NEW j \in (l + 1)..n, Device(r, j).ip = Device(r, l).ip
                 PROVE  FALSE
      BY DEF Latest
    <3>1. j \in Indices(r) /\ ~ (j <= l)
      BY <2>5
    <3> QED BY <2>1, <2>4, <3>1
  <2>8. table[Row(r, l)] = request[r].states[l]
    BY <1>2, <1>3, <2>1, <2>4, <2>5, <2>7 DEF OwnRows, TableLatest, n
  <2>9. Row(r, l) = settled'[a] /\ settled'[a][1] = a
    BY <2>1, <2>4 DEF Row
  <2>10. CASE request[r].states[l] = "on"
    <3>1. \E e \in DOMAIN registry' : e.row = settled'[a]
      <4>1. PICK d \in NewDeviceMap(r) : d.row = Row(r, l) /\ d.on
        BY <2>6, <2>10
      <4>2. [row |-> d.row, credential |-> d.credential] \in DOMAIN registry'
        BY <1>5, <4>1
      <4> QED BY <2>9, <4>1, <4>2
    <3>2. \E e \in DOMAIN registry' : e.row[1] = a
      BY <2>9, <3>1
    <3> QED BY <1>1, <2>8, <2>9, <2>10, <3>1, <3>2 DEF AgreesOn, Polled
  <2>11. CASE request[r].states[l] # "on"
    <3>1. \A d \in NewDeviceMap(r) : d.row[1] = a => ~d.on
      BY <2>6, <2>11
    <3>2. \E d \in NewDeviceMap(r) : d.row[1] = a /\ ~d.on
      BY <2>6, <2>9, <2>11
    <3>3. \A e \in DOMAIN registry' : e.row[1] # a
      BY <1>5, <3>1, <3>2
    <3> QED BY <1>1, <2>8, <2>9, <2>11, <3>3 DEF AgreesOn, Polled
  <2> QED BY <2>10, <2>11
<1> QED BY <1>6, <1>7

\* A commit touches only rows whose address then waits for its message.
LEMMA CommitAgrees ==
  ASSUME Shape, SettledInv, NEW r \in Requests, Commit(r)
  PROVE  SettledInv'
<1>1. PICK q : /\ RequestOf(r, q) /\ request' = [request EXCEPT ![r] = q]
               /\ q.pc = "committed"
  BY CommitStep
<1>2. /\ request[r].pc = "commit" /\ table' = [w \in Rows |-> Seen(r, w)]
      /\ UNCHANGED <<registry, settled>>
  BY CommitStep DEF Commit, poller
<1>3. request'[r] = q /\ \A t \in Requests : t # r => request'[t] = request[t]
  BY <1>1, RequestStep
<1> SUFFICES ASSUME NEW a \in AllIps, settled'[a] # NoRow, ~Awaited(a)'
             PROVE  AgreesOn(a)'
  BY DEF SettledInv
<1>4. a \notin Ips(r)
  BY <1>1, <1>3 DEF Awaited, Committed
<1>5. ~Awaited(a)
  BY <1>3, <1>4 DEF Awaited
<1>6. AgreesOn(a)
  BY <1>2, <1>5 DEF SettledInv
<1>7. settled[a] \in Rows /\ settled[a][1] = a
  BY <1>2 DEF Shape, SettledShape
<1>8. request[r].writes[settled[a]] = "none"
  BY <1>4, <1>7, DevicesType DEF Shape, RequestsShape, RequestOf, WritesOwn
<1>9. table'[settled[a]] = table[settled[a]]
  BY <1>2, <1>7, <1>8 DEF Seen
<1> QED BY <1>2, <1>6, <1>9 DEF AgreesOn, Polled

LEMMA EndsAgrees ==
  ASSUME Shape, SettledInv, NEW D, BackendEnds(D), UNCHANGED <<table, registry>>
  PROVE  SettledInv'
<1>1. /\ request' = [r \in Requests |-> Ended(r, D)]
      /\ settled' = Unsettled(UNION {Ips(r) : r \in {s \in Requests :
                      request[s].pc \in Committed /\ s \notin D}})
  BY DEF BackendEnds
<1>2. \A a \in AllIps : settled'[a] \in {NoRow, settled[a]}
  BY <1>1 DEF Unsettled
<1>3. ASSUME NEW r \in Requests,
             request[r].pc \in Committed, request'[r].pc \notin Committed,
             NEW a \in Ips(r)
      PROVE  settled'[a] = NoRow
  <2>1. r \notin D
    <3> SUFFICES ASSUME r \in D PROVE FALSE
      OBVIOUS
    <3>1. request[r].pc \notin Handled
      BY <1>3 DEF Committed, Handled
    <3>2. Ended(r, D) = request[r]
      BY <3>1 DEF Ended
    <3> QED BY <1>1, <1>3, <3>2
  <2>2. a \in AllIps
    BY DevicesType
  <2> QED BY <1>1, <1>3, <2>1, <2>2 DEF Unsettled
<1> QED BY <1>2, <1>3, SettledFrame

\* The devices that sendToPoller leaves out are unsettled.
LEMMA CredentialsAgree ==
  ASSUME Shape, SettledInv, NEW r \in Requests, ReadCredentials(r)
  PROVE  SettledInv'
<1>0. PICK kept \in SUBSET (1..Len(request[r].states)) : \E q :
        /\ settled' = Unsettled({Device(r, i).ip : i \in Indices(r) \ kept})
        /\ RequestOf(r, q) /\ request' = [request EXCEPT ![r] = q]
        /\ (kept = {} /\ q = Over("lost")) \/ q.pc = "offering"
  BY CredentialsStep
<1>1. PICK q :
        /\ settled' = Unsettled({Device(r, i).ip : i \in Indices(r) \ kept})
        /\ RequestOf(r, q) /\ request' = [request EXCEPT ![r] = q]
        /\ (kept = {} /\ q = Over("lost")) \/ q.pc = "offering"
  BY <1>0
<1>2. request'[r] = q /\ \A t \in Requests : t # r => request'[t] = request[t]
  BY <1>1, RequestStep
<1>3. UNCHANGED <<table, registry>>
  BY DEF ReadCredentials, database, poller
<1>4. \A a \in AllIps : settled'[a] \in {NoRow, settled[a]}
  BY <1>1 DEF Unsettled
<1>5. ASSUME NEW s \in Requests,
             request[s].pc \in Committed, request'[s].pc \notin Committed,
             NEW a \in Ips(s)
      PROVE  settled'[a] = NoRow
  <2>1. s = r /\ kept = {}
    BY <1>1, <1>2, <1>5 DEF Committed
  <2>2. a \in AllIps /\ a \in {Device(r, i).ip : i \in Indices(r) \ kept}
    BY <2>1, DevicesType DEF Ips
  <2> QED BY <1>1, <2>2 DEF Unsettled
<1> QED BY <1>3, <1>4, <1>5, SettledFrame

LEMMA SettledStep ==
  Shape /\ WayInv /\ OwnRows /\ SettledInv /\ [Next]_vars => SettledInv'
<1> SUFFICES ASSUME Shape, WayInv, OwnRows, SettledInv, [Next]_vars
             PROVE  SettledInv'
  OBVIOUS
<1>1. ASSUME UNCHANGED <<table, registry, settled>>,
             \A r \in Requests :
               request[r].pc \in Committed => request'[r].pc \in Committed
      PROVE  SettledInv'
  BY <1>1, SettledFrame
<1>2. ASSUME NEW r \in Requests, Begin(r) PROVE SettledInv'
  <2>1. request'[r].pc = "select" /\ request[r].pc = "new"
        /\ \A s \in Requests : s # r => request'[s].pc = request[s].pc
    BY <1>2, BeginStep
  <2> QED BY <1>1, <1>2, <2>1 DEF Begin, database, poller, Committed
<1>3. ASSUME NEW r \in Requests,
             \/ NoDiscovery(r) \/ SelectRow(r) \/ WriteRow(r) \/ Abort(r)
             \/ Offer(r)
      PROVE  SettledInv'
  <2>1. UNCHANGED <<table, registry, settled>>
    BY <1>3
    DEF NoDiscovery, SelectRow, WriteRow, Abort, Offer, database, poller
  <2>2. \E q : /\ request' = [request EXCEPT ![r] = q]
               /\ request[r].pc \in Committed => q.pc \in Committed
    <3>1. CASE NoDiscovery(r) \/ Abort(r)
      BY <3>1 DEF NoDiscovery, Abort, MayFail, At, Committed, Handled
    <3>2. CASE SelectRow(r) \/ WriteRow(r)
      <4>1. request[r].pc \notin Committed
        BY <3>2 DEF SelectRow, WriteRow, At, Committed
      <4> QED BY <3>2, <4>1, SelectStep, WriteStep
    <3>3. CASE Offer(r)
      BY <3>3, OfferStep DEF Committed
    <3> QED BY <1>3, <3>1, <3>2, <3>3
  <2>3. \A s \in Requests :
          request[s].pc \in Committed => request'[s].pc \in Committed
    BY <2>2 DEF Shape, RequestsShape
  <2> QED BY <1>1, <2>1, <2>3
<1>4. ASSUME \/ BackendShutdown \/ BackendDies
             \/ \E r \in Requests : OfferPanics(r)
      PROVE  \/ \E D : BackendEnds(D) /\ UNCHANGED <<table, registry>>
             \/ UNCHANGED <<table, registry, settled, request>>
  BY <1>4 DEF BackendShutdown, BackendDies, OfferPanics, database, poller
<1>5. CASE SendDevicesFails
  <2> DEFINE r == sender.msg
  <2>1. /\ r \in Requests /\ request' = [request EXCEPT ![r] = Over("lost")]
        /\ settled' = Unsettled(Ips(r)) /\ UNCHANGED <<table, registry>>
    BY <1>5 DEF SendDevicesFails, Shape, SenderShape, database, poller
  <2> HIDE DEF r
  <2>2. \A s \in Requests : s # r => request'[s] = request[s]
    BY <2>1 DEF Shape, RequestsShape
  <2>3. \A a \in AllIps : settled'[a] \in {NoRow, settled[a]}
    BY <2>1 DEF Unsettled
  <2>4. \A a \in Ips(r) : settled'[a] = NoRow
    BY <2>1, DevicesType DEF Unsettled
  <2> QED BY <2>1, <2>2, <2>3, <2>4, SettledFrame
<1>6. CASE PollerDies
  <2>1. settled' = [a \in AllIps |-> NoRow]
    BY <1>6 DEF PollerDies
  <2> QED BY <2>1 DEF SettledInv
<1>7. ASSUME \/ TakeDevices \/ SendDevices \/ SenderStops \/ PollerStarts
             \/ UNCHANGED vars
      PROVE  UNCHANGED <<table, registry, settled, request>>
  BY <1>7
  DEF TakeDevices, SendDevices, SenderStops, PollerStarts, vars, database, poller
<1> QED
  BY <1>1, <1>2, <1>3, <1>4, <1>5, <1>6, <1>7, CommitAgrees, CredentialsAgree,
     EndsAgrees, AppliedAgrees
  DEF Next, HandlerStep, SenderStep

LEMMA SettledInit == Init => SettledInv
  BY DEF Init, SettledInv

\* For any overlapping requests, lost messages and deaths: once a request has
\* had an address for itself and its message was applied, the poller polls the
\* address if and only if the row of that request says so, and as that row's
\* object, for as long as the history calls it settled and no request that
\* names it is in flight.
THEOREM SettledPolledCorrect == Spec => []SettledPolled
<1>1. SettledInv => SettledPolled
  BY DEF SettledInv, SettledPolled, AgreesOn, Awaited, Quiet, InFlight
<1> QED
  BY <1>1, SettledInit, SettledStep, ShapeHolds, WayHolds, OwnHolds, PTL
  DEF Spec


-----------------------------------------------------------------------------
(* What was queued is on its way, and is not lost without a cause.         *)

Way == Elems(deviceChannel) \cup InHand \cup Elems(toPoller)
OnWay == \A r \in Requests : request[r].pc = "queued" => r \in Way

LEMMA OnWayIs == OnWay <=> QueuedOnItsWay
<1>1. InDeviceChannel = Elems(deviceChannel)
  BY DEF InDeviceChannel, Elems
<1>2. \A r : r \in InHand <=> sender.pc = "send" /\ sender.msg = r
  BY DEF InHand
<1> QED BY <1>1, <1>2, SentIs DEF OnWay, Way, QueuedOnItsWay

\* A step that takes nothing off the way and queues nothing.
LEMMA OnWayFrame ==
  ASSUME OnWay, UNCHANGED <<deviceChannel, sender, toPoller>>,
         \A r \in Requests : request'[r].pc = "queued" => request[r].pc = "queued"
  PROVE  OnWay'
  BY DEF OnWay, Way, InHand

\* Of a backend that ends only what is at the poller's wire stays queued.
LEMMA EndsOnWay ==
  ASSUME NEW D, BackendEnds(D), D \subseteq Elems(toPoller')
  PROVE  OnWay'
<1>1. request' = [r \in Requests |-> Ended(r, D)]
  BY DEF BackendEnds
<1>2. ASSUME NEW r \in Requests, request'[r].pc = "queued" PROVE r \in D
  <2>1. Ended(r, D).pc = "queued"
    BY <1>1, <1>2
  <2>2. Over("failed").pc = "failed" /\ Over("lost").pc = "lost"
    BY DEF Over, NewRequest
  <2> QED BY <2>1, <2>2 DEF Ended, Handled, Committed
<1> QED BY <1>2 DEF OnWay, Way

LEMMA OnWayStep == Shape /\ WayInv /\ OnWay /\ [Next]_vars => OnWay'
<1> SUFFICES ASSUME Shape, WayInv, OnWay, [Next]_vars PROVE OnWay'
  OBVIOUS
<1>1. \A r \in Requests : Begin(r) => OnWay'
  <2> SUFFICES ASSUME NEW r \in Requests, Begin(r) PROVE OnWay'
    OBVIOUS
  <2>1. \A s \in Requests : request'[s].pc = "queued" => request[s].pc = "queued"
    BY BeginStep
  <2> QED BY <2>1, OnWayFrame DEF Begin, backend, poller
<1>2. ASSUME NEW r \in Requests,
             \/ NoDiscovery(r) \/ SelectRow(r) \/ WriteRow(r) \/ Abort(r)
             \/ Commit(r) \/ ReadCredentials(r)
      PROVE  OnWay'
  <2>1. UNCHANGED <<deviceChannel, sender, toPoller>>
    BY <1>2
    DEF NoDiscovery, SelectRow, WriteRow, Abort, Commit, ReadCredentials,
        backend, poller
  <2>2. \E q : request' = [request EXCEPT ![r] = q] /\ q.pc # "queued"
    <3>1. \A pc \in {"failed", "lost"} : Over(pc).pc = pc
      BY DEF Over, NewRequest
    <3>2. CASE SelectRow(r) \/ WriteRow(r) \/ Commit(r)
      BY <3>2, SelectStep, WriteStep, CommitStep
    <3>3. CASE ReadCredentials(r)
      BY <3>1, <3>3, CredentialsStep
    <3>4. CASE NoDiscovery(r) \/ Abort(r)
      BY <3>1, <3>4 DEF NoDiscovery, Abort
    <3> QED BY <1>2, <3>2, <3>3, <3>4
  <2>3. \A s \in Requests : request'[s].pc = "queued" => request[s].pc = "queued"
    BY <2>2 DEF Shape, RequestsShape
  <2> QED BY <2>1, <2>3, OnWayFrame
<1>3. ASSUME NEW r \in Requests, Offer(r) PROVE OnWay'
  <2>1. /\ deviceChannel' = Append(deviceChannel, r)
        /\ UNCHANGED <<sender, toPoller>>
    BY <1>3 DEF Offer, poller
  <2>2. \A s \in Requests : s # r => request'[s] = request[s]
    BY <1>3, OfferStep, RequestStep
  <2>3. Way' = Way \cup {r}
    <3>1. Elems(deviceChannel') = Elems(deviceChannel) \cup {r}
      BY <2>1, DistinctChannels DEF WayInv, Shape, ChannelShape
    <3> QED BY <2>1, <3>1 DEF Way, InHand
  <2> QED BY <2>2, <2>3 DEF OnWay
<1>4. ASSUME NEW r \in Requests, OfferPanics(r) PROVE OnWay'
  BY <1>4, EndsOnWay, SentIs DEF OfferPanics, poller
<1>5. CASE TakeDevices
  <2>1. Way' = Way /\ request' = request
    <3> DEFINE r == Head(deviceChannel)
    <3>1. /\ sender.pc = "select" /\ deviceChannel # <<>>
          /\ sender' = [pc |-> "send", msg |-> r]
          /\ deviceChannel' = Tail(deviceChannel)
          /\ UNCHANGED <<request, toPoller>>
      BY <1>5 DEF TakeDevices, poller
    <3>2. /\ r \in Elems(deviceChannel)
          /\ Elems(deviceChannel') = Elems(deviceChannel) \ {r}
      BY <3>1, DistinctChannels DEF WayInv, Shape, ChannelShape
    <3> HIDE DEF r
    <3>3. InHand = {} /\ InHand' = {r}
      BY <3>1 DEF InHand
    <3> QED BY <3>1, <3>2, <3>3 DEF Way
  <2> QED BY <2>1 DEF OnWay
<1>6. CASE SendDevices
  <2>1. Way' = Way /\ request' = request
    <3> DEFINE r == sender.msg
    <3>1. /\ sender.pc = "send" /\ sender'.pc = "select"
          /\ toPoller' = Append(toPoller, r)
          /\ UNCHANGED <<request, deviceChannel>>
      BY <1>6 DEF SendDevices
    <3>2. InHand = {r} /\ InHand' = {} /\ r \in Requests
      BY <3>1 DEF InHand, Shape, SenderShape
    <3> HIDE DEF r
    <3>3. Elems(toPoller') = Elems(toPoller) \cup {r}
      BY <3>1, <3>2, DistinctChannels DEF WayInv, Shape, WireShape
    <3> QED BY <3>1, <3>2, <3>3 DEF Way
  <2> QED BY <2>1 DEF OnWay
<1>7. CASE SendDevicesFails
  <2> DEFINE r == sender.msg
  <2>1. /\ sender.pc = "send" /\ sender'.pc = "select"
        /\ request' = [request EXCEPT ![r] = Over("lost")]
        /\ UNCHANGED <<toPoller, deviceChannel>>
    BY <1>7 DEF SendDevicesFails, poller
  <2>2. InHand = {r} /\ r \in Requests /\ Over("lost").pc = "lost"
    BY <2>1 DEF InHand, Shape, SenderShape, Over, NewRequest
  <2> HIDE DEF r
  <2>3. /\ \A s \in Requests : s # r => request'[s] = request[s]
        /\ request'[r].pc # "queued"
    BY <2>1, <2>2 DEF Shape, RequestsShape
  <2> QED BY <2>1, <2>2, <2>3 DEF OnWay, Way
<1>8. CASE SenderStops
  <2>1. Way' = Way /\ request' = request
    BY <1>8 DEF SenderStops, poller, Shape, SenderShape, Way, InHand
  <2> QED BY <2>1 DEF OnWay
<1>9. CASE BackendShutdown
  BY <1>9, EndsOnWay, OnWayFrame, SentIs DEF BackendShutdown, poller
<1>10. CASE BackendDies
  <2>1. PICK n \in 0..Len(toPoller) :
          /\ toPoller' = SubSeq(toPoller, 1, n)
          /\ BackendEnds({toPoller[j] : j \in 1..n})
    BY <1>10 DEF BackendDies
  <2>2. Elems(toPoller') = {toPoller[j] : j \in 1..n}
    BY <2>1, DistinctChannels DEF WayInv, Shape, WireShape
  <2> QED BY <2>1, <2>2, EndsOnWay
<1>11. CASE SetProvisionedDevices
  <2> DEFINE r == Head(toPoller)
  <2>1. /\ toPoller # <<>> /\ toPoller' = Tail(toPoller)
        /\ request' = [request EXCEPT ![r] = Over("applied")]
        /\ UNCHANGED <<deviceChannel, sender>>
    BY <1>11 DEF SetProvisionedDevices, backend
  <2>2. /\ r \in Elems(toPoller) /\ r \in Requests
        /\ Elems(toPoller') = Elems(toPoller) \ {r}
    BY <2>1, DistinctChannels DEF WayInv, Shape, WireShape
  <2> HIDE DEF r
  <2>3. /\ \A s \in Requests : s # r => request'[s] = request[s]
        /\ request'[r].pc # "queued"
    BY <2>1, <2>2 DEF Shape, RequestsShape, Over, NewRequest
  <2>4. InHand' = InHand
    BY <2>1 DEF InHand
  <2> QED BY <2>1, <2>2, <2>3, <2>4 DEF OnWay, Way
<1>12. CASE PollerDies
  <2>1. PICK n \in 0..Len(toPoller) :
          /\ toPoller' = SubSeq(toPoller, n + 1, Len(toPoller))
          /\ request' = [r \in Requests |->
                           IF r \in {toPoller[j] : j \in 1..n}
                           THEN Over("lost") ELSE request[r]]
    BY <1>12 DEF PollerDies
  <2>2. UNCHANGED <<deviceChannel, sender>>
    BY <1>12 DEF PollerDies, backend
  <2>3. Over("lost").pc = "lost"
    BY DEF Over, NewRequest
  <2>4. ASSUME NEW s \in Requests, request'[s].pc = "queued"
        PROVE  request[s].pc = "queued" /\ s \notin {toPoller[j] : j \in 1..n}
    BY <2>1, <2>3, <2>4
  <2>5. Elems(toPoller) \subseteq {toPoller[j] : j \in 1..n} \cup Elems(toPoller')
    <3> DEFINE t == SubSeq(toPoller, n + 1, Len(toPoller))
    <3>1. /\ Len(toPoller) \in Nat /\ Len(t) = Len(toPoller) - n
          /\ \A i \in 1..Len(t) : t[i] = toPoller[n + i]
      BY DEF Shape, WireShape
    <3> HIDE DEF t
    <3>2. \A j \in 1..Len(toPoller) : j \in 1..n \/ j - n \in 1..Len(t)
      BY <3>1
    <3>3. \A j \in 1..Len(toPoller) :
            j - n \in 1..Len(t) => t[j - n] = toPoller[j]
      BY <3>1
    <3>4. t = toPoller'
      BY <2>1 DEF t
    <3> QED BY <3>2, <3>3, <3>4 DEF Elems
  <2> QED BY <2>2, <2>4, <2>5 DEF OnWay, Way, InHand
<1>13. CASE PollerStarts \/ UNCHANGED vars
  BY <1>13, OnWayFrame DEF PollerStarts, vars, backend, poller
<1> QED
  BY <1>1, <1>2, <1>3, <1>4, <1>5, <1>6, <1>7, <1>8, <1>9, <1>10, <1>11, <1>12,
     <1>13
  DEF Next, HandlerStep, SenderStep

LEMMA OnWayInit == Init => OnWay
  BY DEF Init, OnWay, NewRequest

\* What sendToPoller has put on deviceChannel is on its way until the registry
\* has it or it is known to be lost, whatever either process does meanwhile.
THEOREM QueuedOnItsWayCorrect == Spec => []QueuedOnItsWay
  BY OnWayInit, OnWayStep, OnWayIs, ShapeHolds, WayHolds, PTL DEF Spec

\* pollingSender, which closes deviceChannel, stops only in a shutdown.
StopInv ==
  /\ sender.pc = "stopped" => phase # "up"
  /\ faults \in Nat

LEMMA StopStep == Shape /\ StopInv /\ [Next]_vars => StopInv'
<1> SUFFICES ASSUME Shape, StopInv, [Next]_vars PROVE StopInv'
  OBVIOUS
<1>1. ASSUME NEW r \in Requests,
             \/ Begin(r) \/ NoDiscovery(r) \/ SelectRow(r) \/ WriteRow(r)
             \/ Abort(r) \/ Commit(r) \/ ReadCredentials(r) \/ Offer(r)
      PROVE  StopInv'
  <2>1. sender'.pc = "stopped" => sender.pc = "stopped" /\ phase' = phase
    BY <1>1
    DEF Begin, NoDiscovery, SelectRow, WriteRow, Abort, Commit,
        ReadCredentials, Offer, backend
  <2>2. CASE ReadCredentials(r)
    BY <2>1, <2>2 DEF ReadCredentials, StopInv
  <2>3. CASE ~ReadCredentials(r)
    <3>1. faults' \in {faults, faults + 1}
      BY <1>1, <2>3
      DEF Begin, NoDiscovery, SelectRow, WriteRow, Abort, MayFail, Commit, Offer
    <3> QED BY <2>1, <3>1 DEF StopInv
  <2> QED BY <2>2, <2>3
<1>2. ASSUME NEW r \in Requests, OfferPanics(r) PROVE StopInv'
  BY <1>2 DEF OfferPanics, StopInv
<1>3. CASE SenderStep
  BY <1>3
  DEF SenderStep, TakeDevices, SendDevices, SendDevicesFails, SenderStops,
      database, Shape, SenderShape, StopInv
<1>4. CASE BackendShutdown
  BY <1>4 DEF BackendShutdown, StopInv
<1>5. CASE BackendDies
  BY <1>5 DEF BackendDies, BackendEnds, StopInv
<1>6. CASE SetProvisionedDevices \/ PollerDies \/ PollerStarts \/ UNCHANGED vars
  BY <1>6
  DEF SetProvisionedDevices, PollerDies, PollerStarts, vars, backend, StopInv
<1> QED
  BY <1>1, <1>2, <1>3, <1>4, <1>5, <1>6 DEF Next, HandlerStep

LEMMA StopHolds == Spec => []StopInv
<1>1. Init => StopInv
  BY DEF Init, StopInv
<1> QED BY <1>1, StopStep, ShapeHolds, PTL DEF Spec

LEMMA LossStep == Shape /\ StopInv /\ [Next]_vars => LossNeedsCause
<1> SUFFICES ASSUME Shape, StopInv, [Next]_vars,
                    NEW s \in Requests, request[s].pc \in {"offering", "queued"}
             PROVE  \/ request'[s].pc \in {"offering", "queued", "applied"}
                    \/ phase # "up" \/ faults' > faults
  BY DEF LossNeedsCause
<1>1. ASSUME NEW r \in Requests, Begin(r)
      PROVE  request'[s].pc \in {"offering", "queued", "applied"}
  <2>1. s # r
    BY <1>1, BeginStep
  <2> QED BY <1>1, <2>1, BeginStep
<1>2. ASSUME NEW r \in Requests,
             \/ NoDiscovery(r) \/ SelectRow(r) \/ WriteRow(r) \/ Abort(r)
             \/ Commit(r) \/ ReadCredentials(r)
      PROVE  request'[s] = request[s]
  <2>1. s # r
    BY <1>2
    DEF NoDiscovery, SelectRow, WriteRow, Abort, Commit, ReadCredentials, At,
        MayFail, Handled
  <2>2. \E q : request' = [request EXCEPT ![r] = q]
    <3>1. CASE SelectRow(r) \/ WriteRow(r) \/ Commit(r)
      BY <3>1, SelectStep, WriteStep, CommitStep
    <3>2. CASE ReadCredentials(r)
      BY <3>2, CredentialsStep
    <3>3. CASE NoDiscovery(r) \/ Abort(r)
      BY <3>3 DEF NoDiscovery, Abort
    <3> QED BY <1>2, <3>1, <3>2, <3>3
  <2> QED BY <2>1, <2>2 DEF Shape, RequestsShape
<1>3. ASSUME NEW r \in Requests, Offer(r)
      PROVE  request'[s].pc \in {"offering", "queued", "applied"}
  BY <1>3, OfferStep, RequestStep
<1>4. ASSUME NEW r \in Requests, OfferPanics(r) PROVE phase # "up"
  BY <1>4 DEF OfferPanics, StopInv
<1>5. CASE TakeDevices \/ SendDevices \/ SenderStops
  BY <1>5 DEF TakeDevices, SendDevices, SenderStops
<1>6. CASE SendDevicesFails
  BY <1>6 DEF SendDevicesFails
<1>7. CASE BackendShutdown
  BY <1>7 DEF BackendShutdown
<1>8. CASE BackendDies \/ PollerDies
  BY <1>8 DEF BackendDies, PollerDies, StopInv
<1>9. CASE SetProvisionedDevices
  <2> DEFINE r == Head(toPoller)
  <2>1. request' = [request EXCEPT ![r] = Over("applied")]
    BY <1>9 DEF SetProvisionedDevices
  <2> HIDE DEF r
  <2>2. Over("applied").pc = "applied"
    BY DEF Over, NewRequest
  <2> QED BY <2>1, <2>2 DEF Shape, RequestsShape
<1>10. CASE PollerStarts \/ UNCHANGED vars
  BY <1>10 DEF PollerStarts, vars
<1> QED
  BY <1>1, <1>2, <1>3, <1>4, <1>5, <1>6, <1>7, <1>8, <1>9, <1>10
  DEF Next, HandlerStep, SenderStep

\* Committed devices that are to be told or queued are lost only if the backend
\* is being stopped or a process dies.
THEOREM LossNeedsCauseCorrect == Spec => [][LossNeedsCause]_vars
<1>1. Shape /\ StopInv /\ [Next]_vars => [LossNeedsCause]_vars
  BY LossStep
<1> QED BY <1>1, ShapeHolds, StopHolds, PTL DEF Spec

\* Committed devices that are to be told are somewhere on their way, and end
\* there only at the registry, in a shutdown or with a process.
THEOREM QueuedNotForgottenCorrect == Spec => QueuedNotForgotten
<1>1. QueuedOnItsWay' /\ [LossNeedsCause]_vars
        => [QueuedOnItsWay' /\ LossNeedsCause]_vars
  OBVIOUS
<1> QED
  BY <1>1, QueuedOnItsWayCorrect, LossNeedsCauseCorrect, PTL
  DEF QueuedNotForgotten
=============================================================================
