---------------------------- MODULE Provisioning ----------------------------
(***************************************************************************)
(* Provisioning of devices: the HTTP handler of the backend that toggles   *)
(* rows of the provision table (src/backend/service/provision.go), the     *)
(* goroutine it starts to tell the poller, the sender of the backend's     *)
(* PollingServer (src/backend/server/polling.go) and the registry the      *)
(* poller keeps (src/poller/polling/provision.go), with the shutdown and   *)
(* death of the backend and deaths of the poller.                          *)
(*                                                                         *)
(* A row is an address under a discovery.  PostgreSQL is external: READ    *)
(* COMMITTED, rows locked from the first write to the end of the           *)
(* transaction, the pair looked up by the handler a key of the table.  The *)
(* way from the backend's socket to the update of the registry is one FIFO *)
(* (Poller has its parts).                                                 *)
(***************************************************************************)
EXTENDS Integers, Sequences, FiniteSets, Bags

CONSTANTS
  Requests,          \* HTTP requests
  Discovery,         \* request -> the discovery it names
  Devices,           \* request -> its devices, a sequence of [ip, credential]
  KnownCredentials,  \* rows of credential_profile
  DeviceBuffer,      \* capacity of deviceChannel
  StartTables,       \* tables that earlier runs have left
  MaxFaults,         \* bound: deaths of either process and failed statements
  MayShutdown        \* may a signal end the backend

ASSUME RequestsAssumption ==
  /\ Discovery \in [Requests -> Nat]
  /\ \A r \in Requests :
       /\ Devices[r] \in Seq([ip : STRING, credential : Nat])
       /\ Devices[r] # <<>>
ASSUME BoundsAssumption ==
  /\ DeviceBuffer \in Nat \ {0}
  /\ MaxFaults \in Nat /\ MayShutdown \in BOOLEAN

VARIABLES
  table,          \* row -> what is committed of it
  lock,           \* row -> the transaction that holds its lock
  request,        \* request -> its handler, then its goroutine, then its message
  deviceChannel,  \* requests whose devices were sent on it
  sender,         \* pollingSender
  phase,          \* the backend's main, as far as Shutdown of PollingServer
  toPoller,       \* requests whose devices are on their way to the registry
  pollerUp,
  registry,       \* the bag of entries in the list of each counter
  settled,        \* ip -> row of the last undisturbed request (history)
  faults          \* how many have happened

database == <<table, lock>>
backend  == <<deviceChannel, sender, phase>>
poller   == <<toPoller, pollerUp, registry>>
vars == <<database, request, backend, poller, settled, faults>>

-----------------------------------------------------------------------------
Device(r, i) == Devices[r][i]
Indices(r) == 1..Len(Devices[r])
Row(r, i) == <<Device(r, i).ip, Discovery[r]>>
Rows == UNION {{Row(r, i) : i \in Indices(r)} : r \in Requests}
Ips(r) == {Device(r, i).ip : i \in Indices(r)}
AllIps == UNION {Ips(r) : r \in Requests}

NoRow == <<>>
NoRequest == "none"

\* A request: where it is, the device at hand, the value it read of its row,
\* what it has written, what sendToPoller kept of its devices, and the
\* addresses no other request has touched since it began (history).
States == {"absent", "off", "on"}
ASSUME TablesAssumption == StartTables \subseteq [Rows -> States]

NoWrites == [w \in Rows |-> "none"]
NewRequest == [pc |-> "new", i |-> 1, read |-> "absent", writes |-> NoWrites,
               states |-> <<>>, kept |-> {}, alone |-> {}]
Over(pc) == [NewRequest EXCEPT !.pc = pc]

\* The two processes are started on a table that earlier runs have left.
Init ==
  /\ table \in StartTables
  /\ lock = [w \in Rows |-> NoRequest]
  /\ request = [r \in Requests |-> NewRequest]
  /\ deviceChannel = <<>>
  /\ sender = [pc |-> "select", msg |-> NoRequest]
  /\ phase = "up"
  /\ toPoller = <<>>
  /\ pollerUp = TRUE
  /\ registry = EmptyBag
  /\ settled = [a \in AllIps |-> NoRow]
  /\ faults = 0

BackendRuns == phase \notin {"panicked", "exited"}
At(r, pc) == BackendRuns /\ request[r].pc = pc

\* From its arrival until the registry has its devices, or never will.
Handled == {"select", "write", "commit"}
Committed == {"committed", "offering", "queued"}
InFlight(r) == request[r].pc \in Handled \cup Committed
Overlapping(r) == {s \in Requests \ {r} : InFlight(s)}

-----------------------------------------------------------------------------
(* HandleProvisioning.                                                     *)

\* Every other request in flight is no longer alone with the addresses they
\* share.
Begin(r) ==
  LET shared == UNION {Ips(s) : s \in Overlapping(r)}
  IN  /\ At(r, "new")
      /\ request' =
           [s \in Requests |->
              IF s = r THEN [request[r] EXCEPT !.pc = "select",
                                               !.alone = Ips(r) \ shared]
              ELSE [request[s] EXCEPT !.alone = @ \ Ips(r)]]
      /\ UNCHANGED <<database, backend, poller, settled, faults>>

\* The discovery does not exist.
NoDiscovery(r) ==
  /\ At(r, "new")
  /\ request' = [request EXCEPT ![r] = Over("failed")]
  /\ UNCHANGED <<database, backend, poller, settled, faults>>

\* A transaction sees its own writes and what is committed.
Seen(r, w) ==
  IF request[r].writes[w] # "none" THEN request[r].writes[w] ELSE table[w]

SelectRow(r) ==
  /\ At(r, "select")
  /\ request' = [request EXCEPT ![r].pc = "write",
                                ![r].read = Seen(r, Row(r, request[r].i))]
  /\ UNCHANGED <<database, backend, poller, settled, faults>>

\* A row that exists is toggled; a new one has the zero value of
\* IsProvisioned.
Toggled(state) == IF state = "off" THEN "on" ELSE "off"

Free(r, w) == lock[w] \in {NoRequest, r}

\* The row was inserted by another transaction since it was looked up.
Duplicate(r, w) == request[r].read = "absent" /\ Seen(r, w) # "absent"

\* UPDATE or INSERT, once no other transaction holds the row.
WriteRow(r) ==
  LET i == request[r].i
      w == Row(r, i)
      state == Toggled(request[r].read)
  IN  /\ At(r, "write")
      /\ Free(r, w)
      /\ ~Duplicate(r, w)
      /\ lock' = [lock EXCEPT ![w] = r]
      /\ request' = [request EXCEPT
                       ![r].writes[w] = state,
                       ![r].read = "absent",
                       ![r].states = Append(@, state),
                       ![r].i = IF i < Len(Devices[r]) THEN i + 1 ELSE i,
                       ![r].pc = IF i < Len(Devices[r]) THEN "select"
                                 ELSE "commit"]
      /\ UNCHANGED <<table, backend, poller, settled, faults>>

\* Transactions that wait for each other's rows in a circle.
Deadlocked(r) ==
  \E S \in SUBSET {s \in Requests : At(s, "write")} :
    /\ r \in S
    /\ \A s \in S : \E t \in S \ {s} : lock[Row(s, request[s].i)] = t
    /\ \A t \in S : \E s \in S \ {t} : lock[Row(s, request[s].i)] = t

Unlocked(R) == [w \in Rows |-> IF lock[w] \in R THEN NoRequest ELSE lock[w]]

\* A statement fails: its row exists already, PostgreSQL breaks a deadlock,
\* or the database is out of reach.  The deferred Rollback undoes the rest.
Refused(r) ==
  \/ Deadlocked(r)
  \/ LET w == Row(r, request[r].i)
     IN  At(r, "write") /\ Free(r, w) /\ Duplicate(r, w)

MayFail(r) ==
  /\ request[r].pc \in Handled /\ BackendRuns
  /\ \/ Refused(r) /\ UNCHANGED faults
     \/ faults < MaxFaults /\ faults' = faults + 1

Abort_NoRollback(r) ==
  /\ MayFail(r)
  /\ request' = [request EXCEPT ![r] = Over("failed")]
  /\ UNCHANGED <<database, backend, poller, settled>>

Abort_Sends(r) ==
  /\ MayFail(r)
  /\ request' = [request EXCEPT ![r].pc = "committed", ![r].writes = NoWrites]
  /\ lock' = Unlocked({r})
  /\ UNCHANGED <<table, backend, poller, settled>>

Abort(r) ==
  /\ MayFail(r)
  /\ request' = [request EXCEPT ![r] = Over("failed")]
  /\ lock' = Unlocked({r})
  /\ UNCHANGED <<table, backend, poller, settled>>

\* The client gets its answer; a goroutine of the request will tell the poller.
Commit(r) ==
  /\ At(r, "commit")
  /\ table' = [w \in Rows |-> Seen(r, w)]
  /\ lock' = Unlocked({r})
  /\ request' = [request EXCEPT ![r].pc = "committed", ![r].writes = NoWrites]
  /\ UNCHANGED <<backend, poller, settled, faults>>

-----------------------------------------------------------------------------
(* sendToPoller and pollingSender.                                         *)

Unsettled(A) == [a \in AllIps |-> IF a \in A THEN NoRow ELSE settled[a]]

\* A device whose credential cannot be read is left out of the message; when
\* none is left, there is no message.
ReadCredentials(r) ==
  LET found == {i \in DOMAIN request[r].states :
                  Device(r, i).credential \in KnownCredentials}
  IN  /\ At(r, "committed")
      /\ \E kept \in {found} \cup {K \in SUBSET found : faults < MaxFaults} :
           /\ faults' = IF kept = found THEN faults ELSE faults + 1
           /\ request' =
                [request EXCEPT
                   ![r] = IF kept = {} THEN Over("lost")
                          ELSE [@ EXCEPT !.pc = "offering", !.kept = kept]]
           /\ settled' =
                Unsettled({Device(r, i).ip : i \in Indices(r) \ kept})
      /\ UNCHANGED <<database, backend, poller>>

Offer_Twice(r) ==
  /\ At(r, "offering")
  /\ sender.pc # "stopped"
  /\ Len(deviceChannel) < DeviceBuffer
  /\ deviceChannel' = Append(deviceChannel, r)
  /\ request' = request
  /\ UNCHANGED <<database, sender, phase, poller, settled, faults>>

Offer(r) ==
  /\ At(r, "offering")
  /\ sender.pc # "stopped"
  /\ Len(deviceChannel) < DeviceBuffer
  /\ deviceChannel' = Append(deviceChannel, r)
  /\ request' = [request EXCEPT ![r].pc = "queued"]
  /\ UNCHANGED <<database, sender, phase, poller, settled, faults>>

\* What the end of the backend does to the requests: those not committed are
\* rolled back, of the others the rows are changed and the poller is not told.
Ended(r, delivered) ==
  CASE request[r].pc \in Handled -> Over("failed")
    [] request[r].pc \in Committed /\ r \notin delivered -> Over("lost")
    [] OTHER -> request[r]

BackendEnds(delivered) ==
  /\ request' = [r \in Requests |-> Ended(r, delivered)]
  /\ lock' = Unlocked(Requests)
  /\ settled' = Unsettled(UNION {Ips(r) : r \in {s \in Requests :
                  request[s].pc \in Committed /\ s \notin delivered}})
  /\ deviceChannel' = <<>>
  /\ sender' = [pc |-> "select", msg |-> NoRequest]

Sent == {toPoller[j] : j \in 1..Len(toPoller)}

\* pollingSender has closed deviceChannel: the send panics, and with it the
\* process ends, for the goroutine is not one of the HTTP server.
OfferPanics(r) ==
  /\ At(r, "offering")
  /\ sender.pc = "stopped"
  /\ BackendEnds(Sent)
  /\ phase' = "panicked"
  /\ UNCHANGED <<table, poller, faults>>

TakeDevices ==
  /\ BackendRuns
  /\ sender.pc = "select"
  /\ deviceChannel # <<>>
  /\ sender' = [pc |-> "send", msg |-> Head(deviceChannel)]
  /\ deviceChannel' = Tail(deviceChannel)
  /\ UNCHANGED <<database, request, phase, poller, settled, faults>>

SendDevices_Drops ==
  /\ BackendRuns
  /\ sender.pc = "send"
  /\ phase # "term"
  /\ toPoller' = IF toPoller = <<>> THEN <<sender.msg>> ELSE toPoller
  /\ sender' = [pc |-> "select", msg |-> NoRequest]
  /\ UNCHANGED <<database, request, deviceChannel, phase, pollerUp, registry,
                 settled, faults>>

SendDevices ==
  /\ BackendRuns
  /\ sender.pc = "send"
  /\ phase # "term"
  /\ toPoller' = Append(toPoller, sender.msg)
  /\ sender' = [pc |-> "select", msg |-> NoRequest]
  /\ UNCHANGED <<database, request, deviceChannel, phase, pollerUp, registry,
                 settled, faults>>

\* The context has ended: the error is logged and the devices are dropped.
SendDevicesFails ==
  /\ BackendRuns
  /\ sender.pc = "send"
  /\ phase = "term"
  /\ request' = [request EXCEPT ![sender.msg] = Over("lost")]
  /\ settled' = Unsettled(Ips(sender.msg))
  /\ sender' = [pc |-> "select", msg |-> NoRequest]
  /\ UNCHANGED <<database, deviceChannel, phase, poller, faults>>

\* It closes the socket and deviceChannel.
SenderStops ==
  /\ BackendRuns /\ phase # "up"
  /\ sender.pc = "select"
  /\ sender' = [sender EXCEPT !.pc = "stopped"]
  /\ UNCHANGED <<database, request, deviceChannel, phase, poller, settled,
                 faults>>

\* Shutdown of PollingServer: the token, context.Term, and its return once the
\* socket is closed and has handed over everything to the poller (the socket
\* lingers).  Then main stops the other servers and the process ends.
BackendShutdown ==
  \/ /\ \/ phase = "up" /\ MayShutdown /\ phase' = "tokens"
        \/ phase = "tokens" /\ phase' = "term"
        \/ /\ phase = "term"
           /\ sender.pc = "stopped"
           /\ pollerUp \/ toPoller = <<>>
           /\ phase' = "down"
     /\ UNCHANGED <<database, request, deviceChannel, sender, poller, settled,
                    faults>>
  \/ /\ phase = "down"
     /\ BackendEnds(Sent)
     /\ phase' = "exited"
     /\ UNCHANGED <<table, poller, faults>>

\* The backend is killed and started again; the newest messages may not have
\* left it.
BackendDies ==
  /\ BackendRuns
  /\ faults < MaxFaults
  /\ \E n \in 0..Len(toPoller) :
       /\ pollerUp \/ n = 0
       /\ toPoller' = SubSeq(toPoller, 1, n)
       /\ BackendEnds({toPoller[j] : j \in 1..n})
  /\ phase' = "up"
  /\ faults' = faults + 1
  /\ UNCHANGED <<table, pollerUp, registry>>

-----------------------------------------------------------------------------
(* The poller.                                                             *)

\* The message as the poller reads it: one device per address, the last.
LastOf(r, a) ==
  CHOOSE i \in request[r].kept :
    /\ Device(r, i).ip = a
    /\ \A j \in request[r].kept : Device(r, j).ip = a => j <= i
NewDeviceMap(r) ==
  LET last == {LastOf(r, a) : a \in {Device(r, i).ip : i \in request[r].kept}}
  IN  {[row |-> Row(r, i), credential |-> Device(r, i).credential,
        on |-> request[r].states[i] = "on"] : i \in last}

\* Entries of an address that is no longer provisioned go; an entry is added
\* for every device that is.
Updated(r) ==
  LET new == NewDeviceMap(r)
      stays == {e \in DOMAIN registry :
                  \A d \in new : d.row[1] = e.row[1] => d.on}
      added == {[row |-> d.row, credential |-> d.credential] :
                  d \in {n \in new : n.on}}
  IN  [e \in stays |-> registry[e]] (+) SetToBag(added)

Settled(r) ==
  [a \in AllIps |->
     IF a \notin Ips(r) THEN settled[a]
     ELSE IF a \in request[r].alone /\ \A i \in Indices(r) :
               Device(r, i).ip = a => i \in request[r].kept
          THEN <<a, Discovery[r]>> ELSE NoRow]

SetProvisionedDevices ==
  /\ pollerUp
  /\ toPoller # <<>>
  /\ LET r == Head(toPoller)
     IN  /\ registry' = Updated(r)
         /\ settled' = Settled(r)
         /\ request' = [request EXCEPT ![r] = Over("applied")]
  /\ toPoller' = Tail(toPoller)
  /\ UNCHANGED <<database, backend, pollerUp, faults>>

\* It dies with its registry, and with the oldest messages, those it had got;
\* nobody sends it the devices again.
PollerDies ==
  /\ pollerUp
  /\ faults < MaxFaults
  /\ \E n \in 0..Len(toPoller) :
       /\ toPoller' = SubSeq(toPoller, n + 1, Len(toPoller))
       /\ request' = [r \in Requests |->
                        IF r \in {toPoller[j] : j \in 1..n}
                        THEN Over("lost") ELSE request[r]]
  /\ registry' = EmptyBag
  /\ settled' = [a \in AllIps |-> NoRow]
  /\ pollerUp' = FALSE
  /\ faults' = faults + 1
  /\ UNCHANGED <<database, backend>>

PollerStarts ==
  /\ ~pollerUp
  /\ pollerUp' = TRUE
  /\ UNCHANGED <<database, request, backend, toPoller, registry, settled,
                 faults>>

-----------------------------------------------------------------------------
HandlerStep(r) ==
  \/ SelectRow(r) \/ WriteRow(r) \/ Abort(r) \/ Commit(r)
  \/ ReadCredentials(r) \/ Offer(r) \/ OfferPanics(r)
SenderStep == TakeDevices \/ SendDevices \/ SendDevicesFails \/ SenderStops

Next ==
  \/ \E r \in Requests : Begin(r) \/ NoDiscovery(r) \/ HandlerStep(r)
  \/ SenderStep \/ BackendShutdown \/ BackendDies
  \/ SetProvisionedDevices \/ PollerDies \/ PollerStarts

Spec == Init /\ [][Next]_vars

\* Goroutines that can run will, and the database answers.  Nobody has to
\* send a request, stop the backend, or start the poller again.
Fairness ==
  /\ \A r \in Requests : WF_vars(HandlerStep(r))
  /\ WF_vars(SenderStep)
  /\ WF_vars(SetProvisionedDevices)
  /\ WF_vars(phase # "up" /\ BackendShutdown)

FairSpec == Spec /\ Fairness

-----------------------------------------------------------------------------
(* Properties.                                                             *)

\* The variables have the types their comments give.
TypeOK ==
  /\ table \in [Rows -> States]
  /\ lock \in [Rows -> Requests \cup {NoRequest}]
  /\ \A r \in Requests :
       /\ request[r].pc \in {"new", "failed", "applied", "lost"}
                              \cup Handled \cup Committed
       /\ request[r].i \in Indices(r)
       /\ request[r].states \in Seq({"off", "on"})
       /\ request[r].kept \subseteq DOMAIN request[r].states
       /\ request[r].alone \subseteq Ips(r)
  /\ Len(deviceChannel) <= DeviceBuffer
  /\ Sent \subseteq {r \in Requests : request[r].pc = "queued"}
  /\ sender.pc \in {"select", "send", "stopped"}
  /\ phase \in {"up", "tokens", "term", "down", "panicked", "exited"}
  /\ IsABag(registry)
  /\ settled \in [AllIps -> Rows \cup {NoRow}]

Quiet(a) == \A r \in Requests : a \in Ips(r) => ~InFlight(r)
Polled(a) == \E e \in DOMAIN registry : e.row[1] = a

\* After a request that no other one overlapped on an address, the poller
\* polls the address if and only if the row of that request says so, and with
\* that row's object, whatever overlapping requests, lost messages or deaths
\* have left before: one request heals.
SettledPolled ==
  \A a \in AllIps :
    settled[a] # NoRow /\ Quiet(a) =>
      /\ Polled(a) <=> table[settled[a]] = "on"
      /\ Polled(a) => \E e \in DOMAIN registry : e.row = settled[a]

\* Devices that sendToPoller has put on deviceChannel are on their way, or have
\* reached the registry or are known to be lost.
InDeviceChannel == {deviceChannel[j] : j \in 1..Len(deviceChannel)}
QueuedOnItsWay ==
  \A r \in Requests : request[r].pc = "queued" =>
    \/ r \in InDeviceChannel \cup Sent
    \/ sender.pc = "send" /\ sender.msg = r

\* They are not lost unless the backend was told to stop or a
\* process dies: no failed statement and no request of others costs them.
LossNeedsCause ==
  \A r \in Requests :
    request[r].pc \in {"offering", "queued"} =>
      \/ request'[r].pc \in {"offering", "queued", "applied"}
      \/ phase # "up" \/ faults' > faults

\* Both together: what is to be told to the poller is never forgotten, whatever
\* any goroutine of the backend, the poller or a death does.
QueuedNotForgotten == [][QueuedOnItsWay' /\ LossNeedsCause]_vars

\* Every request comes to an end, although transactions wait for each other's
\* rows, in a circle too, and some fail half-way.
RequestsEnd ==
  (\E r \in Requests : request[r].pc \in Handled)
    ~> (\A r \in Requests : request[r].pc \notin Handled) \/ ~BackendRuns

\* Whatever was committed and has a credential reaches the registry in the
\* end, however full deviceChannel is, unless a process dies or the backend is
\* stopped.
Pending == {r \in Requests : request[r].pc \in {"offering", "queued"}}
CommitsApplied == Pending # {} ~> Pending = {} \/ phase # "up" \/ faults > 0
=============================================================================
