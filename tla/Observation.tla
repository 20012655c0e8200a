---------------------------- MODULE Observation -----------------------------
(***************************************************************************)
(* The observer thread from the probe's ring to the statistics: attributing *)
(* an event to a process by reading /proc (process.rs), naming its         *)
(* destination (dns.rs), and recording it (recent.rs, stats.rs), while     *)
(* processes are started, exec and exit, and operators note DNS names and  *)
(* list what was recorded.                                                 *)
(*                                                                         *)
(* Each read of /proc is a step.  What the rules say of a connection is    *)
(* Policy's subject: here it is any of the three labels.                   *)
(***************************************************************************)
EXTENDS TLC, Records, ByteOrder

CONSTANTS Pid, Program,        \* [exe, cmdline, uid], as a process can be seen to run
          Dest,                \* [octets, port]
          Hostname, lower,     \* to_ascii_lowercase
          Padding,             \* what the ring holds between two fields
          CacheSize, RecentKeys, DnsSize,   \* capacities
          NoteTtl,             \* ttl_secs of dns-note, the default one among them
          Scenario   \* bounds: how much of each kind of step a behaviour has

ASSUME ObservationAssumption ==
  /\ \A c \in {CacheSize, RecentKeys, DnsSize} : c \in Nat \ {0}
  /\ \A s \in Scenario :
       /\ s.births \in Nat /\ s.connects \in Nat /\ s.notes \in Nat /\ s.now \in Nat
       /\ s.ends \in BOOLEAN /\ s.dests \subseteq Dest /\ s.programs \subseteq Program
       /\ s.pids \subseteq Pid /\ s.labels \subseteq {"allow", "deny", "prompt"}
  /\ lower \in [Hostname -> Hostname] /\ NoteTtl \subseteq Nat
  /\ Pid \subseteq 0 .. Base * Base * Base * Base - 1
  /\ \A d \in Dest : d.octets \in [1 .. 4 -> 0 .. Base - 1] /\ d.port \in 0 .. Base * Base - 1
  /\ Padding \subseteq [1 .. 4 -> 0 .. Base - 1]

VARIABLES limit,     \* the scenario of this behaviour
          procs,     \* pid -> [start, execs, program], the processes alive
          births,    \* processes started so far
          ring,      \* records [bytes, by]: by is history, the connecting process
          obs,       \* the observer thread: stage, event, what it read so far
          cache, recent, dns,
          stats,     \* connections, denied and the five tables
          pending,   \* DestKey -> history: the destination asked for
          audit,     \* [attributed, outcome] of every handled event
          now, connects, notes,
          noted,     \* history: u32 key -> the last name noted under it
          last       \* history: the last attributed decision

world == <<limit, procs, births, connects>>
tables == <<cache, recent, dns, stats, pending, audit>>
obsVars == <<world, ring, obs, tables, now, notes, noted, last>>

Dimension == {"hosts", "procs", "addrs", "ports", "users"}
Idle == [stage |-> "idle"]
Nobody == [label |-> "none"]
NoHit == [verdict |-> "none"]

ObsInit ==
  /\ limit \in Scenario
  /\ procs = EmptyMap /\ births = 0 /\ connects = 0 /\ ring = <<>> /\ obs = Idle
  /\ cache = EmptyTable /\ recent = EmptyTable /\ dns = EmptyTable
  /\ stats = [connections |-> 0, denied |-> 0, table |-> [d \in Dimension |-> EmptyTable]]
  /\ pending = EmptyMap /\ audit = <<>> /\ now = 0 /\ notes = 0
  /\ noted = EmptyMap /\ last = Nobody

-----------------------------------------------------------------------------
(* The machine                                                             *)

Spawn(pid, program) ==
  /\ births < limit.births /\ program \in limit.programs /\ pid \notin DOMAIN procs
  /\ births' = births + 1
  /\ procs' = MapInsert(procs, pid, [start |-> births', execs |-> 0, program |-> program])
  /\ UNCHANGED <<limit, connects, ring, obs, tables, now, notes, noted, last>>

Exec(pid, program) ==
  /\ limit.ends /\ program \in limit.programs
  /\ pid \in DOMAIN procs /\ procs[pid].execs = 0 /\ procs[pid].program # program
  /\ procs' = [procs EXCEPT ![pid].execs = 1, ![pid].program = program]
  /\ UNCHANGED <<limit, births, connects, ring, obs, tables, now, notes, noted, last>>

Exit(pid) ==
  /\ limit.ends /\ pid \in DOMAIN procs
  /\ procs' = MapRemove(procs, {pid})
  /\ UNCHANGED <<limit, births, connects, ring, obs, tables, now, notes, noted, last>>

(* try_tcp_connect *)
Connect(pid, dest, padding) ==
  /\ pid \in DOMAIN procs /\ connects < limit.connects /\ dest \in limit.dests
  /\ connects' = connects + 1
  /\ ring' = Append(ring, [bytes |-> RingRecord(EventOf(pid, dest), padding),
                           by |-> [pid |-> pid, process |-> procs[pid], dest |-> dest]])
  /\ UNCHANGED <<limit, procs, births, obs, tables, now, notes, noted, last>>

Tick == now < limit.now /\ now' = now + 1 /\ UNCHANGED <<world, ring, obs, tables, notes, noted, last>>

-----------------------------------------------------------------------------
(* DnsCache                                                                *)

Expire(t) ==
  LET old == {k \in DOMAIN t.entries : now >= t.entries[k].expires}
  IN [entries |-> MapRemove(t.entries, old), order |-> Retain(t.order, DOMAIN t.entries \ old)]

Dotted(octets) ==
  ToString(octets[1]) \o "." \o ToString(octets[2]) \o "." \o ToString(octets[3])
    \o "." \o ToString(octets[4])
ShownAddress(ipv4) == Dotted(DestinationOctets(ipv4))
HostFor(t, ipv4) ==
  IF Holds(t, ipv4) THEN t.entries[ipv4].hostname ELSE ShownAddress(ipv4)

(* The observer holds `dns` from Dequeue to DecideAttributed. *)
LocksFree == obs.stage \in {"idle", "pending", "stats", "audit"}

(* ipc.rs dns_note, then DnsCache::observe *)
DnsNote(hostname, octets, ttl) ==
  /\ LocksFree /\ notes < limit.notes /\ notes' = notes + 1
  /\ dns' = Put(Expire(dns), DnsSize, FromNe(octets),
                [hostname |-> lower[hostname], expires |-> now + ttl])
  /\ noted' = MapInsert(noted, FromNe(octets), dns'.entries[FromNe(octets)])
  /\ UNCHANGED <<world, ring, obs, cache, recent, stats, pending, audit, now, last>>

(* ipc.rs dns_list *)
DnsList ==
  /\ LocksFree /\ dns' = Expire(dns)
  /\ UNCHANGED <<world, ring, obs, cache, recent, stats, pending, audit, now, notes, noted, last>>

-----------------------------------------------------------------------------
(* handle_event                                                            *)

At(stage) == obs.stage = stage
Goto(stage) == obs' = [obs EXCEPT !.stage = stage]
ObsUnchanged == UNCHANGED <<world, now, notes, noted>>

(* poll_ring takes a record, handle_event the five locks. *)
Dequeue ==
  /\ At("idle") /\ ring # <<>>
  /\ ring' = Tail(ring)
  /\ obs' = [stage |-> "stat", event |-> ReadRecord(Head(ring).bytes), by |-> Head(ring).by,
              start |-> 0, exe |-> <<>>, cmdline |-> <<>>, hit |-> NoHit]
  /\ UNCHANGED <<tables, last>> /\ ObsUnchanged

(* Defect: a cached identity is taken for the pid alone. *)
BugCachedByPid(event) == {id \in {cache.entries[k] : k \in DOMAIN cache.entries} : id.pid = event.pid}
(* attribute: the cache serves events that carry start ticks. *)
CachedFor(event) ==
  {id \in {cache.entries[k] : k \in DOMAIN cache.entries} :
     id.pid = event.pid /\ id.start = event.ticks /\ event.ticks # 0}

Alive == obs.event.pid \in DOMAIN procs
Seen == procs[obs.event.pid].program
(* Defect: an event nobody can be found for is dropped. *)
BugDropped == obs' = Idle /\ UNCHANGED <<ring, tables, last>> /\ ObsUnchanged
Unattributed == Goto("pending") /\ UNCHANGED <<ring, tables, last>> /\ ObsUnchanged

RecordRecent(id, shown, label) ==
  LET key == <<id.pid, id.start>>
      rows == IF Holds(recent, key) THEN recent.entries[key] ELSE <<>>
  IN recent' = Put(recent, RecentKeys, key, Remembered(rows, shown, label))

(* ProcessCache::insert keeps the identity it has. *)
CacheInsert(id) ==
  LET key == <<id.pid, id.start>>
  IN cache' = IF Holds(cache, key) THEN cache ELSE Put(cache, CacheSize, key, id)

(* decide_attributed, with the label its rules and tokens gave *)
DecideAttributed(id, label) ==
  LET e == obs.event
      shown == [ipv4 |-> ShownAddress(e.ipv4), port |-> e.port]
      hit == [executable |-> id.exe, host |-> HostFor(Expire(dns), e.ipv4),
              ipv4 |-> shown.ipv4, port |-> e.port, uid |-> id.uid, verdict |-> label]
  IN /\ RecordRecent(id, shown, label)
     /\ dns' = Expire(dns)
     /\ obs' = [obs EXCEPT !.stage = "pending", !.hit = hit]
     /\ last' = [label |-> label, by |-> obs.by, id |-> id, hit |-> hit, at |-> now,
                 unchanged |-> Alive /\ procs[obs.by.pid] = obs.by.process]
     /\ UNCHANGED <<ring, stats, pending, audit>> /\ ObsUnchanged

(* resolve: stat, exe, cmdline, status and cgroup, any of which is gone    *)
(* once the process is.                                                    *)
ReadStat(label) ==
  /\ At("stat")
  /\ IF CachedFor(obs.event) # {}
     THEN cache' = cache /\ DecideAttributed(CHOOSE id \in CachedFor(obs.event) : TRUE, label)
     ELSE IF Alive /\ obs.event.ticks \in {0, procs[obs.event.pid].start}
     THEN /\ obs' = [obs EXCEPT !.stage = "exe", !.start = procs[obs.event.pid].start]
          /\ UNCHANGED <<ring, tables, last>> /\ ObsUnchanged
     ELSE Unattributed

ReadExe ==
  /\ At("exe")
  /\ IF Alive THEN /\ obs' = [obs EXCEPT !.stage = "cmdline", !.exe = Seen.exe]
                   /\ UNCHANGED <<ring, tables, last>> /\ ObsUnchanged
              ELSE Unattributed

ReadCmdline ==
  /\ At("cmdline")
  /\ IF Alive THEN /\ obs' = [obs EXCEPT !.stage = "status", !.cmdline = Seen.cmdline]
                   /\ UNCHANGED <<ring, tables, last>> /\ ObsUnchanged
              ELSE Unattributed

ReadStatusFile(label) ==
  LET id == [pid |-> obs.event.pid, start |-> obs.start, exe |-> obs.exe,
             cmdline |-> obs.cmdline, uid |-> Seen.uid]
  IN /\ At("status")
     /\ IF Alive THEN CacheInsert(id) /\ DecideAttributed(id, label) ELSE Unattributed

StorePending ==
  /\ At("pending") /\ Goto("stats")
  /\ pending' = MapInsert(pending, [ipv4 |-> obs.event.ipv4, port |-> obs.event.port], obs.by.dest)
  /\ UNCHANGED <<ring, cache, recent, dns, stats, audit, last>> /\ ObsUnchanged

-----------------------------------------------------------------------------
(* StatsStore                                                              *)

KeyOf(hit, d) ==
  CASE d = "hosts" -> <<hit.host>> [] d = "procs" -> hit.executable
    [] d = "addrs" -> <<hit.ipv4>> [] d = "ports" -> <<ToString(hit.port)>>
    [] d = "users" -> <<ToString(hit.uid)>>

Attributed == obs.hit # NoHit
Outcome == IF Attributed THEN obs.hit.verdict ELSE "deny"

RecordStats ==
  /\ At("stats") /\ Goto("audit")
  /\ stats' = [connections |-> stats.connections + 1,
               denied |-> stats.denied + (IF Outcome = "deny" THEN 1 ELSE 0),
               table |-> IF ~Attributed THEN stats.table
                         ELSE [d \in Dimension |->
                                 BumpKey(stats.table[d], KeyOf(obs.hit, d), obs.hit.verdict)]]
  /\ UNCHANGED <<ring, cache, recent, dns, pending, audit, last>> /\ ObsUnchanged

AppendAudit ==
  /\ At("audit") /\ obs' = Idle
  /\ audit' = Append(audit, [attributed |-> Attributed, outcome |-> Outcome])
  /\ UNCHANGED <<ring, cache, recent, dns, stats, pending, last>> /\ ObsUnchanged

Observe ==
  \/ Dequeue \/ ReadExe \/ ReadCmdline \/ StorePending \/ RecordStats \/ AppendAudit
  \/ \E label \in limit.labels : ReadStat(label)
  \/ \E label \in limit.labels : ReadStatusFile(label)

ObsNext ==
  \/ \E pid \in limit.pids, p \in Program : Spawn(pid, p) \/ Exec(pid, p)
  \/ \E pid \in limit.pids : Exit(pid)
  \/ \E pid \in limit.pids, dest \in Dest, padding \in Padding : Connect(pid, dest, padding)
  \/ \E h \in Hostname, dest \in Dest, ttl \in NoteTtl : DnsNote(h, dest.octets, ttl)
  \/ DnsList \/ Tick \/ Observe

ObsSpec == ObsInit /\ [][ObsNext]_obsVars /\ WF_obsVars(Observe)

-----------------------------------------------------------------------------
(* Properties                                                              *)

(* Types: the tables hold what the observer puts there. *)
ObsTypeOK ==
  /\ DOMAIN procs \subseteq Pid /\ births \in 0 .. limit.births /\ connects \in 0 .. limit.connects
  /\ obs.stage \in {"idle", "stat", "exe", "cmdline", "status", "pending", "stats", "audit"}
  /\ obs # Idle => obs.event.pid \in Pid /\ obs.event.port \in {d.port : d \in Dest}
  /\ \A k \in DOMAIN cache.entries : k = <<cache.entries[k].pid, cache.entries[k].start>>
  /\ \A i \in DOMAIN audit : audit[i].outcome \in Label

(* Whatever is inserted, repeated, expired and evicted in whatever order, no
   table of the daemon grows past its capacity, and each keeps its keys in
   its order exactly once, so that its oldest entry can always be found. *)
TablesWellKept ==
  /\ WellKept(cache, CacheSize) /\ WellKept(recent, RecentKeys) /\ WellKept(dns, DnsSize)
  /\ \A d \in Dimension : WellKept(stats.table[d], StatsKeys)
  /\ \A k \in DOMAIN recent.entries : Len(recent.entries[k]) <= PerKey

(* The audit records the hits of the tables are compared with. *)
AttributedRecords == {i \in DOMAIN audit : audit[i].attributed}
DeniedRecords == {i \in DOMAIN audit : audit[i].outcome = "deny"}

(* The statistics and the audit log tell the same story: between two events
   there are as many connections and denials as audit records say, each row's
   hits are the sum of its verdicts, and no table counts more hits than there
   were attributed connections - exactly as many while nothing was evicted. *)
StatsAddUp ==
  obs = Idle =>
    /\ stats.connections = Len(audit)
    /\ stats.denied = Cardinality(DeniedRecords)
    /\ \A d \in Dimension :
         LET t == stats.table[d]
         IN /\ Hits(t) <= Cardinality(AttributedRecords)
            /\ Len(t.order) < StatsKeys => Hits(t) = Cardinality(AttributedRecords)
            /\ \A k \in DOMAIN t.entries :
                 t.entries[k].hits = t.entries[k].allow + t.entries[k].deny + t.entries[k].prompt

(* The list of an application's destinations shows the last verdict given for
   each, once: a destination that was denied and is allowed now is not shown
   as denied. *)
RecentShowsLast ==
  last # Nobody =>
    LET key == <<last.id.pid, last.id.start>>
        rows == recent.entries[key]
        same == {i \in DOMAIN rows : rows[i].ipv4 = last.hit.ipv4 /\ rows[i].port = last.hit.port}
    IN /\ Holds(recent, key) /\ Cardinality(same) = 1
       /\ \A i \in same : rows[i].verdict = last.label

(* The tables the observer keeps agree with each other and with the audit log
   after each event, whatever was evicted or repeated. *)
TablesConsistent == ObsTypeOK /\ TablesWellKept /\ StatsAddUp /\ RecentShowsLast

(* A process that is still what it was when it connected is the one its
   connection is attributed to, in all that is shown and judged: neither an
   earlier owner of its pid nor a program it ran before exec. *)
LiveConnectorNamed ==
  (last # Nobody /\ last.unchanged) =>
    LET p == last.by.process
    IN last.id = [pid |-> last.by.pid, start |-> p.start, exe |-> p.program.exe,
                  cmdline |-> p.program.cmdline, uid |-> p.program.uid]

(* A connection is named by the newest name noted for its address, and only
   while that name lives: "Stale names are dropped so they never override IP
   truth for verdicts". *)
NameIsFresh ==
  LET k == obs.event.ipv4
      fresh == k \in DOMAIN noted /\ now < noted[k].expires
  IN \/ last'.hit.host = last'.hit.ipv4
     \/ fresh /\ last'.hit.host = noted[k].hostname

(* The program and the host every connection is recorded under are right. *)
NamedRight == [][LiveConnectorNamed' /\ (last' # last => NameIsFresh)]_obsVars

(* The verdict stored for a connection is the one its packets ask for: the
   probe's event, through the ring record, and the packet's header, with or
   without options, give the same key on either kind of host. *)
EventAndPacketAgree ==
  \A k \in DOMAIN pending : \A ihl \in {5, 6} : TcpDestination(Packet(pending[k], ihl)) = k

(* No connection is forgotten: the observer gets to the audit record of every
   event, also when the process is gone before it is looked up. *)
EventsHandled == (Len(audit) < connects) ~> (Len(audit) = connects)

(* "Destination as an IPv4 address in host byte order octets": the addresses
   shown to the operator are ones that processes connected to. *)
ShownAddressIsDestination ==
  last # Nobody => last.hit.ipv4 = Dotted(last.by.dest.octets)
=============================================================================
