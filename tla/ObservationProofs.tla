------------------------- MODULE ObservationProofs --------------------------
(***************************************************************************)
(* The observer's events, names and tables, proved for any processes,      *)
(* destinations, labels and capacities.                                    *)
(***************************************************************************)
EXTENDS Observation, RecordsProofs

(* The constants are such that every destination and process id fits. *)
LEMMA DestsFit ==
  /\ \A d \in Dest : IsDest(d)
  /\ \A pid \in Pid : pid \in 0 .. Base * Base * Base * Base - 1
  /\ Padding \subseteq Bytes(4)
BY ObservationAssumption DEF IsDest, Bytes, Byte

(* try_tcp_connect sends the destination in the host's order of bytes. *)
LEMMA EventIs ==
  ASSUME NEW pid \in Pid, NEW d \in Dest
  PROVE  /\ EventOf(pid, d) = [pid |-> pid, ticks |-> 0, ipv4 |-> FromBe(d.octets), port |-> d.port]
         /\ IsEvent(EventOf(pid, d))
<1>1. d.octets \in Bytes(4) /\ d.port \in 0 .. Base * Base - 1
  BY DestsFit DEF IsDest
<1>2. d.port \in Nat /\ FromBe(ToBe(d.port, 2)) = d.port /\ ToBe(d.port, 2) \in Bytes(2)
  BY <1>1, TwoBytes, ToBeType
<1>3. NetworkField(d.octets) = FromBe(d.octets) /\ NetworkField(ToBe(d.port, 2)) = d.port
  BY <1>1, <1>2, NetworkFieldIs
<1>4. EventOf(pid, d) = [pid |-> pid, ticks |-> 0, ipv4 |-> FromBe(d.octets), port |-> d.port]
  BY <1>3 DEF EventOf
<1>5. FromBe(d.octets) \in Nat /\ FromBe(ToBe(FromBe(d.octets), 4)) = FromBe(d.octets)
  BY <1>1, FromBeType, ToFrom
<1>6. pid \in Nat /\ FromBe(ToBe(pid, 4)) = pid
  BY DestsFit, FourBytes
<1>7. FromBe(ToBe(0, 8)) = 0
  BY ZeroBytes
<1> QED
  BY <1>2, <1>4, <1>5, <1>6, <1>7 DEF IsEvent

-----------------------------------------------------------------------------
(* Events                                                                  *)

HandlingStages == {"stat", "exe", "cmdline", "status", "pending", "stats", "audit"}
IsProcess(p) ==
  /\ p = [start |-> p.start, execs |-> p.execs, program |-> p.program]
  /\ p.start \in Nat /\ p.execs \in Nat
IsBy(b) == b.pid \in Pid /\ b.dest \in Dest /\ IsProcess(b.process)

(* The record is the one the probe writes for the connecting process. *)
FromProbe(r) ==
  /\ IsBy(r.by)
  /\ \E padding \in Padding : r.bytes = RingRecord(EventOf(r.by.pid, r.by.dest), padding)

(* The observer is busy with the event of a connection. *)
Handling(o) ==
  /\ o = [stage |-> o.stage, event |-> o.event, by |-> o.by, start |-> o.start, exe |-> o.exe,
          cmdline |-> o.cmdline, hit |-> o.hit]
  /\ o.stage \in HandlingStages /\ IsBy(o.by) /\ o.event = EventOf(o.by.pid, o.by.dest)

AliveKept ==
  births \in Nat /\ DOMAIN procs \subseteq Pid /\ \A p \in DOMAIN procs : IsProcess(procs[p])
RingKept == IsSeq(ring) /\ \A i \in 1 .. Len(ring) : FromProbe(ring[i])
PendingKept == \A k \in DOMAIN pending : pending[k] \in Dest /\ k = DestKey(pending[k])
EventsKept ==
  limit \in Scenario /\ AliveKept /\ RingKept /\ (obs = Idle \/ Handling(obs)) /\ PendingKept

(* What the identity consists of once status is read. *)
ReadId == [pid |-> obs.event.pid, start |-> obs.start, exe |-> obs.exe,
           cmdline |-> obs.cmdline, uid |-> Seen.uid]

(* The steps of the observer, without the identities its cache could serve: *)
(* the probe's events carry no start ticks.                                *)
Reads ==
  /\ \/ At("stat") /\ Alive /\ obs' = [obs EXCEPT !.stage = "exe", !.start = procs[obs.event.pid].start]
     \/ At("exe") /\ Alive /\ obs' = [obs EXCEPT !.stage = "cmdline", !.exe = Seen.exe]
     \/ At("cmdline") /\ Alive /\ obs' = [obs EXCEPT !.stage = "status", !.cmdline = Seen.cmdline]
     \/ obs.stage \in {"stat", "exe", "cmdline", "status"} /\ Goto("pending")
  /\ UNCHANGED <<ring, tables, last, world, now, notes, noted>>
Decides(label) == At("status") /\ Alive /\ CacheInsert(ReadId) /\ DecideAttributed(ReadId, label)

(* In the stages of handle_event an event is being handled. *)
LEMMA BusyIsNotIdle ==
  ASSUME EventsKept, obs.stage \in HandlingStages
  PROVE  Handling(obs)
<1>1. Idle.stage = "idle"
  BY DEF Idle
<1> QED
  BY <1>1 DEF EventsKept, HandlingStages

(* Every step of the observer is one of these. *)
LEMMA ObserverSteps ==
  ASSUME EventsKept, Observe
  PROVE  \/ Dequeue \/ Reads \/ (\E label \in limit.labels : Decides(label))
         \/ StorePending \/ RecordStats \/ AppendAudit
<1>1. ASSUME NEW label \in limit.labels, ReadStat(label) PROVE Reads
  <2>1. Handling(obs)
    BY <1>1, BusyIsNotIdle DEF ReadStat, At, HandlingStages
  <2>2. obs.event = [pid |-> obs.by.pid, ticks |-> 0, ipv4 |-> FromBe(obs.by.dest.octets),
                     port |-> obs.by.dest.port]
    BY <2>1, EventIs DEF Handling, IsBy
  <2>3. obs.event.ticks = 0
    BY <2>2
  <2>4. CachedFor(obs.event) = {}
    BY <2>3 DEF CachedFor
  <2> QED
    BY <1>1, <2>4 DEF ReadStat, Reads, Unattributed, ObsUnchanged, At
<1>2. ASSUME NEW label \in limit.labels, ReadStatusFile(label) PROVE Reads \/ Decides(label)
  BY <1>2 DEF ReadStatusFile, Reads, Decides, ReadId, Unattributed, ObsUnchanged, At
<1>3. ASSUME ReadExe PROVE Reads
  BY <1>3 DEF ReadExe, Reads, Unattributed, ObsUnchanged, At
<1>4. ASSUME ReadCmdline PROVE Reads
  BY <1>4 DEF ReadCmdline, Reads, Unattributed, ObsUnchanged, At
<1> QED
  BY <1>1, <1>2, <1>3, <1>4 DEF Observe

GoesOn(o, p, stage) ==
  \/ p = [o EXCEPT !.stage = stage]
  \/ \E v : p = [o EXCEPT !.stage = stage, !.start = v]
  \/ \E v : p = [o EXCEPT !.stage = stage, !.exe = v]
  \/ \E v : p = [o EXCEPT !.stage = stage, !.cmdline = v]
  \/ \E v : p = [o EXCEPT !.stage = stage, !.hit = v]

(* A handler that goes on is still handling the same event. *)
LEMMA HandlingGoesOn ==
  ASSUME NEW o, Handling(o), NEW p, NEW stage \in HandlingStages, GoesOn(o, p, stage)
  PROVE  /\ Handling(p) /\ p.stage = stage /\ p.by = o.by /\ p.event = o.event
<1>1. PICK start, exe, cmdline, hit :
        p = [stage |-> stage, event |-> o.event, by |-> o.by, start |-> start, exe |-> exe,
             cmdline |-> cmdline, hit |-> hit]
  BY Zenon DEF Handling, GoesOn
<1> QED
  BY <1>1 DEF Handling

(* The steps of handle_event stay with the event they have. *)
LEMMA ObserverHandles ==
  ASSUME EventsKept, Reads \/ (\E label \in limit.labels : Decides(label)) \/ StorePending \/ RecordStats
  PROVE  Handling(obs) /\ Handling(obs') /\ obs'.by = obs.by /\ obs'.event = obs.event
<1>1. ASSUME Reads PROVE Handling(obs)
  BY <1>1, BusyIsNotIdle DEF Reads, At, HandlingStages
<1>2. ASSUME NEW label \in limit.labels, Decides(label) PROVE Handling(obs)
  BY <1>2, BusyIsNotIdle DEF Decides, At, HandlingStages
<1>3. ASSUME StorePending \/ RecordStats PROVE Handling(obs)
  BY <1>3, BusyIsNotIdle DEF StorePending, RecordStats, At, HandlingStages
<1>4. Handling(obs)
  BY <1>1, <1>2, <1>3
<1>5. /\ "exe" \in HandlingStages /\ "cmdline" \in HandlingStages /\ "status" \in HandlingStages
      /\ "pending" \in HandlingStages /\ "stats" \in HandlingStages /\ "audit" \in HandlingStages
  BY DEF HandlingStages
<1>6. \E stage \in HandlingStages : GoesOn(obs, obs', stage)
  <2>1. ASSUME Reads
        PROVE  \/ GoesOn(obs, obs', "exe") \/ GoesOn(obs, obs', "cmdline")
               \/ GoesOn(obs, obs', "status") \/ GoesOn(obs, obs', "pending")
    BY <2>1, Zenon DEF Reads, Goto, GoesOn
  <2>2. ASSUME NEW label \in limit.labels, Decides(label) PROVE GoesOn(obs, obs', "pending")
    <3>1. PICK hit : obs' = [obs EXCEPT !.stage = "pending", !.hit = hit]
      BY <2>2, Zenon DEF Decides, DecideAttributed
    <3> QED
      BY <3>1, Zenon DEF GoesOn
  <2>3. ASSUME StorePending \/ RecordStats
        PROVE  GoesOn(obs, obs', "stats") \/ GoesOn(obs, obs', "audit")
    BY <2>3, Zenon DEF StorePending, RecordStats, Goto, GoesOn
  <2> QED
    BY <1>5, <2>1, <2>2, <2>3
<1> QED
  BY <1>4, <1>6, HandlingGoesOn

(* The observer starts with nothing to handle. *)
LEMMA InitEvents == ObsInit => EventsKept
<1> SUFFICES ASSUME ObsInit PROVE EventsKept
  OBVIOUS
<1>1. AliveKept /\ PendingKept
  BY DEF ObsInit, AliveKept, PendingKept, EmptyMap
<1>2. RingKept
  BY DEF ObsInit, RingKept, IsSeq, Range
<1> QED
  BY <1>1, <1>2 DEF ObsInit, EventsKept

(* A process that is started or execs is one like the others. *)
LEMMA ProcessesKept ==
  ASSUME EventsKept,
         \/ \E pid \in limit.pids, p \in Program : Spawn(pid, p) \/ Exec(pid, p)
         \/ \E pid \in limit.pids : Exit(pid)
  PROVE  AliveKept'
<1>0. limit.pids \subseteq Pid /\ AliveKept
  BY ObservationAssumption DEF EventsKept
<1>1. ASSUME NEW pid \in limit.pids, NEW p \in Program, Spawn(pid, p) PROVE AliveKept'
  <2>1. /\ procs' = MapInsert(procs, pid, [start |-> births + 1, execs |-> 0, program |-> p])
        /\ births' = births + 1 /\ births \in Nat
    BY <1>0, <1>1 DEF Spawn, AliveKept
  <2>2. IsProcess([start |-> births + 1, execs |-> 0, program |-> p])
    BY <2>1 DEF IsProcess
  <2> QED
    BY <1>0, <2>1, <2>2 DEF AliveKept, MapInsert
<1>2. ASSUME NEW pid \in limit.pids, NEW p \in Program, Exec(pid, p) PROVE AliveKept'
  <2>1. /\ pid \in DOMAIN procs /\ IsProcess(procs[pid]) /\ births' = births
        /\ procs' = [procs EXCEPT ![pid].execs = 1, ![pid].program = p]
    BY <1>0, <1>2 DEF Exec, AliveKept
  <2>2. procs'[pid] = [start |-> procs[pid].start, execs |-> 1, program |-> p]
    BY <2>1, Zenon DEF IsProcess
  <2>3. DOMAIN procs' = DOMAIN procs /\ \A q \in DOMAIN procs \ {pid} : procs'[q] = procs[q]
    BY <2>1
  <2> QED
    BY <1>0, <2>1, <2>2, <2>3 DEF AliveKept, IsProcess
<1>3. ASSUME NEW pid \in limit.pids, Exit(pid) PROVE AliveKept'
  BY <1>0, <1>3 DEF Exit, AliveKept, MapRemove, Restrict
<1> QED
  BY <1>1, <1>2, <1>3

(* A connection is put into the ring as the probe writes it. *)
LEMMA ConnectKept ==
  ASSUME EventsKept, NEW pid \in limit.pids, NEW dest \in Dest, NEW padding \in Padding,
         Connect(pid, dest, padding)
  PROVE  RingKept'
<1> DEFINE r == [bytes |-> RingRecord(EventOf(pid, dest), padding),
                 by |-> [pid |-> pid, process |-> procs[pid], dest |-> dest]]
<1>1. ring' = Append(ring, r) /\ pid \in DOMAIN procs
  BY DEF Connect
<1>2. pid \in Pid /\ IsProcess(procs[pid])
  BY <1>1 DEF EventsKept, AliveKept
<1>3. FromProbe(r)
  BY <1>2 DEF FromProbe, IsBy
<1> HIDE DEF r
<1>4. RingKept
  BY DEF EventsKept
<1>5. ring \in Seq(Range(ring) \cup {r}) /\ r \in Range(ring) \cup {r}
  BY <1>4 DEF RingKept, IsSeq
<1>6. ring' \in Seq(Range(ring) \cup {r}) /\ Range(ring') = Range(ring) \cup {r} /\ Len(ring') = Len(ring) + 1
  BY <1>1, <1>5, AppendElements
<1>7. \A i \in 1 .. Len(ring') : ring'[i] = IF i = Len(ring) + 1 THEN r ELSE ring[i]
  BY <1>1, <1>5, <1>6
<1>8. \A i \in 1 .. Len(ring') : i # Len(ring) + 1 => i \in 1 .. Len(ring)
  BY <1>5, <1>6
<1>9. \A i \in 1 .. Len(ring') : FromProbe(ring'[i])
  BY <1>3, <1>4, <1>7, <1>8 DEF RingKept
<1> QED
  BY <1>6, <1>9 DEF RingKept, IsSeq

(* What poll_ring takes is the event of a connection. *)
LEMMA DequeueKept ==
  ASSUME EventsKept, Dequeue
  PROVE  /\ RingKept' /\ Handling(obs') /\ Len(ring) # 0 /\ obs'.by = ring[1].by /\ obs'.stage = "stat"
         /\ Len(ring') = Len(ring) - 1 /\ \A i \in 1 .. Len(ring') : ring'[i] = ring[i + 1]
<1>1. RingKept /\ ring # <<>> /\ ring' = Tail(ring)
  BY DEF EventsKept, Dequeue
<1>2. ring \in Seq(Range(ring)) /\ Len(ring) \in Nat \ {0} /\ Head(ring) = ring[1]
  BY <1>1 DEF RingKept, IsSeq
<1>3. /\ ring' \in Seq(Range(ring)) /\ Len(ring') = Len(ring) - 1
      /\ \A i \in 1 .. Len(ring') : ring'[i] = ring[i + 1]
  BY <1>1, <1>2
<1>4. RingKept'
  <2>1. \A i \in 1 .. Len(ring') : i + 1 \in 1 .. Len(ring)
    BY <1>2, <1>3
  <2>2. \A i \in 1 .. Len(ring') : FromProbe(ring'[i])
    BY <1>1, <1>3, <2>1 DEF RingKept
  <2>3. ring' \in Seq(Range(ring'))
    BY <1>3, RangeSequence
  <2> QED
    BY <2>2, <2>3 DEF RingKept, IsSeq
<1>5. FromProbe(ring[1])
  <2>1. 1 \in 1 .. Len(ring)
    BY <1>2
  <2> QED
    BY <1>1, <2>1 DEF RingKept
<1>6. PICK padding \in Padding : ring[1].bytes = RingRecord(EventOf(ring[1].by.pid, ring[1].by.dest), padding)
  BY <1>5 DEF FromProbe
<1>7. IsBy(ring[1].by) /\ IsEvent(EventOf(ring[1].by.pid, ring[1].by.dest)) /\ padding \in Bytes(4)
  BY <1>5, EventIs, DestsFit DEF FromProbe, IsBy
<1>8. ReadRecord(ring[1].bytes) = EventOf(ring[1].by.pid, ring[1].by.dest)
  BY <1>6, <1>7, RingKeepsEvents
<1>9. obs' = [stage |-> "stat", event |-> EventOf(ring[1].by.pid, ring[1].by.dest), by |-> ring[1].by,
              start |-> 0, exe |-> <<>>, cmdline |-> <<>>, hit |-> NoHit]
  BY <1>2, <1>8 DEF Dequeue
<1>10. Handling(obs')
  BY <1>7, <1>9 DEF Handling, HandlingStages
<1> QED
  BY <1>2, <1>3, <1>4, <1>9, <1>10

(* A verdict is stored under the address and port of the event. *)
LEMMA PendingStored ==
  ASSUME EventsKept, StorePending
  PROVE  PendingKept'
<1>1. PendingKept /\ Handling(obs)
  BY ObserverHandles DEF EventsKept
<1>2. obs.by.pid \in Pid /\ obs.by.dest \in Dest /\ obs.event = EventOf(obs.by.pid, obs.by.dest)
  BY <1>1 DEF Handling, IsBy
<1>3. obs.event.ipv4 = FromBe(obs.by.dest.octets) /\ obs.event.port = obs.by.dest.port
  BY <1>2, EventIs
<1>4. pending' = MapInsert(pending, DestKey(obs.by.dest), obs.by.dest)
  BY <1>3 DEF StorePending, DestKey
<1> QED
  BY <1>1, <1>2, <1>4 DEF PendingKept, MapInsert

(* Every step keeps records, event and pending verdicts together. *)
LEMMA EventsStep == EventsKept /\ [ObsNext]_obsVars => EventsKept'
<1> SUFFICES ASSUME EventsKept, [ObsNext]_obsVars PROVE EventsKept'
  OBVIOUS
<1>1. limit \in Scenario /\ AliveKept /\ RingKept /\ (obs = Idle \/ Handling(obs)) /\ PendingKept
  BY DEF EventsKept
<1>2. CASE \/ \E pid \in limit.pids, p \in Program : Spawn(pid, p) \/ Exec(pid, p)
           \/ \E pid \in limit.pids : Exit(pid)
  <2>1. AliveKept'
    BY <1>2, ProcessesKept
  <2>2. UNCHANGED <<limit, ring, obs, pending>>
    BY <1>2, Zenon DEF Spawn, Exec, Exit, tables
  <2> QED
    BY <1>1, <2>1, <2>2 DEF EventsKept, RingKept, PendingKept
<1>3. ASSUME NEW pid \in limit.pids, NEW dest \in Dest, NEW padding \in Padding, Connect(pid, dest, padding)
      PROVE  EventsKept'
  <2>1. RingKept'
    BY <1>3, ConnectKept
  <2>2. UNCHANGED <<limit, births, procs, obs, pending>>
    BY <1>3 DEF Connect, tables
  <2> QED
    BY <1>1, <2>1, <2>2 DEF EventsKept, AliveKept, PendingKept
<1>4. CASE \/ \E h \in Hostname, dest \in Dest, ttl \in NoteTtl : DnsNote(h, dest.octets, ttl)
           \/ DnsList \/ Tick \/ UNCHANGED obsVars
  <2>1. UNCHANGED <<limit, births, procs, ring, obs, pending>>
    BY <1>4, Zenon DEF DnsNote, DnsList, Tick, obsVars, world, tables
  <2> QED
    BY <1>1, <2>1 DEF EventsKept, AliveKept, RingKept, PendingKept
<1>5. CASE Observe
  <2>1. CASE Dequeue
    <3>1. RingKept' /\ Handling(obs')
      BY <2>1, DequeueKept
    <3>2. UNCHANGED <<limit, births, procs, pending>>
      BY <2>1 DEF Dequeue, ObsUnchanged, world, tables
    <3> QED
      BY <1>1, <3>1, <3>2 DEF EventsKept, AliveKept, PendingKept
  <2>2. CASE Reads \/ (\E label \in limit.labels : Decides(label)) \/ RecordStats
    <3>1. Handling(obs')
      BY <2>2, ObserverHandles
    <3>2. UNCHANGED <<limit, births, procs, ring, pending>>
      BY <2>2, Zenon DEF Reads, Decides, DecideAttributed, RecordStats, ObsUnchanged, world, tables
    <3> QED
      BY <1>1, <3>1, <3>2 DEF EventsKept, AliveKept, RingKept, PendingKept
  <2>3. CASE StorePending
    <3>1. Handling(obs') /\ PendingKept'
      BY <2>3, ObserverHandles, PendingStored
    <3>2. UNCHANGED <<limit, births, procs, ring>>
      BY <2>3 DEF StorePending, ObsUnchanged, world
    <3> QED
      BY <1>1, <3>1, <3>2 DEF EventsKept, AliveKept, RingKept
  <2>4. CASE AppendAudit
    <3>1. obs' = Idle /\ UNCHANGED <<limit, births, procs, ring, pending>>
      BY <2>4 DEF AppendAudit, ObsUnchanged, world
    <3> QED
      BY <1>1, <3>1 DEF EventsKept, AliveKept, RingKept, PendingKept
  <2> QED
    BY <1>5, <2>1, <2>2, <2>3, <2>4, ObserverSteps
<1> QED
  BY <1>2, <1>3, <1>4, <1>5 DEF ObsNext

(* Every record of the ring, and the event handle_event is at (observe.rs), is
   what try_tcp_connect wrote for one connection, and every pending verdict is
   stored under the key of a destination that was connected to. *)
THEOREM EventsInvariant == ObsSpec => []EventsKept
  BY InitEvents, EventsStep, PTL DEF ObsSpec

(* The key under which observe.rs stores a verdict is the one that enforce *)
(* computes from the packets of the connection, for every destination, on  *)
(* hosts of either byte order.                                             *)
THEOREM EventAndPacketAgreeHolds == ObsSpec => []EventAndPacketAgree
<1>1. EventsKept => EventAndPacketAgree
  <2> SUFFICES ASSUME EventsKept, NEW k \in DOMAIN pending, NEW ihl \in {5, 6}
               PROVE  TcpDestination(Packet(pending[k], ihl)) = k
    BY DEF EventAndPacketAgree
  <2>1. pending[k] \in Dest /\ k = DestKey(pending[k])
    BY DEF EventsKept, PendingKept
  <2>2. IsDest(pending[k]) /\ ihl \in 5 .. 15
    BY <2>1, DestsFit
  <2> QED
    BY <2>1, <2>2, PacketShowsDestination
<1> QED
  BY <1>1, EventsInvariant, PTL

-----------------------------------------------------------------------------
(* Tables                                                                  *)

(* DnsCache::expire leaves the names that live, in their order. *)
LEMMA ExpireKept ==
  ASSUME NEW cap \in Nat, NEW t, Kept(t, cap)
  PROVE  LET p == Expire(t)
         IN  /\ Kept(p, cap)
             /\ DOMAIN p.entries \subseteq DOMAIN t.entries
             /\ \A k \in DOMAIN p.entries :
                  p.entries[k] = t.entries[k] /\ ~(now >= t.entries[k].expires)
<1> DEFINE live == {k \in DOMAIN t.entries : ~(now >= t.entries[k].expires)}
           old == {k \in DOMAIN t.entries : now >= t.entries[k].expires}
           D == Range(t.order)
           p == Expire(t)
<1>1. DOMAIN t.entries \ old = live
  OBVIOUS
<1>2. p.entries = [k \in live |-> t.entries[k]] /\ p.order = Retain(t.order, live)
  BY <1>1 DEF Expire, MapRemove, Restrict
<1>3. p = [entries |-> p.entries, order |-> p.order]
  BY DEF Expire
<1>4. t.order \in Seq(D) /\ D = DOMAIN t.entries /\ IsInjective(t.order) /\ IsFiniteSet(DOMAIN t.entries)
  BY DEF Kept, IsTable, WellKept
<1>5. live \subseteq DOMAIN t.entries
  OBVIOUS
<1> HIDE DEF live, D
<1>6. p.order \in Seq(D) /\ Range(p.order) = D \cap live /\ IsInjective(p.order)
  BY <1>2, <1>4, RetainProperties DEF D
<1>7. IsFiniteSet(live) /\ Cardinality(live) <= Cardinality(DOMAIN t.entries)
  BY <1>4, <1>5, FS_Subset
<1>8. Cardinality(live) \in Nat /\ Cardinality(DOMAIN t.entries) \in Nat /\ Cardinality(DOMAIN t.entries) <= cap
  BY <1>4, <1>7, FS_CardinalityType DEF Kept, WellKept
<1>9. DOMAIN p.entries = live /\ Range(p.order) = live
  BY <1>2, <1>4, <1>5, <1>6
<1>10. p.order \in Seq(Range(p.order))
  BY <1>6, RangeSequence
<1> HIDE DEF p
<1>11. Kept(p, cap)
  BY <1>3, <1>6, <1>7, <1>8, <1>9, <1>10 DEF Kept, IsTable, WellKept
<1> QED
  BY <1>2, <1>5, <1>11 DEF live, p

-----------------------------------------------------------------------------
(* Names                                                                   *)

(* p has been the process pid, which is a later one if it is not p.  The   *)
(* processes alive are ps, after b births.                                 *)
HasBeen(p, pid, ps, b) ==
  /\ p.start <= b
  /\ pid \in DOMAIN ps =>
       \/ ps[pid] = p \/ p.start < ps[pid].start
       \/ p.start = ps[pid].start /\ p.execs < ps[pid].execs

(* The connecting process of a handled event is still what it was. *)
Lasts(o, ps) == o.by.pid \in DOMAIN ps /\ ps[o.by.pid] = o.by.process

(* What was read so far is p's. *)
ReadOf(o, p) ==
  /\ o.stage \in {"exe", "cmdline", "status"} => o.start = p.start
  /\ o.stage \in {"cmdline", "status"} => o.exe = p.program.exe
  /\ o.stage = "status" => o.cmdline = p.program.cmdline

Identifies(o, ps, b) ==
  /\ HasBeen(o.by.process, o.by.pid, ps, b)
  /\ Lasts(o, ps) => ReadOf(o, o.by.process)

Identified ==
  /\ \A pid \in DOMAIN procs : procs[pid].start <= births
  /\ \A i \in 1 .. Len(ring) : HasBeen(ring[i].by.process, ring[i].by.pid, procs, births)
  /\ obs = Idle \/ Identifies(obs, procs, births)
  /\ LiveConnectorNamed

(* What exec leaves of a process. *)
ExecOf(pid, program) ==
  /\ pid \in DOMAIN procs /\ procs[pid].execs = 0 /\ procs[pid].start \in Nat /\ births' = births
  /\ procs'[pid] = [start |-> procs[pid].start, execs |-> 1, program |-> program]
  /\ DOMAIN procs' = DOMAIN procs /\ \A q \in DOMAIN procs \ {pid} : procs'[q] = procs[q]

(* A process that is gone does not come back: one that takes its pid, or   *)
(* the program it executes, makes another one of it.                       *)
LEMMA GoneForGood ==
  ASSUME EventsKept, Identified,
         \/ \E pid \in limit.pids, p \in Program : Spawn(pid, p) \/ Exec(pid, p)
         \/ \E pid \in limit.pids : Exit(pid)
  PROVE  /\ \A pid \in DOMAIN procs' : procs'[pid].start <= births'
         /\ \A p, x : IsProcess(p) /\ HasBeen(p, x, procs, births) =>
              /\ HasBeen(p, x, procs', births')
              /\ x \in DOMAIN procs' /\ procs'[x] = p => x \in DOMAIN procs /\ procs[x] = p
<1>0. /\ births \in Nat /\ \A x \in DOMAIN procs : procs[x].start <= births
      /\ \A x \in DOMAIN procs : IsProcess(procs[x])
  BY DEF EventsKept, AliveKept, Identified
<1>1. ASSUME NEW pid \in limit.pids, NEW program \in Program, Spawn(pid, program),
             NEW p, NEW x, IsProcess(p), HasBeen(p, x, procs, births)
      PROVE  /\ HasBeen(p, x, procs', births')
             /\ x \in DOMAIN procs' /\ procs'[x] = p => x \in DOMAIN procs /\ procs[x] = p
  <2>1. /\ procs' = MapInsert(procs, pid, [start |-> births + 1, execs |-> 0, program |-> program])
        /\ births' = births + 1
    BY <1>1 DEF Spawn
  <2>2. p.start \in Nat /\ p.start <= births /\ p.start < births + 1
    BY <1>0, <1>1 DEF IsProcess, HasBeen
  <2>3. CASE x = pid
    <3>1. procs'[x].start = births + 1
      BY <2>1, <2>3 DEF MapInsert
    <3> QED
      BY <1>0, <2>1, <2>2, <3>1, SMTT(30) DEF HasBeen
  <2>4. CASE x # pid
    <3>1. (x \in DOMAIN procs' <=> x \in DOMAIN procs) /\ (x \in DOMAIN procs' => procs'[x] = procs[x])
      BY <2>1, <2>4 DEF MapInsert
    <3> QED
      BY <1>0, <1>1, <2>1, <2>2, <3>1, SMTT(60) DEF HasBeen
  <2> QED
    BY <2>3, <2>4
<1>2. ASSUME NEW pid \in limit.pids, NEW program \in Program, Exec(pid, program)
      PROVE  ExecOf(pid, program)
  <2>1. /\ pid \in DOMAIN procs /\ IsProcess(procs[pid]) /\ births' = births /\ procs[pid].execs = 0
        /\ procs' = [procs EXCEPT ![pid].execs = 1, ![pid].program = program]
    BY <1>0, <1>2 DEF Exec
  <2>2. procs'[pid] = [start |-> procs[pid].start, execs |-> 1, program |-> program]
    BY <2>1, Zenon DEF IsProcess
  <2> QED
    BY <2>1, <2>2 DEF IsProcess, ExecOf
<1>3. ASSUME NEW pid \in limit.pids, NEW program \in Program, Exec(pid, program),
             NEW p, NEW x, IsProcess(p), HasBeen(p, x, procs, births)
      PROVE  /\ HasBeen(p, x, procs', births')
             /\ x \in DOMAIN procs' /\ procs'[x] = p => x \in DOMAIN procs /\ procs[x] = p
  <2>0. ExecOf(pid, program)
    BY <1>2, <1>3
  <2>1. CASE x = pid
    <3>1. /\ p.start \in Nat /\ p.execs \in Nat /\ procs[pid].start \in Nat /\ procs[pid].execs = 0
          /\ procs'[x].start = procs[pid].start /\ procs'[x].execs = 1 /\ x \in DOMAIN procs
      BY <1>3, <2>0, <2>1 DEF IsProcess, ExecOf
    <3>2. procs[pid] = p \/ p.start < procs[pid].start
      BY <1>3, <2>1, <3>1 DEF HasBeen
    <3>3. HasBeen(p, x, procs', births')
      <4>1. births' = births /\ p.start <= births
        BY <1>3, <2>0 DEF HasBeen, ExecOf
      <4>2. \/ p.start < procs'[x].start
            \/ p.start = procs'[x].start /\ p.execs < procs'[x].execs
        BY <3>1, <3>2
      <4> QED
        BY <4>1, <4>2 DEF HasBeen
    <3>4. procs'[x] # p
      BY <3>1, <3>2
    <3> QED
      BY <3>3, <3>4
  <2>2. CASE x # pid
    <3>1. (x \in DOMAIN procs' <=> x \in DOMAIN procs) /\ (x \in DOMAIN procs' => procs'[x] = procs[x])
      BY <2>0, <2>2 DEF ExecOf
    <3> QED
      BY <1>3, <2>0, <3>1 DEF HasBeen, ExecOf
  <2> QED
    BY <2>1, <2>2
<1>4. ASSUME NEW pid \in limit.pids, Exit(pid), NEW p, NEW x, IsProcess(p), HasBeen(p, x, procs, births)
      PROVE  /\ HasBeen(p, x, procs', births')
             /\ x \in DOMAIN procs' /\ procs'[x] = p => x \in DOMAIN procs /\ procs[x] = p
  <2>1. /\ births' = births /\ DOMAIN procs' \subseteq DOMAIN procs
        /\ \A y \in DOMAIN procs' : procs'[y] = procs[y]
    BY <1>4 DEF Exit, MapRemove, Restrict
  <2> QED
    BY <1>4, <2>1 DEF HasBeen
<1>5. \A pid \in DOMAIN procs' : procs'[pid].start <= births'
  <2>1. ASSUME NEW pid \in limit.pids, NEW p \in Program, Spawn(pid, p)
        PROVE  \A x \in DOMAIN procs' : procs'[x].start <= births'
    <3>1. /\ procs' = MapInsert(procs, pid, [start |-> births + 1, execs |-> 0, program |-> p])
          /\ births' = births + 1
      BY <2>1 DEF Spawn
    <3>2. /\ DOMAIN procs' = DOMAIN procs \cup {pid} /\ procs'[pid].start = births + 1
          /\ \A x \in DOMAIN procs \ {pid} : procs'[x] = procs[x]
      BY <3>1 DEF MapInsert
    <3>3. \A x \in DOMAIN procs : procs[x].start \in Nat
      BY <1>0 DEF IsProcess
    <3> QED
      BY <1>0, <3>1, <3>2, <3>3
  <2>2. ASSUME NEW pid \in limit.pids, NEW p \in Program, Exec(pid, p)
        PROVE  \A x \in DOMAIN procs' : procs'[x].start <= births'
    <3>1. ExecOf(pid, p)
      BY <1>2, <2>2
    <3>2. \A x \in DOMAIN procs : procs'[x].start = procs[x].start
      BY <3>1 DEF ExecOf
    <3> QED
      BY <1>0, <3>1, <3>2 DEF ExecOf
  <2>3. ASSUME NEW pid \in limit.pids, Exit(pid)
        PROVE  \A x \in DOMAIN procs' : procs'[x].start <= births'
    BY <1>0, <2>3 DEF Exit, MapRemove, Restrict
  <2> QED
    BY <2>1, <2>2, <2>3
<1> QED
  BY <1>1, <1>3, <1>4, <1>5

(* The event names the process that connected. *)
LEMMA EventPid ==
  ASSUME NEW o, Handling(o)
  PROVE  o.event.pid = o.by.pid /\ o.event.ipv4 = FromBe(o.by.dest.octets) /\ o.event.port = o.by.dest.port
<1>1. o.by.pid \in Pid /\ o.by.dest \in Dest /\ o.event = EventOf(o.by.pid, o.by.dest)
  BY DEF Handling, IsBy
<1>2. EventOf(o.by.pid, o.by.dest) = [pid |-> o.by.pid, ticks |-> 0, ipv4 |-> FromBe(o.by.dest.octets),
                                      port |-> o.by.dest.port]
  BY <1>1, EventIs
<1> QED
  BY <1>1, <1>2

(* Each file of /proc is the connecting process's while that one lasts. *)
LEMMA ReadsIdentify ==
  ASSUME EventsKept, Reads, Identifies(obs, procs, births)
  PROVE  Identifies(obs', procs, births)
<1>1. Handling(obs) /\ Handling(obs') /\ obs'.by = obs.by
  BY ObserverHandles
<1>2. obs.event.pid = obs.by.pid
  BY <1>1, EventPid
<1> SUFFICES ASSUME Lasts(obs, procs) PROVE ReadOf(obs', obs.by.process)
  BY <1>1 DEF Identifies, Lasts
<1>3. ReadOf(obs, obs.by.process) /\ procs[obs.event.pid] = obs.by.process /\ Seen = obs.by.process.program
  BY <1>2 DEF Identifies, Lasts, Seen
<1>4. obs = [stage |-> obs.stage, event |-> obs.event, by |-> obs.by, start |-> obs.start, exe |-> obs.exe,
             cmdline |-> obs.cmdline, hit |-> obs.hit]
  BY <1>1 DEF Handling
<1>5. CASE At("stat") /\ obs' = [obs EXCEPT !.stage = "exe", !.start = procs[obs.event.pid].start]
  <2>1. obs'.stage = "exe" /\ obs'.start = obs.by.process.start
    BY <1>3, <1>4, <1>5
  <2> QED
    BY <2>1 DEF ReadOf
<1>6. CASE At("exe") /\ obs' = [obs EXCEPT !.stage = "cmdline", !.exe = Seen.exe]
  <2>1. obs'.stage = "cmdline" /\ obs'.start = obs.start /\ obs'.exe = obs.by.process.program.exe
    BY <1>3, <1>4, <1>6
  <2>2. obs.start = obs.by.process.start
    BY <1>3, <1>6 DEF At, ReadOf
  <2> QED
    BY <2>1, <2>2 DEF ReadOf
<1>7. CASE At("cmdline") /\ obs' = [obs EXCEPT !.stage = "status", !.cmdline = Seen.cmdline]
  <2>1. /\ obs'.stage = "status" /\ obs'.start = obs.start /\ obs'.exe = obs.exe
        /\ obs'.cmdline = obs.by.process.program.cmdline
    BY <1>3, <1>4, <1>7
  <2>2. obs.start = obs.by.process.start /\ obs.exe = obs.by.process.program.exe
    BY <1>3, <1>7 DEF At, ReadOf
  <2> QED
    BY <2>1, <2>2 DEF ReadOf
<1>8. CASE Goto("pending")
  <2>1. obs'.stage = "pending"
    BY <1>4, <1>8 DEF Goto
  <2> QED
    BY <2>1 DEF ReadOf
<1> QED
  BY <1>5, <1>6, <1>7, <1>8 DEF Reads

(* decide_attributed is given the process that connected while that lasts. *)
LEMMA DecidesIdentify ==
  ASSUME EventsKept, NEW label \in limit.labels, Decides(label), Identifies(obs, procs, births)
  PROVE  LiveConnectorNamed'
<1>1. Handling(obs)
  BY ObserverHandles
<1>2. obs.event.pid = obs.by.pid
  BY <1>1, EventPid
<1>3. PICK hit : last' = [label |-> label, by |-> obs.by, id |-> ReadId, hit |-> hit, at |-> now,
                          unchanged |-> Alive /\ procs[obs.by.pid] = obs.by.process]
  BY DEF Decides, DecideAttributed
<1>4. last'.by = obs.by /\ last'.id = ReadId
  BY <1>3
<1>5. last'.unchanged = (Alive /\ procs[obs.by.pid] = obs.by.process)
  BY <1>3
<1>6. ASSUME Alive, procs[obs.by.pid] = obs.by.process
      PROVE  ReadId = [pid |-> obs.by.pid, start |-> obs.by.process.start, exe |-> obs.by.process.program.exe,
                       cmdline |-> obs.by.process.program.cmdline, uid |-> obs.by.process.program.uid]
  <2>1. ReadOf(obs, obs.by.process) /\ obs.stage = "status"
    BY <1>2, <1>6 DEF Identifies, Lasts, Alive, Decides, At
  <2>2. Seen.uid = obs.by.process.program.uid
    BY <1>2, <1>6 DEF Seen
  <2> QED
    BY <1>2, <2>1, <2>2 DEF ReadOf, ReadId
<1> QED
  BY <1>4, <1>5, <1>6, Zenon DEF LiveConnectorNamed

(* At first nobody was named. *)
LEMMA InitIdentified == ObsInit => Identified
<1> SUFFICES ASSUME ObsInit PROVE Identified
  OBVIOUS
<1>1. DOMAIN procs = {} /\ Len(ring) = 0 /\ obs = Idle /\ last = Nobody
  BY DEF ObsInit, EmptyMap
<1> QED
  BY <1>1 DEF Identified, LiveConnectorNamed

(* No step names a live process wrongly. *)
LEMMA IdentifiedStep == EventsKept /\ Identified /\ [ObsNext]_obsVars => Identified'
<1> SUFFICES ASSUME EventsKept, Identified, [ObsNext]_obsVars PROVE Identified'
  OBVIOUS
<1>1. /\ \A pid \in DOMAIN procs : procs[pid].start <= births
      /\ \A i \in 1 .. Len(ring) : HasBeen(ring[i].by.process, ring[i].by.pid, procs, births)
      /\ obs = Idle \/ Identifies(obs, procs, births)
      /\ LiveConnectorNamed
  BY DEF Identified
<1>2. \A i \in 1 .. Len(ring) : IsProcess(ring[i].by.process)
  BY DEF EventsKept, RingKept, FromProbe, IsBy
<1>3. CASE \/ \E pid \in limit.pids, p \in Program : Spawn(pid, p) \/ Exec(pid, p)
           \/ \E pid \in limit.pids : Exit(pid)
  <2>1. UNCHANGED <<ring, obs, last>>
    BY <1>3, Zenon DEF Spawn, Exec, Exit
  <2>2. /\ \A pid \in DOMAIN procs' : procs'[pid].start <= births'
        /\ \A p, x : IsProcess(p) /\ HasBeen(p, x, procs, births) =>
             /\ HasBeen(p, x, procs', births')
             /\ x \in DOMAIN procs' /\ procs'[x] = p => x \in DOMAIN procs /\ procs[x] = p
    BY <1>3, GoneForGood
  <2>3. \A i \in 1 .. Len(ring) : HasBeen(ring[i].by.process, ring[i].by.pid, procs', births')
    BY <1>1, <1>2, <2>2
  <2>4. obs = Idle \/ Identifies(obs, procs', births')
    <3> SUFFICES ASSUME obs # Idle PROVE Identifies(obs, procs', births')
      OBVIOUS
    <3>1. IsProcess(obs.by.process) /\ Identifies(obs, procs, births)
      BY <1>1 DEF EventsKept, Handling, IsBy
    <3> QED
      BY <2>2, <3>1 DEF Identifies, Lasts
  <2> QED
    BY <1>1, <2>1, <2>2, <2>3, <2>4 DEF Identified, LiveConnectorNamed
<1>4. ASSUME NEW pid \in limit.pids, NEW dest \in Dest, NEW padding \in Padding, Connect(pid, dest, padding)
      PROVE  Identified'
  <2> DEFINE r == [bytes |-> RingRecord(EventOf(pid, dest), padding),
                   by |-> [pid |-> pid, process |-> procs[pid], dest |-> dest]]
  <2>1. ring' = Append(ring, r) /\ pid \in DOMAIN procs /\ UNCHANGED <<procs, births, obs, last>>
    BY <1>4 DEF Connect
  <2>2. HasBeen(r.by.process, r.by.pid, procs, births)
    BY <1>1, <2>1, Zenon DEF HasBeen
  <2> HIDE DEF r
  <2>3. ring \in Seq(Range(ring)) /\ Len(ring) \in Nat
    BY DEF EventsKept, RingKept, IsSeq
  <2>4. Len(ring') = Len(ring) + 1 /\ \A i \in 1 .. Len(ring) + 1 : ring'[i] = IF i = Len(ring) + 1 THEN r ELSE ring[i]
    <3>1. ring \in Seq(Range(ring) \cup {r}) /\ r \in Range(ring) \cup {r}
      BY <2>3, SMTT(30)
    <3> QED
      BY <2>1, <3>1
  <2>5. \A i \in 1 .. Len(ring') : HasBeen(ring'[i].by.process, ring'[i].by.pid, procs, births)
    BY <1>1, <2>2, <2>3, <2>4, SMTT(60)
  <2> QED
    BY <1>1, <2>1, <2>5 DEF Identified, LiveConnectorNamed
<1>5. CASE \/ \E h \in Hostname, dest \in Dest, ttl \in NoteTtl : DnsNote(h, dest.octets, ttl)
           \/ DnsList \/ Tick \/ UNCHANGED obsVars
  <2>1. UNCHANGED <<births, procs, ring, obs, last>>
    BY <1>5, Zenon DEF DnsNote, DnsList, Tick, obsVars, world
  <2> QED
    BY <1>1, <2>1 DEF Identified, LiveConnectorNamed
<1>6. CASE Observe
  <2>1. CASE Dequeue
    <3>1. /\ Len(ring) \in Nat /\ Len(ring) # 0 /\ obs'.by = ring[1].by /\ obs'.stage = "stat"
          /\ Len(ring') = Len(ring) - 1 /\ \A i \in 1 .. Len(ring') : ring'[i] = ring[i + 1]
      BY <2>1, DequeueKept, SMTT(60) DEF EventsKept, RingKept, IsSeq
    <3>2. UNCHANGED <<births, procs, last>>
      BY <2>1, SMTT(30) DEF Dequeue, ObsUnchanged, world
    <3>3. \A i \in 1 .. Len(ring') : HasBeen(ring'[i].by.process, ring'[i].by.pid, procs, births)
      BY <1>1, <3>1, SMTT(30)
    <3>4. Identifies(obs', procs, births)
      BY <1>1, <3>1, SMTT(60) DEF Identifies, ReadOf
    <3> QED
      BY <1>1, <3>2, <3>3, <3>4 DEF Identified, LiveConnectorNamed
  <2>2. CASE Reads
    <3>1. UNCHANGED <<births, procs, ring, last>> /\ Handling(obs)
      BY <2>2, ObserverHandles DEF Reads, world
    <3>2. Identifies(obs', procs, births)
      BY <1>1, <2>2, <3>1, ReadsIdentify, SMTT(30) DEF Handling, Idle, HandlingStages
    <3> QED
      BY <1>1, <3>1, <3>2 DEF Identified, LiveConnectorNamed
  <2>3. ASSUME NEW label \in limit.labels, Decides(label) PROVE Identified'
    <3>1. Handling(obs) /\ obs'.by = obs.by /\ Handling(obs')
      BY <2>3, ObserverHandles
    <3>2. UNCHANGED <<births, procs, ring>> /\ \E h : obs' = [obs EXCEPT !.stage = "pending", !.hit = h]
      BY <2>3, Zenon DEF Decides, DecideAttributed, ObsUnchanged, world
    <3>3. obs'.stage = "pending"
      BY <3>1, <3>2 DEF Handling
    <3>4. Identifies(obs, procs, births)
      BY <1>1, <3>1 DEF Handling, Idle, HandlingStages
    <3>5. Identifies(obs', procs, births)
      BY <3>1, <3>3, <3>4 DEF Identifies, ReadOf
    <3>6. LiveConnectorNamed'
      BY <2>3, <3>4, DecidesIdentify
    <3> QED
      BY <1>1, <3>2, <3>5, <3>6 DEF Identified
  <2>4. CASE StorePending \/ RecordStats
    <3>1. Handling(obs) /\ obs'.by = obs.by
      BY <2>4, ObserverHandles
    <3>2. /\ UNCHANGED <<births, procs, ring, last>>
          /\ obs' = [obs EXCEPT !.stage = "stats"] \/ obs' = [obs EXCEPT !.stage = "audit"]
      BY <2>4 DEF StorePending, RecordStats, Goto, ObsUnchanged, world
    <3>3. obs'.stage = "stats" \/ obs'.stage = "audit"
      BY <3>1, <3>2 DEF Handling
    <3>4. Identifies(obs, procs, births)
      BY <1>1, <3>1, SMTT(30) DEF Handling, Idle, HandlingStages
    <3>5. Identifies(obs', procs, births)
      BY <3>1, <3>3, <3>4, SMTT(30) DEF Identifies, ReadOf
    <3> QED
      BY <1>1, <3>2, <3>5 DEF Identified, LiveConnectorNamed
  <2>5. CASE AppendAudit
    <3>1. obs' = Idle /\ UNCHANGED <<births, procs, ring, last>>
      BY <2>5 DEF AppendAudit, ObsUnchanged, world
    <3> QED
      BY <1>1, <3>1 DEF Identified, LiveConnectorNamed
  <2> QED
    BY <1>6, <2>1, <2>2, <2>3, <2>4, <2>5, ObserverSteps, SMTT(30)
<1> QED
  BY <1>3, <1>4, <1>5, <1>6 DEF ObsNext

(* Every name the cache holds is the last one noted for its address. *)
NamesKept ==
  /\ now \in Nat /\ Kept(dns, DnsSize)
  /\ \A k \in DOMAIN dns.entries :
       k \in DOMAIN noted /\ noted[k] = dns.entries[k] /\ noted[k].expires \in Nat

(* No table has the capacity zero. *)
LEMMA Capacities ==
  /\ CacheSize \in Nat \ {0} /\ RecentKeys \in Nat \ {0} /\ PerKey \in Nat \ {0}
  /\ DnsSize \in Nat \ {0} /\ StatsKeys \in Nat \ {0}
BY ObservationAssumption, RecordsAssumption

(* No name is cached at first. *)
LEMMA InitNames == ObsInit => NamesKept
<1>1. Kept(EmptyTable, DnsSize) /\ DOMAIN EmptyTable.entries = {}
  BY Capacities, EmptyKept
<1> QED
  BY <1>1 DEF ObsInit, NamesKept

(* What expire leaves of the names. *)
LEMMA ExpiredNames ==
  ASSUME NamesKept
  PROVE  /\ Kept(Expire(dns), DnsSize)
         /\ \A k \in DOMAIN Expire(dns).entries :
              /\ k \in DOMAIN noted /\ noted[k] = Expire(dns).entries[k] /\ noted[k].expires \in Nat
              /\ now < noted[k].expires
<1>1. Kept(dns, DnsSize) /\ DnsSize \in Nat
  BY Capacities DEF NamesKept
<1> DEFINE p == Expire(dns)
<1>2. /\ Kept(p, DnsSize) /\ DOMAIN p.entries \subseteq DOMAIN dns.entries
      /\ \A k \in DOMAIN p.entries : p.entries[k] = dns.entries[k] /\ ~(now >= dns.entries[k].expires)
  BY <1>1, ExpireKept
<1> HIDE DEF p
<1>3. \A k \in DOMAIN p.entries : k \in DOMAIN noted /\ noted[k] = p.entries[k] /\ noted[k].expires \in Nat
  BY <1>2 DEF NamesKept
<1>4. \A k \in DOMAIN p.entries : now < noted[k].expires
  BY <1>2, <1>3 DEF NamesKept
<1> QED
  BY <1>2, <1>3, <1>4 DEF p

(* Notes, expiry and eviction leave names that are the last ones noted. *)
LEMMA NamesStep == NamesKept /\ EventsKept /\ [ObsNext]_obsVars => NamesKept'
<1> SUFFICES ASSUME NamesKept, EventsKept, [ObsNext]_obsVars PROVE NamesKept'
  OBVIOUS
<1>1. ASSUME NEW h \in Hostname, NEW dest \in Dest, NEW ttl \in NoteTtl, DnsNote(h, dest.octets, ttl)
      PROVE  NamesKept'
  <2> DEFINE key == FromNe(dest.octets)
             name == [hostname |-> lower[h], expires |-> now + ttl]
             t == Expire(dns)
             p == Put(t, DnsSize, key, name)
  <2>1. dns' = p /\ noted' = MapInsert(noted, key, dns'.entries[key]) /\ now' = now
    BY <1>1 DEF DnsNote
  <2>2. name.expires \in Nat /\ now \in Nat
    BY ObservationAssumption, SMTT(30) DEF NamesKept
  <2> HIDE DEF t, name
  <2>3. /\ Kept(t, DnsSize)
        /\ \A k \in DOMAIN t.entries :
             k \in DOMAIN noted /\ noted[k] = t.entries[k] /\ noted[k].expires \in Nat
    BY ExpiredNames DEF t
  <2>4. /\ Kept(p, DnsSize) /\ key \in DOMAIN p.entries /\ p.entries[key] = name
        /\ DOMAIN p.entries \subseteq DOMAIN t.entries \cup {key}
        /\ \A x \in DOMAIN p.entries \ {key} : p.entries[x] = t.entries[x]
    BY <2>3, Capacities, PutKept, SMTT(60)
  <2> HIDE DEF p, key
  <2>5. \A k \in DOMAIN p.entries :
          k \in DOMAIN noted' /\ noted'[k] = p.entries[k] /\ noted'[k].expires \in Nat
    BY <2>1, <2>2, <2>3, <2>4 DEF MapInsert
  <2> QED
    BY <2>1, <2>2, <2>4, <2>5 DEF NamesKept
<1>2. ASSUME dns' = Expire(dns), UNCHANGED <<now, noted>> PROVE NamesKept'
  BY <1>2, ExpiredNames DEF NamesKept
<1>3. ASSUME UNCHANGED <<dns, now, noted>> PROVE NamesKept'
  BY <1>3 DEF NamesKept
<1>4. CASE Tick
  <2>1. now' = now + 1 /\ UNCHANGED <<dns, noted>>
    BY <1>4 DEF Tick, tables
  <2> QED
    BY <2>1 DEF NamesKept
<1>5. CASE DnsList
  BY <1>2, <1>5 DEF DnsList
<1>6. CASE \/ \E pid \in limit.pids, p \in Program : Spawn(pid, p) \/ Exec(pid, p)
           \/ \E pid \in limit.pids : Exit(pid)
           \/ \E pid \in limit.pids, dest \in Dest, padding \in Padding : Connect(pid, dest, padding)
           \/ UNCHANGED obsVars
  BY <1>3, <1>6, Zenon DEF Spawn, Exec, Exit, Connect, tables, obsVars
<1>7. CASE Observe
  <2>1. CASE Dequeue \/ Reads \/ StorePending \/ RecordStats \/ AppendAudit
    BY <1>3, <2>1 DEF Dequeue, Reads, StorePending, RecordStats, AppendAudit, ObsUnchanged, tables
  <2>2. ASSUME NEW label \in limit.labels, Decides(label) PROVE NamesKept'
    BY <1>2, <2>2 DEF Decides, DecideAttributed, ObsUnchanged
  <2> QED
    BY <1>7, <2>1, <2>2, ObserverSteps
<1> QED
  BY <1>1, <1>4, <1>5, <1>6, <1>7 DEF ObsNext

(* A connection is judged under a name that is the last noted and lives. *)
LEMMA DecidesFresh ==
  ASSUME NamesKept, NEW label \in limit.labels, Decides(label)
  PROVE  NameIsFresh
<1> DEFINE k == obs.event.ipv4
<1>1. PICK hit : /\ hit = [executable |-> ReadId.exe, host |-> HostFor(Expire(dns), k),
                           ipv4 |-> ShownAddress(k), port |-> obs.event.port, uid |-> ReadId.uid,
                           verdict |-> label]
                 /\ last' = [label |-> label, by |-> obs.by, id |-> ReadId, hit |-> hit, at |-> now,
                             unchanged |-> Alive /\ procs[obs.by.pid] = obs.by.process]
  BY SMTT(30) DEF Decides, DecideAttributed
<1>2. last'.hit.host = HostFor(Expire(dns), k) /\ last'.hit.ipv4 = ShownAddress(k)
  BY <1>1, SMTT(30)
<1>3. CASE Holds(Expire(dns), k)
  <2>1. HostFor(Expire(dns), k) = Expire(dns).entries[k].hostname /\ k \in DOMAIN Expire(dns).entries
    BY <1>3 DEF HostFor, Holds
  <2>2. k \in DOMAIN noted /\ noted[k] = Expire(dns).entries[k] /\ now < noted[k].expires
    BY <2>1, ExpiredNames
  <2> QED
    BY <1>2, <2>1, <2>2, SMTT(30) DEF NameIsFresh
<1>4. CASE ~Holds(Expire(dns), k)
  BY <1>2, <1>4 DEF HostFor, NameIsFresh
<1> QED
  BY <1>3, <1>4

(* attribute and host_for: a connection is recorded under the program that *)
(* made it, as long as that one lasts, and under the newest living name of *)
(* its address, for all processes, names and their order of events.        *)
THEOREM NamedRightHolds == ObsSpec => NamedRight
<1>1. ObsInit => EventsKept /\ Identified /\ NamesKept
  BY InitEvents, InitIdentified, InitNames
<1>2. EventsKept /\ Identified /\ NamesKept /\ [ObsNext]_obsVars => (EventsKept /\ Identified /\ NamesKept)'
  BY EventsStep, IdentifiedStep, NamesStep
<1>3. EventsKept /\ Identified /\ NamesKept /\ [ObsNext]_obsVars
        => [LiveConnectorNamed' /\ (last' # last => NameIsFresh)]_obsVars
  <2> SUFFICES ASSUME EventsKept, Identified, NamesKept, ObsNext
               PROVE  LiveConnectorNamed' /\ (last' # last => NameIsFresh)
    OBVIOUS
  <2>1. LiveConnectorNamed'
    BY IdentifiedStep DEF Identified
  <2>2. ASSUME last' # last PROVE \E label \in limit.labels : Decides(label)
    <3>1. Observe
      BY <2>2, Zenon DEF ObsNext, Spawn, Exec, Exit, Connect, DnsNote, DnsList, Tick
    <3> QED
      BY <2>2, <3>1, ObserverSteps
         DEF Dequeue, Reads, StorePending, RecordStats, AppendAudit
  <2> QED
    BY <2>1, <2>2, DecidesFresh
<1> QED
  BY <1>1, <1>2, <1>3, PTL DEF ObsSpec, NamedRight

-----------------------------------------------------------------------------
(* Recent destinations and the process cache                               *)

CacheKept ==
  /\ Kept(cache, CacheSize)
  /\ \A k \in DOMAIN cache.entries : k = <<cache.entries[k].pid, cache.entries[k].start>>
RowsKept ==
  /\ Kept(recent, RecentKeys)
  /\ \A k \in DOMAIN recent.entries : IsRows(recent.entries[k])
  /\ last # Nobody =>
       LET key == <<last.id.pid, last.id.start>>
       IN  key \in DOMAIN recent.entries /\ Shows(recent.entries[key], last.hit, last.label)

(* Only a decision changes the cache, the rows or the last decision. *)
LEMMA OnlyDecisions ==
  ASSUME EventsKept, [ObsNext]_obsVars
  PROVE  UNCHANGED <<cache, recent, last>> \/ \E label \in limit.labels : Decides(label)
<1>1. CASE Observe
  BY <1>1, ObserverSteps DEF Dequeue, Reads, StorePending, RecordStats, AppendAudit, tables
<1>2. CASE ~Observe
  BY <1>2, ZenonT(40) DEF ObsNext, Spawn, Exec, Exit, Connect, DnsNote, DnsList, Tick, tables, obsVars
<1> QED
  BY <1>1, <1>2

(* At first nothing was listed. *)
LEMMA InitRows == ObsInit => CacheKept /\ RowsKept
<1>1. Kept(EmptyTable, CacheSize) /\ Kept(EmptyTable, RecentKeys) /\ DOMAIN EmptyTable.entries = {}
  BY Capacities, EmptyKept
<1> QED
  BY <1>1 DEF ObsInit, CacheKept, RowsKept

(* An identity stays under its own key in the process cache. *)
LEMMA CacheStep == EventsKept /\ CacheKept /\ [ObsNext]_obsVars => CacheKept'
<1> SUFFICES ASSUME EventsKept, CacheKept, [ObsNext]_obsVars PROVE CacheKept'
  OBVIOUS
<1>1. CASE UNCHANGED <<cache, recent, last>>
  BY <1>1 DEF CacheKept
<1>2. ASSUME NEW label \in limit.labels, Decides(label) PROVE CacheKept'
  <2> DEFINE key == <<ReadId.pid, ReadId.start>>
             p == Put(cache, CacheSize, key, ReadId)
  <2>1. cache' = cache \/ cache' = p
    BY <1>2 DEF Decides, CacheInsert
  <2>2. /\ Kept(p, CacheSize) /\ p.entries[key] = ReadId
        /\ DOMAIN p.entries \subseteq DOMAIN cache.entries \cup {key}
        /\ \A x \in DOMAIN p.entries \ {key} : p.entries[x] = cache.entries[x]
    BY Capacities, PutKept, SMTT(60) DEF CacheKept
  <2> HIDE DEF p
  <2> QED
    BY <2>1, <2>2 DEF CacheKept
<1> QED
  BY <1>1, <1>2, OnlyDecisions

(* What is listed of a process ends with its last verdict. *)
LEMMA RowsStep == EventsKept /\ RowsKept /\ [ObsNext]_obsVars => RowsKept'
<1> SUFFICES ASSUME EventsKept, RowsKept, [ObsNext]_obsVars PROVE RowsKept'
  OBVIOUS
<1>1. CASE UNCHANGED <<cache, recent, last>>
  BY <1>1, Zenon DEF RowsKept
<1>2. ASSUME NEW label \in limit.labels, Decides(label) PROVE RowsKept'
  <2> DEFINE key == <<ReadId.pid, ReadId.start>>
             shown == [ipv4 |-> ShownAddress(obs.event.ipv4), port |-> obs.event.port]
             rows == IF Holds(recent, key) THEN recent.entries[key] ELSE <<>>
             new == Remembered(rows, shown, label)
             p == Put(recent, RecentKeys, key, new)
  <2>1. recent' = p
    BY <1>2, SMTT(30) DEF Decides, DecideAttributed, RecordRecent
  <2>2. /\ last'.id = ReadId /\ last'.label = label
        /\ last'.hit.ipv4 = shown.ipv4 /\ last'.hit.port = shown.port
    <3>1. PICK hit : /\ hit = [executable |-> ReadId.exe, host |-> HostFor(Expire(dns), obs.event.ipv4),
                               ipv4 |-> shown.ipv4, port |-> obs.event.port, uid |-> ReadId.uid,
                               verdict |-> label]
                     /\ last' = [label |-> label, by |-> obs.by, id |-> ReadId, hit |-> hit, at |-> now,
                                 unchanged |-> Alive /\ procs[obs.by.pid] = obs.by.process]
      BY <1>2 DEF Decides, DecideAttributed
    <3> QED
      BY <3>1
  <2>3. IsRows(rows)
    <3>1. IsRows(<<>>)
      BY Capacities, SMTT(60) DEF IsRows, IsSeq, Range
    <3> QED
      BY <3>1 DEF RowsKept, Holds
  <2> HIDE DEF rows, shown
  <2>4. IsRows(new) /\ Shows(new, shown, label)
    BY <2>3, RememberedRows, SMTT(30)
  <2> HIDE DEF new
  <2>5. /\ Kept(p, RecentKeys) /\ key \in DOMAIN p.entries /\ p.entries[key] = new
        /\ DOMAIN p.entries \subseteq DOMAIN recent.entries \cup {key}
        /\ \A x \in DOMAIN p.entries \ {key} : p.entries[x] = recent.entries[x]
    <3>1. RecentKeys \in Nat \ {0} /\ Kept(recent, RecentKeys)
      BY Capacities DEF RowsKept
    <3> QED
      BY <3>1, PutKept, SMTT(60)
  <2> HIDE DEF p
  <2>6. \A k \in DOMAIN p.entries : IsRows(p.entries[k])
    BY <2>4, <2>5 DEF RowsKept
  <2>7. Shows(p.entries[key], last'.hit, last'.label)
    BY <2>2, <2>4, <2>5, SMTT(60) DEF Shows
  <2> QED
    BY <2>1, <2>2, <2>5, <2>6, <2>7 DEF RowsKept
<1> QED
  BY <1>1, <1>2, OnlyDecisions

(* What the counts of the scenario bound. *)
CountsKept == births \in 0 .. limit.births /\ connects \in 0 .. limit.connects

(* The bounds on processes and connections hold. *)
LEMMA CountsStep == EventsKept /\ CountsKept /\ [ObsNext]_obsVars => CountsKept'
<1> SUFFICES ASSUME EventsKept, CountsKept, [ObsNext]_obsVars PROVE CountsKept'
  OBVIOUS
<1>0. limit.births \in Nat /\ limit.connects \in Nat /\ births \in Nat /\ connects \in Nat
  BY ObservationAssumption DEF EventsKept, CountsKept
<1>1. ASSUME NEW pid, NEW p, Spawn(pid, p) PROVE CountsKept'
  <2>1. births < limit.births /\ births' = births + 1 /\ UNCHANGED <<limit, connects>>
    BY <1>1 DEF Spawn
  <2> QED
    BY <1>0, <2>1 DEF CountsKept
<1>2. ASSUME NEW pid, NEW dest, NEW padding, Connect(pid, dest, padding) PROVE CountsKept'
  <2>1. connects < limit.connects /\ connects' = connects + 1 /\ UNCHANGED <<limit, births>>
    BY <1>2 DEF Connect
  <2> QED
    BY <1>0, <2>1 DEF CountsKept
<1>3. ASSUME UNCHANGED <<limit, births, connects>> PROVE CountsKept'
  BY <1>3 DEF CountsKept
<1>4. CASE Observe
  <2>1. UNCHANGED <<limit, births, connects>>
    BY <1>4, ObserverSteps, Zenon
       DEF Dequeue, Reads, Decides, DecideAttributed, StorePending, RecordStats, AppendAudit, ObsUnchanged, world
  <2> QED
    BY <1>3, <2>1
<1>5. ASSUME ~Observe, ~\E pid \in limit.pids, p \in Program : Spawn(pid, p),
             ~\E pid \in limit.pids, dest \in Dest, padding \in Padding : Connect(pid, dest, padding)
      PROVE  UNCHANGED <<limit, births, connects>>
  BY <1>5, Zenon DEF ObsNext, Exec, Exit, DnsNote, DnsList, Tick, world, obsVars
<1> QED
  BY <1>1, <1>2, <1>3, <1>4, <1>5

-----------------------------------------------------------------------------
(* Statistics and the audit log                                            *)

(* A hit is that of a decision. *)
IsHit(h) == h = NoHit \/ h.verdict \in Label

(* What the tables have counted when n attributed connections were recorded. *)
TableCounts(t, n) ==
  Counted(t) /\ Hits(t) <= n /\ (Len(t.order) < StatsKeys => Hits(t) = n)
StatsCount(st, connections, denied, attributed) ==
  /\ st.connections = connections /\ st.denied = denied
  /\ \A d \in Dimension : TableCounts(st.table[d], attributed)

(* Between RecordStats and AppendAudit the statistics are one event ahead. *)
OneIf(b) == IF b THEN 1 ELSE 0
StatsKept ==
  /\ IsSeq(audit) /\ \A i \in 1 .. Len(audit) : audit[i].outcome \in Label
  /\ obs # Idle => IsHit(obs.hit)
  /\ StatsCount(stats, Len(audit) + OneIf(At("audit")),
                Cardinality(DeniedRecords) + OneIf(At("audit") /\ Outcome = "deny"),
                Cardinality(AttributedRecords) + OneIf(At("audit") /\ Attributed))

(* The records are counted. *)
LEMMA RecordsCounted ==
  ASSUME IsSeq(audit)
  PROVE  /\ DOMAIN audit = 1 .. Len(audit) /\ Len(audit) \in Nat
         /\ DeniedRecords \subseteq 1 .. Len(audit) /\ AttributedRecords \subseteq 1 .. Len(audit)
         /\ Cardinality(DeniedRecords) \in Nat /\ Cardinality(AttributedRecords) \in Nat
<1>1. DOMAIN audit = 1 .. Len(audit) /\ Len(audit) \in Nat
  BY DEF IsSeq
<1>2. DeniedRecords \subseteq 1 .. Len(audit) /\ AttributedRecords \subseteq 1 .. Len(audit)
  BY <1>1 DEF DeniedRecords, AttributedRecords
<1>3. IsFiniteSet(1 .. Len(audit))
  BY <1>1, FS_Interval
<1>4. IsFiniteSet(DeniedRecords) /\ IsFiniteSet(AttributedRecords)
  BY <1>2, <1>3, FS_Subset, Zenon
<1> QED
  BY <1>1, <1>2, <1>4, FS_CardinalityType

(* One more record of a kind, or none. *)
LEMMA OneMore ==
  ASSUME NEW n \in Nat, NEW S, S \subseteq 1 .. n, NEW b \in BOOLEAN
  PROVE  Cardinality(S \cup (IF b THEN {n + 1} ELSE {})) = Cardinality(S) + OneIf(b)
<1>1. IsFiniteSet(1 .. n)
  BY FS_Interval
<1>2. IsFiniteSet(S) /\ n + 1 \notin S
  <2>1. IsFiniteSet(S)
    BY <1>1, FS_Subset, Zenon
  <2>2. n + 1 \notin 1 .. n
    OBVIOUS
  <2> QED
    BY <2>1, <2>2
<1>3. Cardinality(S) \in Nat
  BY <1>2, FS_CardinalityType
<1>4. CASE b
  <2>1. Cardinality(S \cup {n + 1}) = Cardinality(S) + 1
    BY <1>2, FS_AddElement
  <2> QED
    BY <1>4, <2>1 DEF OneIf
<1>5. CASE ~b
  <2>1. S \cup {} = S
    OBVIOUS
  <2> QED
    BY <1>3, <1>5, <2>1 DEF OneIf
<1> QED
  BY <1>4, <1>5

(* Nothing is counted at first. *)
LEMMA InitStats == ObsInit => StatsKept
<1> SUFFICES ASSUME ObsInit PROVE StatsKept
  OBVIOUS
<1>1. IsSeq(audit) /\ Len(audit) = 0 /\ DOMAIN audit = {}
  BY DEF ObsInit, IsSeq, Range
<1>2. Cardinality(DeniedRecords) = 0 /\ Cardinality(AttributedRecords) = 0
  <2>1. DeniedRecords = {} /\ AttributedRecords = {}
    BY <1>1 DEF DeniedRecords, AttributedRecords
  <2> QED
    BY <2>1, FS_EmptySet
<1>3. obs = Idle /\ ~At("audit")
  BY DEF ObsInit, At, Idle
<1>4. TableCounts(EmptyTable, 0)
  <2> DEFINE t == EmptyTable
  <2>1. Kept(t, StatsKeys) /\ DOMAIN t.entries = {}
    BY Capacities, EmptyKept
  <2>2. Counted(t)
    BY <2>1 DEF Counted
  <2>3. Len(t.order) = 0
    BY DEF EmptyTable
  <2>4. HitsOf(t) \in [1 .. 0 -> Nat]
    BY <2>3 DEF HitsOf
  <2> HIDE DEF t
  <2>5. PICK f : Sums(HitsOf(t), 0, f) /\ Hits(t) = f[0]
    <3>1. \A n \in Nat : n = Len(t.order) /\ HitsOf(t) \in [1 .. n -> Nat]
                         => \E f : Sums(HitsOf(t), n, f) /\ Hits(t) = f[n]
      BY HitsDefined
    <3> QED
      BY <2>3, <2>4, <3>1
  <2>6. Hits(t) = 0
    BY <2>5 DEF Sums
  <2> QED
    BY <2>2, <2>6 DEF TableCounts, t
<1>5. stats.connections = 0 /\ stats.denied = 0 /\ \A d \in Dimension : stats.table[d] = EmptyTable
  BY DEF ObsInit
<1>6. StatsCount(stats, 0, 0, 0)
  BY <1>4, <1>5 DEF StatsCount
<1> QED
  BY <1>1, <1>2, <1>3, <1>6 DEF StatsKept, OneIf

(* Nothing is counted while the event is looked up and stored. *)
LEMMA StatsWait ==
  ASSUME StatsKept, UNCHANGED <<stats, audit>>, ~At("audit"), ~At("audit")', obs' # Idle => IsHit(obs'.hit)
  PROVE  StatsKept'
<1>1. DeniedRecords' = DeniedRecords /\ AttributedRecords' = AttributedRecords
  BY DEF DeniedRecords, AttributedRecords
<1>2. /\ OneIf(At("audit"))' = OneIf(At("audit"))
      /\ OneIf(At("audit") /\ Outcome = "deny")' = OneIf(At("audit") /\ Outcome = "deny")
      /\ OneIf(At("audit") /\ Attributed)' = OneIf(At("audit") /\ Attributed)
  BY DEF OneIf
<1> QED
  BY <1>1, <1>2, Zenon DEF StatsKept

(* record counts the event the audit log is about to hold. *)
LEMMA StatsRecorded ==
  ASSUME EventsKept, StatsKept, RecordStats
  PROVE  StatsKept'
<1>1. Handling(obs) /\ ~At("audit") /\ At("stats")
  BY BusyIsNotIdle DEF RecordStats, At, HandlingStages
<1>2. obs # Idle /\ IsHit(obs.hit)
  BY <1>1 DEF Handling, HandlingStages, Idle, StatsKept
<1>3. obs'.hit = obs.hit /\ obs'.stage = "audit" /\ obs' # Idle
  <2>1. obs' = [obs EXCEPT !.stage = "audit"]
    BY DEF RecordStats, Goto
  <2> QED
    BY <1>1, <2>1 DEF Handling, Idle
<1>4. Attributed' = Attributed /\ Outcome' = Outcome /\ At("audit")'
  BY <1>3 DEF Attributed, Outcome, At
<1>5. UNCHANGED audit /\ DeniedRecords' = DeniedRecords /\ AttributedRecords' = AttributedRecords
  BY DEF RecordStats, DeniedRecords, AttributedRecords
<1> DEFINE c == Len(audit)
           dn == Cardinality(DeniedRecords)
           n == Cardinality(AttributedRecords)
<1>6. c \in Nat /\ dn \in Nat /\ n \in Nat
  BY RecordsCounted DEF StatsKept
<1>7. StatsCount(stats, c, dn, n)
  <2>1. OneIf(At("audit")) = 0 /\ OneIf(At("audit") /\ Outcome = "deny") = 0
        /\ OneIf(At("audit") /\ Attributed) = 0
    BY <1>1, SMTT(30) DEF OneIf
  <2> QED
    BY <1>6, <2>1 DEF StatsKept
<1> HIDE DEF c, dn, n
<1>8. /\ stats'.connections = stats.connections + 1
      /\ stats'.denied = stats.denied + OneIf(Outcome = "deny")
      /\ ~Attributed => stats'.table = stats.table
      /\ Attributed => \A d \in Dimension :
           stats'.table[d] = BumpKey(stats.table[d], KeyOf(obs.hit, d), obs.hit.verdict)
  BY DEF RecordStats, OneIf
<1>9. ASSUME NEW d \in Dimension PROVE TableCounts(stats'.table[d], n + OneIf(Attributed))
  <2>1. TableCounts(stats.table[d], n)
    BY <1>7 DEF StatsCount
  <2>2. CASE ~Attributed
    BY <1>6, <1>8, <2>1, <2>2, SMTT(60) DEF OneIf
  <2>3. CASE Attributed
    <3> DEFINE t == stats.table[d]
               k == KeyOf(obs.hit, d)
               v == obs.hit.verdict
               p == BumpKey(t, k, v)
    <3>1. v \in Label
      BY <1>2, <2>3 DEF IsHit, Attributed
    <3>2. Counted(t) /\ Hits(t) <= n /\ (Len(t.order) < StatsKeys => Hits(t) = n)
      BY <2>1 DEF TableCounts
    <3> HIDE DEF t, k, v
    <3>3. /\ Counted(p) /\ Hits(t) \in Nat /\ Hits(p) \in Nat /\ Hits(p) <= Hits(t) + 1
          /\ Len(p.order) < StatsKeys => Len(t.order) < StatsKeys /\ Hits(p) = Hits(t) + 1
      BY <3>1, <3>2, BumpHits
    <3> HIDE DEF p
    <3>4. Hits(p) <= n + 1 /\ (Len(p.order) < StatsKeys => Hits(p) = n + 1)
      BY <1>6, <3>2, <3>3
    <3>5. stats'.table[d] = p
      BY <1>8, <2>3 DEF p, t, k, v
    <3> QED
      BY <2>3, <3>3, <3>4, <3>5 DEF TableCounts, OneIf
  <2> QED
    BY <2>2, <2>3
<1>10. StatsCount(stats', c + 1, dn + OneIf(Outcome = "deny"), n + OneIf(Attributed))
  BY <1>7, <1>8, <1>9 DEF StatsCount
<1>11. /\ OneIf(At("audit"))' = 1 /\ OneIf(At("audit") /\ Outcome = "deny")' = OneIf(Outcome = "deny")
       /\ OneIf(At("audit") /\ Attributed)' = OneIf(Attributed)
  BY <1>4 DEF OneIf
<1> QED
  BY <1>2, <1>3, <1>5, <1>10, <1>11 DEF StatsKept, c, dn, n

(* The record the observer appends is the one already counted. *)
LEMMA StatsAppended ==
  ASSUME EventsKept, StatsKept, AppendAudit
  PROVE  StatsKept'
<1>1. Handling(obs) /\ At("audit")
  BY BusyIsNotIdle DEF AppendAudit, At, HandlingStages
<1>2. obs # Idle /\ IsHit(obs.hit)
  BY <1>1, SMTT(30) DEF Handling, HandlingStages, Idle, StatsKept
<1>3. obs' = Idle /\ ~At("audit")' /\ UNCHANGED stats
  BY DEF AppendAudit, At, Idle
<1> DEFINE r == [attributed |-> Attributed, outcome |-> Outcome]
           n == Len(audit)
<1>4. r.outcome = Outcome /\ r.attributed = Attributed /\ Outcome \in Label
      /\ Attributed \in BOOLEAN /\ (Outcome = "deny") \in BOOLEAN
  BY <1>2 DEF IsHit, Attributed, Outcome, Label
<1>5. /\ IsSeq(audit) /\ DOMAIN audit = 1 .. n /\ n \in Nat
      /\ DeniedRecords \subseteq 1 .. n /\ AttributedRecords \subseteq 1 .. n
  BY RecordsCounted DEF StatsKept
<1>6. audit' = Append(audit, r)
  BY DEF AppendAudit
<1> HIDE DEF r, n
<1>7. IsSeq(audit') /\ Len(audit') = n + 1
  <2>1. audit \in Seq(Range(audit) \cup {r})
    BY <1>5 DEF IsSeq
  <2>2. audit' \in Seq(Range(audit) \cup {r})
    BY <1>6, <2>1
  <2>3. audit' \in Seq(Range(audit'))
    BY <2>2, RangeSequence
  <2>4. Len(audit') = Len(audit) + 1
    BY <1>6, <2>1
  <2> QED
    BY <2>3, <2>4 DEF IsSeq, n
<1>8. DOMAIN audit' = 1 .. n + 1 /\ audit'[n + 1] = r /\ \A i \in 1 .. n : audit'[i] = audit[i]
  BY <1>5, <1>6, <1>7 DEF IsSeq, n
<1>9. \A i \in 1 .. n + 1 : i \in 1 .. n \/ i = n + 1
  BY <1>5
<1>10. n + 1 \in 1 .. n + 1 /\ \A i \in 1 .. n : i \in 1 .. n + 1
  BY <1>5
<1>11. \A i \in 1 .. Len(audit') : audit'[i].outcome \in Label
  BY <1>4, <1>7, <1>8, <1>9 DEF StatsKept, n
<1>12. DeniedRecords' = DeniedRecords \cup (IF Outcome = "deny" THEN {n + 1} ELSE {})
  BY <1>4, <1>5, <1>8, <1>9, <1>10 DEF DeniedRecords
<1>13. AttributedRecords' = AttributedRecords \cup (IF Attributed THEN {n + 1} ELSE {})
  BY <1>4, <1>5, <1>8, <1>9, <1>10 DEF AttributedRecords
<1>14. /\ Cardinality(DeniedRecords') = Cardinality(DeniedRecords) + OneIf(Outcome = "deny")
       /\ Cardinality(AttributedRecords') = Cardinality(AttributedRecords) + OneIf(Attributed)
       /\ Cardinality(DeniedRecords') \in Nat /\ Cardinality(AttributedRecords') \in Nat
  <2>1. /\ Cardinality(DeniedRecords') = Cardinality(DeniedRecords) + OneIf(Outcome = "deny")
        /\ Cardinality(AttributedRecords') = Cardinality(AttributedRecords) + OneIf(Attributed)
    BY <1>4, <1>5, <1>12, <1>13, OneMore, Zenon
  <2> QED
    BY <1>5, <2>1, RecordsCounted DEF OneIf
<1>15. /\ OneIf(At("audit")) = 1 /\ OneIf(At("audit") /\ Outcome = "deny") = OneIf(Outcome = "deny")
       /\ OneIf(At("audit") /\ Attributed) = OneIf(Attributed)
  BY <1>1 DEF OneIf
<1>16. StatsCount(stats', Len(audit'), Cardinality(DeniedRecords'), Cardinality(AttributedRecords'))
  BY <1>3, <1>7, <1>14, <1>15 DEF StatsKept, n
<1>17. /\ OneIf(At("audit"))' = 0 /\ OneIf(At("audit") /\ Outcome = "deny")' = 0
       /\ OneIf(At("audit") /\ Attributed)' = 0
  BY <1>3 DEF OneIf
<1>18. Len(audit') \in Nat
  BY <1>5, <1>7
<1> QED
  BY <1>3, <1>7, <1>11, <1>14, <1>16, <1>17, <1>18, SMTT(60) DEF StatsKept

(* Statistics and audit log stay one event apart at most. *)
LEMMA StatsStep == EventsKept /\ StatsKept /\ [ObsNext]_obsVars => StatsKept'
<1> SUFFICES ASSUME EventsKept, StatsKept, [ObsNext]_obsVars PROVE StatsKept'
  OBVIOUS
<1>0. ASSUME Handling(obs) PROVE obs # Idle /\ IsHit(obs.hit)
  BY <1>0, SMTT(30) DEF Handling, HandlingStages, Idle, StatsKept
<1>1. ASSUME ~Observe PROVE StatsKept'
  <2>1. UNCHANGED <<obs, stats, audit>>
    BY <1>1, Zenon DEF ObsNext, Spawn, Exec, Exit, Connect, DnsNote, DnsList, Tick, tables, obsVars
  <2>2. /\ DeniedRecords' = DeniedRecords /\ AttributedRecords' = AttributedRecords
        /\ At("audit")' = At("audit") /\ Outcome' = Outcome /\ Attributed' = Attributed
    BY <2>1 DEF DeniedRecords, AttributedRecords, At, Outcome, Attributed
  <2> QED
    BY <2>1, <2>2, Zenon DEF StatsKept
<1>2. ASSUME Dequeue PROVE StatsKept'
  <2>1. UNCHANGED <<stats, audit>> /\ ~At("audit") /\ obs'.stage = "stat" /\ obs'.hit = NoHit
    BY <1>2 DEF Dequeue, tables, At
  <2> QED
    BY <2>1, StatsWait DEF At, IsHit
<1>3. ASSUME Reads PROVE StatsKept'
  <2>1. Handling(obs)
    BY <1>3, ObserverHandles
  <2>2. UNCHANGED <<stats, audit>> /\ ~At("audit")
    BY <1>3 DEF Reads, tables, At
  <2>3. obs'.stage # "audit" /\ obs'.hit = obs.hit
    BY <1>3, <2>1, Zenon DEF Reads, Goto, Handling
  <2> QED
    BY <1>0, <2>1, <2>2, <2>3, StatsWait DEF At
<1>4. ASSUME NEW label \in limit.labels, Decides(label) PROVE StatsKept'
  <2>1. Handling(obs)
    BY <1>4, ObserverHandles
  <2>2. UNCHANGED <<stats, audit>> /\ ~At("audit")
    BY <1>4 DEF Decides, DecideAttributed, At
  <2>3. label \in Label
    BY ObservationAssumption DEF EventsKept, Label
  <2>4. PICK hit : obs' = [obs EXCEPT !.stage = "pending", !.hit = hit] /\ hit.verdict = label
    <3>1. PICK hit : /\ obs' = [obs EXCEPT !.stage = "pending", !.hit = hit]
                     /\ \E exe, host, ipv4, port, uid :
                          hit = [executable |-> exe, host |-> host, ipv4 |-> ipv4, port |-> port,
                                 uid |-> uid, verdict |-> label]
      BY <1>4, Zenon DEF Decides, DecideAttributed
    <3>2. hit.verdict = label
      BY <3>1
    <3> QED
      BY <3>1, <3>2, Zenon
  <2>5. obs'.stage # "audit" /\ obs'.hit = hit
    BY <2>1, <2>4 DEF Handling
  <2> QED
    BY <2>2, <2>3, <2>4, <2>5, StatsWait DEF At, IsHit
<1>5. ASSUME StorePending PROVE StatsKept'
  <2>1. Handling(obs)
    BY <1>5, ObserverHandles
  <2>2. UNCHANGED <<stats, audit>> /\ ~At("audit")
    BY <1>5 DEF StorePending, At
  <2>3. obs'.stage # "audit" /\ obs'.hit = obs.hit
    BY <1>5, <2>1 DEF StorePending, Goto, Handling
  <2> QED
    BY <1>0, <2>1, <2>2, <2>3, StatsWait DEF At
<1> QED
  BY <1>1, <1>2, <1>3, <1>4, <1>5, ObserverSteps, StatsRecorded, StatsAppended

-----------------------------------------------------------------------------
(* The tables                                                              *)

(* What the tables, the counts and the records of the observer keep to. *)
TablesKept == EventsKept /\ CountsKept /\ NamesKept /\ CacheKept /\ RowsKept /\ StatsKept

(* The invariant says all that is said of the tables. *)
LEMMA TablesAreConsistent ==
  ASSUME TablesKept
  PROVE  TablesConsistent
<1> USE DEF TablesKept
<1>1. ObsTypeOK
  <2>1. DOMAIN procs \subseteq Pid
    BY DEF EventsKept, AliveKept
  <2>2. births \in 0 .. limit.births /\ connects \in 0 .. limit.connects
    BY DEF CountsKept
  <2>3. obs.stage \in {"idle", "stat", "exe", "cmdline", "status", "pending", "stats", "audit"}
    BY DEF EventsKept, Handling, HandlingStages, Idle
  <2>4. ASSUME obs # Idle PROVE obs.event.pid \in Pid /\ obs.event.port \in {d.port : d \in Dest}
    <3>1. Handling(obs)
      BY <2>4 DEF EventsKept
    <3>2. obs.event = [pid |-> obs.by.pid, ticks |-> 0, ipv4 |-> FromBe(obs.by.dest.octets),
                       port |-> obs.by.dest.port]
      BY <3>1, EventIs DEF Handling, IsBy
    <3> QED
      BY <3>1, <3>2, SMTT(30) DEF Handling, IsBy
  <2>5. \A k \in DOMAIN cache.entries : k = <<cache.entries[k].pid, cache.entries[k].start>>
    BY DEF CacheKept
  <2>6. \A i \in DOMAIN audit : audit[i].outcome \in Label
    BY RecordsCounted DEF StatsKept
  <2> QED
    BY <2>1, <2>2, <2>3, <2>4, <2>5, <2>6 DEF ObsTypeOK
<1>2. TablesWellKept
  <2>1. WellKept(cache, CacheSize) /\ WellKept(recent, RecentKeys) /\ WellKept(dns, DnsSize)
    BY Zenon DEF CacheKept, RowsKept, NamesKept, Kept
  <2>2. \A d \in Dimension : WellKept(stats.table[d], StatsKeys)
    BY SMTT(30) DEF StatsKept, StatsCount, TableCounts, Counted, Kept
  <2>3. \A k \in DOMAIN recent.entries : Len(recent.entries[k]) <= PerKey
    BY DEF RowsKept, IsRows
  <2> QED
    BY <2>1, <2>2, <2>3 DEF TablesWellKept
<1>3. ASSUME obs = Idle
      PROVE  StatsCount(stats, Len(audit), Cardinality(DeniedRecords), Cardinality(AttributedRecords))
  <2>1. ~At("audit")
    BY <1>3 DEF At, Idle
  <2>2. /\ OneIf(At("audit")) = 0 /\ OneIf(At("audit") /\ Outcome = "deny") = 0
        /\ OneIf(At("audit") /\ Attributed) = 0
    BY <2>1 DEF OneIf
  <2> QED
    BY <2>2, RecordsCounted DEF StatsKept
<1>4. StatsAddUp
  BY <1>3, Zenon DEF StatsAddUp, StatsCount, TableCounts, Counted, IsCount
<1>5. RecentShowsLast
  BY Zenon DEF RecentShowsLast, RowsKept, Shows, Holds
<1> QED
  BY <1>1, <1>2, <1>4, <1>5 DEF TablesConsistent

(* Whatever is evicted, repeated or expired, and whoever lists meanwhile, no
   table passes its capacity or loses track of its oldest key, the statistics
   add up to the audit log between two events, and an application's
   destinations show their last verdicts (stats.rs, recent.rs, process.rs,
   dns.rs): for every number of processes, destinations and keys and every
   capacity. *)
THEOREM TablesConsistentHolds == ObsSpec => []TablesConsistent
<1>1. ObsInit => TablesKept
  <2>1. ObsInit => CountsKept
    BY ObservationAssumption, SMTT(60) DEF ObsInit, CountsKept
  <2> QED
    BY <2>1, InitEvents, InitNames, InitRows, InitStats DEF TablesKept
<1>2. TablesKept /\ [ObsNext]_obsVars => TablesKept'
  BY EventsStep, CountsStep, NamesStep, CacheStep, RowsStep, StatsStep DEF TablesKept
<1>3. TablesKept => TablesConsistent
  BY TablesAreConsistent
<1> QED
  BY <1>1, <1>2, <1>3, PTL DEF ObsSpec
=============================================================================
