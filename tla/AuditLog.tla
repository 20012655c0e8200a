------------------------------ MODULE AuditLog ------------------------------
(***************************************************************************)
(* The audit log (audit.rs): a bounded window of records in memory, a      *)
(* byte-capped file that is appended to and, when full, rewritten from the *)
(* window, and streams to subscribers over bounded channels.               *)
(*                                                                         *)
(* append and subscribe run under the audit mutex and are one step each; a *)
(* subscriber thread writes one frame per step and removes its id in a     *)
(* step of its own.  A message is its size in bytes.  A write to the file  *)
(* can fail and a crash can cut it short; a line without its newline is    *)
(* continued by the next append, as a file opened for append does.         *)
(***************************************************************************)
EXTENDS Integers, Sequences, FiniteSets, SequencesExt, Maps

CONSTANTS MaxRecords,  \* max_records
          MaxBytes,    \* max_bytes
          LineSizes,   \* sizes of formatted records
          ChanCap,     \* SUBSCRIBER_CHANNEL_CAPACITY
          SubId,       \* subscriber ids
          Session,     \* streams, each attached once
          NoSession,
          MaxSeq,      \* bound: sequence numbers
          MaxFaults    \* bound: failed and torn writes

ASSUME AuditAssumption ==
  /\ MaxRecords \in Nat \ {0} /\ MaxBytes \in Nat /\ ChanCap \in Nat \ {0}
  /\ LineSizes \subseteq 1 .. MaxBytes
  /\ MaxSeq \in Nat \ {0} /\ MaxFaults \in Nat
  /\ NoSession \notin Session

VARIABLES next_seq, records,  \* records: [seq, size], oldest first
          disk,               \* lines: [seq, size, cut]
          subscribers,        \* SubId -> Session, partial
          session, faults,
          high                \* history: highest sequence sent to subscribers

auditVars == <<next_seq, records, disk, subscribers, session, faults, high>>

(* How a line ends: whole, cut inside the message, cut inside the number. *)
Cut == {"Whole", "Message", "Number"}
Line(r, cut) == [seq |-> r.seq, size |-> r.size, cut |-> cut]

(* The digits that are left of the number n when it is cut. *)
Heads(n) == {h \in 1 .. n : \E k \in 0 .. n : h = n \div 10^k}

(* What a write that stops early may have written of the line of r. *)
Written(r) ==
  {Line(r, "Whole"), Line(r, "Message")}
    \cup {[Line(r, "Number") EXCEPT !.seq = h] : h \in Heads(r.seq)}

(* The number a reader sees when digits h are continued by those of m: h   *)
(* is shifted by the least power of ten above m.                           *)
Glued(h, m) ==
  LET ten[n \in 0 .. m] ==
        IF n = 0 THEN 10 ELSE IF ten[n - 1] > m THEN ten[n - 1] ELSE 10 * ten[n - 1]
  IN h * ten[m] + m

Seqs(rs) == [i \in DOMAIN rs |-> rs[i].seq]
Bytes(rs) ==
  LET sum[n \in 0 .. Len(rs)] == IF n = 0 THEN 0 ELSE sum[n - 1] + rs[n].size
  IN sum[Len(rs)]

AuditTypeOK ==
  /\ next_seq \in Nat \ {0} /\ high \in Nat /\ faults \in 0 .. MaxFaults
  /\ \A i \in DOMAIN records : records[i].seq < next_seq
  /\ DOMAIN subscribers \subseteq SubId
  /\ \A s \in Session :
       /\ session[s].stage \in {"New", "Live", "Leaving", "Ended"}
       /\ Len(session[s].chan) <= ChanCap

NewSession == [stage |-> "New", id |-> NoSession, todo |-> <<>>, chan |-> <<>>,
               open |-> FALSE, last |-> 0]

-----------------------------------------------------------------------------
(* append                                                                  *)

Pushed(rs, r) == Append(IF Len(rs) = MaxRecords THEN Tail(rs) ELSE rs, r)

(* trim_to_disk_budget: the longest suffix that fits *)
Trimmed(rs) ==
  LET first == CHOOSE i \in 1 .. Len(rs) + 1 :
                 /\ Bytes(SubSeq(rs, i, Len(rs))) <= MaxBytes
                 /\ \A j \in 1 .. i - 1 : Bytes(SubSeq(rs, j, Len(rs))) > MaxBytes
  IN SubSeq(rs, first, Len(rs))

OverBudget(r) == Bytes(disk) + r.size > MaxBytes

(* The file after w was appended to it. *)
Appended(w) ==
  IF disk # <<>> /\ Last(disk).cut # "Whole"
  THEN LET old == Last(disk)
           seq == IF old.cut = "Message" THEN old.seq ELSE Glued(old.seq, w.seq)
           cut == IF old.cut = "Message" /\ w.cut = "Number" THEN "Message" ELSE w.cut
       IN Append(Front(disk), [seq |-> seq, size |-> old.size + w.size, cut |-> cut])
  ELSE Append(disk, w)

Rewritten(rs) == [i \in DOMAIN rs |-> Line(rs[i], "Whole")]

(* persist_record: what the file and the window become. *)
PersistOk(r, rs) ==
  IF OverBudget(r) THEN records' = Trimmed(rs) /\ disk' = Rewritten(Trimmed(rs))
                   ELSE records' = rs /\ disk' = Appended(Line(r, "Whole"))
PersistFails(r, rs) ==
  /\ faults < MaxFaults
  /\ IF OverBudget(r) THEN records' = Trimmed(rs) /\ disk' \in {disk, Rewritten(Trimmed(rs))}
                      ELSE records' = rs /\ disk' \in {disk} \cup {Appended(w) : w \in Written(r)}

(* Defect: a full channel only loses the record. *)
BugSkipFull(s) == FALSE
Dropped(s) == Len(session[s].chan) = ChanCap

(* fanout: subscribers whose channel is full are removed, which closes it. *)
Fanout(seq) ==
  LET full == {id \in DOMAIN subscribers : Dropped(subscribers[id])}
      of(ids) == {subscribers[id] : id \in ids}
  IN /\ subscribers' = MapRemove(subscribers, full)
     /\ session' = [s \in Session |->
          IF s \in of(full) THEN [session[s] EXCEPT !.open = FALSE]
          ELSE IF s \in of(DOMAIN subscribers) /\ Len(session[s].chan) < ChanCap
          THEN [session[s] EXCEPT !.chan = Append(@, seq)]
          ELSE session[s]]

AppendRecord(size) ==
  LET r == [seq |-> next_seq, size |-> size]
  IN /\ next_seq < MaxSeq
     /\ next_seq' = next_seq + 1
     /\ \/ PersistOk(r, Pushed(records, r)) /\ faults' = faults
        \/ PersistFails(r, Pushed(records, r)) /\ faults' = faults + 1
     /\ Fanout(r.seq)
     /\ high' = IF high < r.seq THEN r.seq ELSE high

-----------------------------------------------------------------------------
(* subscribe, attach_subscriber, run_subscriber                            *)

Since(n) == Retain(Seqs(records), {q \in Range(Seqs(records)) : q > n})

(* The stream of a replaced subscription: Replaced (0) is sent if there is *)
(* room, and the channel closes.                                           *)
Displaced(s) ==
  [session[s] EXCEPT !.open = FALSE,
                     !.chan = IF Len(@) < ChanCap THEN Append(@, 0) ELSE @]

Subscribe(id, s, since) ==
  /\ session[s].stage = "New"
  /\ subscribers' = MapInsert(subscribers, id, s)
  /\ session' = [x \in Session |->
       CASE x = s -> [stage |-> "Live", id |-> id, todo |-> Since(since),
                      chan |-> <<>>, open |-> TRUE, last |-> 0]
         [] id \in DOMAIN subscribers /\ x = subscribers[id] /\ x # s -> Displaced(x)
         [] OTHER -> session[x]]
  /\ UNCHANGED <<next_seq, records, disk, faults, high>>

(* Defects: the end of a stream does not ask for the removal of its id; a  *)
(* closed channel is waited on for ever.                                   *)
BugNoRemoval == "Ended"
BugStays == "Live"
OnExit == "Leaving"

(* One frame of the backlog or of the channel is written, or the write     *)
(* fails because the client is gone; Replaced or a closed and drained      *)
(* channel ends the stream.                                                *)
WriteFrame(s) ==
  LET me == session[s]
      go(x) == session' = [session EXCEPT ![s] = x]
  IN /\ me.stage = "Live"
     /\ \/ /\ me.todo # <<>>
           /\ \/ go([me EXCEPT !.todo = Tail(@), !.last = Head(me.todo)])
              \/ go([me EXCEPT !.stage = OnExit])
        \/ /\ me.todo = <<>> /\ me.chan # <<>>
           /\ IF Head(me.chan) = 0 THEN go([me EXCEPT !.stage = "Ended"])
              ELSE \/ go([me EXCEPT !.chan = Tail(@), !.last = Head(me.chan)])
                   \/ go([me EXCEPT !.stage = OnExit])
        \/ /\ me.todo = <<>> /\ me.chan = <<>> /\ ~me.open
           /\ go([me EXCEPT !.stage = OnExit])
     /\ UNCHANGED <<next_seq, records, disk, subscribers, faults, high>>

(* remove_subscriber from on_exit: by id.  The sender it drops closes the  *)
(* channel of whichever stream is registered.                              *)
RemoveSubscriber(s) ==
  LET id == session[s].id
      gone(x) == id \in DOMAIN subscribers /\ x = subscribers[id]
  IN /\ session[s].stage = "Leaving"
     /\ subscribers' = MapRemove(subscribers, {id})
     /\ session' = [x \in Session |->
          [session[x] EXCEPT !.stage = IF x = s THEN "Ended" ELSE @,
                             !.open = IF gone(x) THEN FALSE ELSE @]]
     /\ UNCHANGED <<next_seq, records, disk, faults, high>>

-----------------------------------------------------------------------------
(* Crash and restart: load_from_disk skips a line cut inside its number.   *)

Readable(lines) == Retain(lines, {l \in Range(lines) : l.cut # "Number"})
(* Defect: the next number is the last record's, not one past it. *)
BugLastSeq(lines) == Max({1} \cup {l.seq : l \in Range(Readable(lines))})
LoadedNext(lines) == Max({1} \cup {l.seq + 1 : l \in Range(Readable(lines))})
LoadedRecords(lines) ==
  LET all == Readable(lines)
      kept == SubSeq(all, IF Len(all) > MaxRecords THEN Len(all) - MaxRecords + 1 ELSE 1,
                     Len(all))
  IN [i \in DOMAIN kept |-> [seq |-> kept[i].seq, size |-> kept[i].size]]

Restart(lines) ==
  /\ disk' = lines
  /\ next_seq' = LoadedNext(lines) /\ records' = LoadedRecords(lines)
  /\ subscribers' = EmptyMap
  /\ session' = [s \in Session |->
       IF session[s].stage = "New" THEN session[s]
                                   ELSE [NewSession EXCEPT !.stage = "Ended"]]
  /\ UNCHANGED high

Crash == Restart(disk) /\ faults' = faults

(* The process dies inside append, before the fanout; a rewrite is renamed *)
(* into place as a whole.                                                  *)
CrashInAppend(size) ==
  LET r == [seq |-> next_seq, size |-> size]
  IN /\ next_seq < MaxSeq /\ faults < MaxFaults
     /\ faults' = faults + 1
     /\ \/ OverBudget(r) /\ Restart(Rewritten(Trimmed(Pushed(records, r))))
        \/ ~OverBudget(r) /\ \E w \in Written(r) : Restart(Appended(w))

AuditInit ==
  /\ next_seq = 1 /\ records = <<>> /\ disk = <<>>
  /\ subscribers = EmptyMap
  /\ session = [s \in Session |-> NewSession]
  /\ faults = 0 /\ high = 0

AuditNext ==
  \/ \E size \in LineSizes : AppendRecord(size) \/ CrashInAppend(size)
  \/ \E id \in SubId, s \in Session, since \in 0 .. next_seq - 1 : Subscribe(id, s, since)
  \/ \E s \in Session : WriteFrame(s) \/ RemoveSubscriber(s)
  \/ Crash

AuditSpec == AuditInit /\ [][AuditNext]_auditVars

(* Subscriber threads are scheduled, and a client reads or goes away. *)
FairAuditSpec ==
  AuditSpec /\ \A s \in Session : WF_auditVars(WriteFrame(s))
                                    /\ WF_auditVars(RemoveSubscriber(s))

-----------------------------------------------------------------------------
(* Memory, disk and channels stay within their caps, whatever fails. *)
AuditBounded == Len(records) <= MaxRecords /\ Bytes(disk) <= MaxBytes

(* As long as no write failed or was cut, what a registered stream has     *)
(* still to write is the run of records that ends with the newest and      *)
(* starts just after the last one written: no gap, no repetition, over     *)
(* concurrent appends, replacement and removal.                            *)
NothingMissed ==
  faults = 0 => \A id \in DOMAIN subscribers :
    LET me == session[subscribers[id]]
        left == me.todo \o me.chan
        before == next_seq - 1 - Len(left)
    IN /\ \A i \in DOMAIN left : left[i] = before + i
       /\ me.last # 0 => me.last = before

(* A registered id always has a thread behind it, so no entry of           *)
(* subscribers is left to fill up: a stream that ends takes its id along.  *)
RegisteredIsServed ==
  \A id \in DOMAIN subscribers : session[subscribers[id]].stage \in {"Live", "Leaving"}

(* As long as no write failed or was cut, a restart continues above every  *)
(* number that was ever sent to a subscriber.                              *)
SequencesAdvance == faults = 0 => next_seq > high

(* The log is bounded in memory and on disk and does not reuse a number, over
   trims, failed and cut writes and restarts. *)
LogConsistent == AuditTypeOK /\ AuditBounded /\ SequencesAdvance

(* A stream whose subscription was replaced or removed ends, so streams do *)
(* not pile up over reconnects.                                            *)
ClosedStreamsEnd ==
  \A s \in Session : [](session[s].stage # "New" /\ ~session[s].open
                           => <>(session[s].stage = "Ended"))
=============================================================================
