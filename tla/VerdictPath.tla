---------------------------- MODULE VerdictPath ----------------------------
(***************************************************************************)
(* From a connect() to the verdict on its SYN: the kernel probe writes an  *)
(* event to the ring buffer, the observer thread decides it and stores the *)
(* verdict in the pending table (observe.rs), and the NFQUEUE thread       *)
(* (nfqueue_live.rs) joins the queued packet with the stored verdict by    *)
(* destination, waiting for it a bounded number of attempts.  The kernel   *)
(* may lose the event, and retransmits a SYN that got no answer.           *)
(*                                                                         *)
(* What the policy decides is left open here: PromptQueue models it.       *)
(***************************************************************************)
EXTENDS PendingTable

CONSTANTS Conn,         \* connection attempts
          dest,         \* dest[c]: the destination c connects to
          RingCapacity, \* records the ring buffer holds
          MaxAttempts,  \* lookups before the NFQUEUE thread gives up (50)
          MaxSyn,       \* bound: packets per connection
          Idle          \* a thread with nothing in hand

ASSUME PathAssumption ==
  /\ dest \in [Conn -> Dest]
  /\ RingCapacity \in Nat /\ MaxAttempts \in Nat \ {0}
  /\ MaxSyn \in Nat \ {0}
  /\ Idle \notin Conn

VARIABLES ring,      \* events not yet read by the observer
          packets,   \* packets waiting in NFQUEUE
          sent,      \* packets sent per connection; 0 before connect()
          observer,  \* the observer thread between decide and insert
          worker,    \* the NFQUEUE thread
          decision,  \* the policy's verdict on each connect
          passed, refused,  \* packets of each connection by verdict
          grants, spent     \* per destination: Accepts decided, Accepts issued

tableVars == <<entries, order>>
kernelVars == <<ring, packets, sent>>
ghostVars == <<passed, refused, grants, spent>>
vars == <<now, tableVars, kernelVars, observer, worker,
          decision, ghostVars>>

TypeOK ==
  /\ PendingTypeOK
  /\ ring \in Seq(Conn) /\ packets \in Seq(Conn)
  /\ sent \in [Conn -> 0 .. MaxSyn]
  /\ observer \in {Idle} \cup Conn
  /\ worker \in {Idle} \cup [conn : Conn, attempt : 0 .. MaxAttempts - 1]
  /\ decision \in [Conn -> PacketVerdict \cup {"None"}]
  /\ passed \in [Conn -> Nat] /\ refused \in [Conn -> Nat]
  /\ grants \in [Dest -> Nat] /\ spent \in [Dest -> Nat]

Init ==
  /\ PendingInit
  /\ ring = <<>> /\ packets = <<>>
  /\ sent = [c \in Conn |-> 0]
  /\ observer = Idle /\ worker = Idle
  /\ decision = [c \in Conn |-> "None"]
  /\ passed = [c \in Conn |-> 0] /\ refused = [c \in Conn |-> 0]
  /\ grants = [d \in Dest |-> 0] /\ spent = [d \in Dest |-> 0]

-----------------------------------------------------------------------------
(* The kernel side. *)

(* tcp_v4_connect: the probe submits an event when the ring has room and   *)
(* silently drops it otherwise, then the first SYN reaches the queue.      *)
Connect(c) ==
  /\ sent[c] = 0
  /\ ring' = IF Len(ring) < RingCapacity THEN Append(ring, c) ELSE ring
  /\ sent' = [sent EXCEPT ![c] = 1]
  /\ packets' = Append(packets, c)
  /\ UNCHANGED <<now, tableVars, observer, worker, decision, ghostVars>>

(* No answer to the SYN: the kernel sends it again; no event goes with it. *)
Retransmit(c) ==
  /\ sent[c] \in 1 .. MaxSyn - 1
  /\ sent' = [sent EXCEPT ![c] = @ + 1]
  /\ packets' = Append(packets, c)
  /\ UNCHANGED <<now, tableVars, ring, observer, worker, decision,
                 ghostVars>>

-----------------------------------------------------------------------------
(* handle_event on the observer thread: decide under the policy locks,     *)
(* then, those released, insert under the pending lock.                    *)

Decide(v) ==
  /\ observer = Idle /\ ring # <<>>
  /\ observer' = Head(ring)
  /\ ring' = Tail(ring)
  /\ decision' = [decision EXCEPT ![Head(ring)] = v]
  /\ grants' = [grants EXCEPT ![dest[Head(ring)]] =
                  IF v = "Accept" THEN @ + 1 ELSE @]
  /\ UNCHANGED <<now, tableVars, packets, sent, worker, passed, refused, spent>>

StorePending ==
  /\ observer # Idle
  /\ Insert(dest[observer], decision[observer])
  /\ observer' = Idle
  /\ UNCHANGED <<now, kernelVars, worker, decision, ghostVars>>

-----------------------------------------------------------------------------
(* bind_and_serve on the NFQUEUE thread: recv(), then lookup_verdict().    *)

Receive ==
  /\ worker = Idle /\ packets # <<>>
  /\ worker' = [conn |-> Head(packets), attempt |-> 0]
  /\ packets' = Tail(packets)
  /\ UNCHANGED <<now, tableVars, ring, sent, observer, decision, ghostVars>>

(* set_verdict() on the packet in hand. *)
Issue(v) ==
  LET c == worker.conn IN
  /\ worker' = Idle
  /\ passed' = [passed EXCEPT ![c] = IF v = "Accept" THEN @ + 1 ELSE @]
  /\ refused' = [refused EXCEPT ![c] = IF v = "Drop" THEN @ + 1 ELSE @]
  /\ spent' = [spent EXCEPT ![dest[c]] = IF v = "Accept" THEN @ + 1 ELSE @]
  /\ grants' = grants

(* Defects: attempts not counted; fail open. *)
BugNotCounted == worker.attempt
BugMissAccepts == "Accept"
LastAttempt == MaxAttempts - 1
NextAttempt == worker.attempt + 1
MissVerdict == "Drop"

(* One attempt: a stored verdict is issued, the last miss drops. *)
Lookup ==
  /\ worker # Idle
  /\ LET verdict == Taken(dest[worker.conn]) IN
       \/ verdict # "None" /\ Issue(verdict)
       \/ /\ verdict = "None"
          /\ worker.attempt < LastAttempt
          /\ worker' = [worker EXCEPT !.attempt = NextAttempt]
          /\ UNCHANGED ghostVars
       \/ /\ verdict = "None"
          /\ worker.attempt = LastAttempt
          /\ Issue(MissVerdict)
  /\ Take(dest[worker.conn])
  /\ UNCHANGED <<now, kernelVars, observer, decision>>

Tick ==
  /\ Advance
  /\ UNCHANGED <<tableVars, kernelVars, observer, worker, decision,
                 ghostVars>>

Next ==
  \/ \E c \in Conn : Connect(c) \/ Retransmit(c)
  \/ \E v \in PacketVerdict : Decide(v)
  \/ StorePending
  \/ Receive
  \/ Lookup
  \/ Tick

Spec == Init /\ [][Next]_vars

(* The NFQUEUE thread loops without ever waiting on the observer. *)
FairSpec == Spec /\ WF_vars(Receive \/ Lookup)
-----------------------------------------------------------------------------
(* Properties. *)

(* After any mix of inserts, takes, evictions and expiries the table is
   bounded and `order` finds every entry of it exactly once. *)
TableConsistent == TypeOK /\ EntriesBounded /\ OrderCoversEntries

(* Packets accepted for a destination never outnumber the Accept decisions
   made for it, with the decision still waiting in the table or in the
   observer's hands counted as not yet spent: take() gives a stored verdict to
   one packet only, overwriting and evicting lose verdicts but make none. *)
AcceptsBacked ==
  \A d \in Dest :
    spent[d]
      + (IF d \in DOMAIN entries /\ entries[d].verdict = "Accept" THEN 1 ELSE 0)
      + (IF observer # Idle /\ dest[observer] = d /\ decision[observer] = "Accept"
         THEN 1 ELSE 0)
    <= grants[d]

(* A connection that shares its destination with no other is accepted only on
   its own Accept decision; without one (event lost, decided Drop, not decided
   in time) every packet of it is dropped. *)
AloneFollowsOwnDecision ==
  \A c \in Conn :
    (passed[c] > 0 /\ \A o \in Conn \ {c} : dest[o] # dest[c])
      => decision[c] = "Accept"

(* A packet is accepted only on a verdict stored at most Ttl ago, although
   stale entries are removed lazily and only through `order`. *)
AcceptedWhileFresh ==
  [][\A c \in Conn :
       passed'[c] > passed[c] =>
         /\ dest[c] \in DOMAIN entries
         /\ entries[dest[c]].verdict = "Accept"
         /\ now - entries[dest[c]].inserted_at <= Ttl]_vars

(* The NFQUEUE thread is never stuck on a packet, whatever the observer does:
   the lookup gives up after its attempts, and as packets are queued in order
   each of them gets a verdict. *)
LookupGivesUp == worker # Idle ~> worker = Idle
=============================================================================
