------------------------- MODULE VerdictPathProofs -------------------------
(***************************************************************************)
(* The verdict path for any number of connections and destinations, any    *)
(* capacity, time to live and number of attempts.                          *)
(***************************************************************************)
EXTENDS VerdictPath, DataProofs

(* The pending table between two calls. *)
TableInv ==
  /\ PendingTypeOK /\ order \in Seq(Dest)
  /\ EntriesBounded /\ OrderCoversEntries

(* A connect is decided once: what waits in the ring has been sent and has *)
(* no decision, and the ring holds no connection twice.                    *)
DecidedOnce ==
  /\ IsInjective(ring)
  /\ \A c \in Range(ring) : decision[c] = "None" /\ sent[c] # 0
  /\ \A c \in Conn : sent[c] = 0 => decision[c] = "None"
  /\ observer # Idle => decision[observer] # "None"

Alone(c) == \A o \in Conn \ {c} : dest[o] # dest[c]

(* What is stored for the destination of a connection that has it to       *)
(* itself is what was decided for it.                                      *)
StoredIsDecided ==
  \A c \in Conn : Alone(c) /\ dest[c] \in DOMAIN entries
                    => entries[dest[c]].verdict = decision[c]

PathInv ==
  /\ TypeOK /\ TableInv /\ DecidedOnce
  /\ StoredIsDecided /\ AcceptsBacked /\ AloneFollowsOwnDecision

-----------------------------------------------------------------------------
(* insert() and take()                                                     *)

Entry == [verdict : PacketVerdict, inserted_at : Nat]

(* expire() leaves the entries that are young enough, and in `order` their *)
(* keys.                                                                   *)
LEMMA ExpireKeeps ==
  ASSUME TableInv
  PROVE  /\ IsTable(Expired, Dest) /\ WellKept(Expired, Capacity)
         /\ DOMAIN ExpiredEntries = {k \in DOMAIN entries : ~TooOld(k)}
         /\ \A k \in DOMAIN ExpiredEntries : ExpiredEntries[k] = entries[k]
         /\ IsMap(ExpiredEntries, Dest, Entry)
         /\ ExpiredOrder \in Seq(Dest) /\ Len(ExpiredOrder) <= Capacity
<1>1. /\ DOMAIN entries \subseteq Dest /\ entries \in [DOMAIN entries -> Entry]
      /\ order \in Seq(Dest) /\ DOMAIN entries \subseteq Range(order)
      /\ IsInjective(order) /\ Len(order) <= Capacity
      /\ Cardinality(DOMAIN entries) <= Capacity
  BY DEF TableInv, PendingTypeOK, IsMap, Entry, EntriesBounded, OrderCoversEntries
<1> DEFINE young == {k \in DOMAIN entries : ~TooOld(k)}
<1>2. DOMAIN ExpiredEntries = young
  BY <1>1 DEF ExpiredEntries, MapRemove, Restrict
<1>3. \A k \in young : ExpiredEntries[k] = entries[k]
  BY <1>2 DEF ExpiredEntries, MapRemove, Restrict
<1>4. ExpiredEntries = [k \in young |-> entries[k]]
  BY <1>1 DEF ExpiredEntries, MapRemove, Restrict
<1>5. IsMap(ExpiredEntries, Dest, Entry)
  BY <1>1, <1>2, <1>4 DEF IsMap
<1>6. /\ ExpiredOrder \in Seq(Dest) /\ Range(ExpiredOrder) = Range(order) \cap young
      /\ IsInjective(ExpiredOrder) /\ Len(ExpiredOrder) <= Len(order)
  BY <1>1, RetainProperties DEF ExpiredOrder
<1>7. Len(order) \in Nat /\ Len(ExpiredOrder) \in Nat /\ Capacity \in Nat
  BY <1>1, <1>6, PendingAssumption
<1>8. Len(ExpiredOrder) <= Capacity
  BY <1>1, <1>6, <1>7
<1>9. Range(ExpiredOrder) = DOMAIN ExpiredEntries
  BY <1>1, <1>2, <1>6
<1>10. IsFiniteSet(DOMAIN ExpiredEntries) /\ Cardinality(DOMAIN ExpiredEntries) <= Capacity
  BY <1>6, <1>7, <1>8, <1>9, SequenceElements
<1>11. Expired.entries = ExpiredEntries /\ Expired.order = ExpiredOrder
       /\ Expired = [entries |-> Expired.entries, order |-> Expired.order]
  BY DEF Expired
<1> HIDE DEF young
<1> QED
  BY <1>2, <1>3, <1>5, <1>6, <1>8, <1>9, <1>10, <1>11 DEF IsTable, WellKept, young

(* insert() keeps the table bounded and `order` exact.  It adds the fresh  *)
(* verdict and nothing else.                                               *)
LEMMA InsertKeeps ==
  ASSUME TableInv, NEW k \in Dest, NEW v \in PacketVerdict, Insert(k, v), now' \in Nat
  PROVE  /\ TableInv'
         /\ k \in DOMAIN entries' /\ entries'[k].verdict = v
         /\ DOMAIN entries' \subseteq DOMAIN entries \cup {k}
         /\ \A d \in DOMAIN entries' \ {k} : entries'[d] = entries[d]
<1> DEFINE p == Put(Expired, Capacity, k, Fresh(v))
<1>1. /\ IsTable(Expired, Dest) /\ WellKept(Expired, Capacity)
      /\ DOMAIN ExpiredEntries \subseteq DOMAIN entries
      /\ \A d \in DOMAIN ExpiredEntries : ExpiredEntries[d] = entries[d]
      /\ IsMap(ExpiredEntries, Dest, Entry)
  BY ExpireKeeps
<1>2. Expired.entries = ExpiredEntries
  BY DEF Expired
<1>3. Capacity \in Nat \ {0} /\ now \in Nat
  BY PendingAssumption DEF TableInv, PendingTypeOK
<1>4. /\ IsTable(p, Dest)
      /\ p.entries = [x \in DOMAIN p.entries |-> p.entries[x]]
      /\ k \in DOMAIN p.entries /\ p.entries[k] = Fresh(v)
      /\ DOMAIN p.entries \subseteq DOMAIN ExpiredEntries \cup {k}
      /\ \A x \in DOMAIN p.entries \ {k} : p.entries[x] = ExpiredEntries[x]
  <2>1. InsertedInto(Expired, p, Dest, k, Fresh(v))
    BY <1>1, <1>3, PutEffect
  <2> HIDE DEF p
  <2> QED
    BY <1>2, <2>1 DEF InsertedInto
<1>5. WellKept(p, Capacity)
  BY <1>1, <1>3, PutKeepsTables
<1>6. entries' = p.entries /\ order' = p.order
  BY DEF Insert
<1>7. Fresh(v) \in Entry /\ Fresh(v).verdict = v
  BY <1>3 DEF Fresh, Entry
<1> HIDE DEF p
<1>8. \A x \in DOMAIN entries' : entries'[x] \in Entry
  BY <1>1, <1>4, <1>6, <1>7 DEF IsMap
<1>9. IsMap(entries', Dest, Entry)
  BY <1>1, <1>4, <1>6, <1>8 DEF IsMap
<1>10. order' \in Seq(Dest) /\ Range(order') = DOMAIN entries' /\ IsInjective(order')
       /\ Cardinality(DOMAIN entries') <= Capacity
  BY <1>4, <1>5, <1>6 DEF IsTable, WellKept
<1>11. Len(order') <= Capacity
  BY <1>10, SequenceElements
<1>12. TableInv'
  BY <1>9, <1>10, <1>11
  DEF TableInv, PendingTypeOK, Entry, EntriesBounded, OrderCoversEntries, PacketVerdict
<1> QED
  BY <1>1, <1>4, <1>6, <1>7, <1>12

(* take() gives a verdict that is stored and young enough, and removes it. *)
LEMMA TakeKeeps ==
  ASSUME TableInv, NEW k \in Dest, Take(k), now' \in Nat
  PROVE  /\ TableInv'
         /\ DOMAIN entries' \subseteq DOMAIN entries \ {k}
         /\ \A d \in DOMAIN entries' : entries'[d] = entries[d]
         /\ Taken(k) # "None" => /\ k \in DOMAIN entries /\ Taken(k) = entries[k].verdict
                                 /\ now - entries[k].inserted_at <= Ttl
<1>1. /\ WellKept(Expired, Capacity)
      /\ DOMAIN ExpiredEntries = {d \in DOMAIN entries : ~TooOld(d)}
      /\ \A d \in DOMAIN ExpiredEntries : ExpiredEntries[d] = entries[d]
      /\ IsMap(ExpiredEntries, Dest, Entry)
      /\ ExpiredOrder \in Seq(Dest) /\ Len(ExpiredOrder) <= Capacity
  BY ExpireKeeps
<1>2. order' = ExpiredOrder /\ entries' = MapRemove(ExpiredEntries, {k})
  BY DEF Take
<1>3. /\ DOMAIN entries' = DOMAIN ExpiredEntries \ {k}
      /\ \A d \in DOMAIN entries' : entries'[d] = ExpiredEntries[d]
      /\ entries' = [d \in DOMAIN ExpiredEntries \ {k} |-> ExpiredEntries[d]]
  BY <1>2 DEF MapRemove, Restrict
<1>4. IsMap(entries', Dest, Entry)
  BY <1>1, <1>3 DEF IsMap
<1>5. /\ Range(ExpiredOrder) = DOMAIN ExpiredEntries /\ IsInjective(ExpiredOrder)
      /\ Cardinality(DOMAIN ExpiredEntries) <= Capacity
  BY <1>1 DEF WellKept, Expired
<1>6. IsFiniteSet(DOMAIN ExpiredEntries)
  BY <1>1, <1>5, SequenceElements
<1>7. Cardinality(DOMAIN entries') <= Capacity
  <2>1. /\ IsFiniteSet(DOMAIN entries')
        /\ Cardinality(DOMAIN entries') <= Cardinality(DOMAIN ExpiredEntries)
    BY <1>3, <1>6, FS_Subset
  <2>2. /\ Cardinality(DOMAIN entries') \in Nat /\ Cardinality(DOMAIN ExpiredEntries) \in Nat
        /\ Capacity \in Nat
    BY <1>6, <2>1, FS_CardinalityType, PendingAssumption
  <2> QED
    BY <1>5, <2>1, <2>2
<1>8. TableInv'
  BY <1>1, <1>2, <1>3, <1>4, <1>5, <1>7
  DEF TableInv, PendingTypeOK, Entry, EntriesBounded, OrderCoversEntries, PacketVerdict
<1>9. ASSUME Taken(k) # "None"
      PROVE  /\ k \in DOMAIN entries /\ Taken(k) = entries[k].verdict
             /\ now - entries[k].inserted_at <= Ttl
  <2>1. k \in DOMAIN ExpiredEntries /\ Taken(k) = ExpiredEntries[k].verdict
    BY <1>9 DEF Taken
  <2>2. k \in DOMAIN entries /\ ~(now - entries[k].inserted_at > Ttl)
    BY <1>1, <2>1 DEF TooOld
  <2>3. now \in Nat /\ entries[k].inserted_at \in Nat /\ Ttl \in Nat
    BY <2>2, PendingAssumption DEF TableInv, PendingTypeOK, IsMap
  <2> QED
    BY <1>1, <2>1, <2>2, <2>3
<1> QED
  BY <1>1, <1>3, <1>8, <1>9

-----------------------------------------------------------------------------
(* The steps                                                               *)

(* The Accept that waits for d in the table, and the one in the observer's *)
(* hands.                                                                  *)
Waiting(d) == IF d \in DOMAIN entries /\ entries[d].verdict = "Accept" THEN 1 ELSE 0
InHand(d) == IF observer # Idle /\ dest[observer] = d /\ decision[observer] = "Accept"
             THEN 1 ELSE 0

(* The numbers AcceptsBacked adds up. *)
LEMMA Numbers ==
  ASSUME TypeOK
  PROVE  /\ \A d \in Dest : /\ spent[d] \in Nat /\ grants[d] \in Nat
                            /\ Waiting(d) \in {0, 1} /\ InHand(d) \in {0, 1}
         /\ AcceptsBacked <=> \A d \in Dest : spent[d] + Waiting(d) + InHand(d) <= grants[d]
<1>1. \A d \in Dest : Waiting(d) \in {0, 1} /\ InHand(d) \in {0, 1}
  BY DEF Waiting, InHand
<1>2. \A d \in Dest : spent[d] \in Nat /\ grants[d] \in Nat
  BY DEF TypeOK
<1>3. AcceptsBacked <=> \A d \in Dest : spent[d] + Waiting(d) + InHand(d) <= grants[d]
  BY DEF AcceptsBacked, Waiting, InHand
<1> QED
  BY <1>1, <1>2, <1>3

(* Steps of the kernel, of the clock and of recv() touch neither verdicts  *)
(* nor what is counted of them.                                            *)
LEMMA VerdictsUntouched ==
  ASSUME PathInv, TypeOK', now' \in Nat,
         UNCHANGED <<entries, order, observer, decision, passed, spent, grants>>
  PROVE  TableInv' /\ StoredIsDecided' /\ AcceptsBacked' /\ AloneFollowsOwnDecision'
<1>1. TableInv'
  BY DEF PathInv, TableInv, PendingTypeOK, EntriesBounded, OrderCoversEntries
<1>2. StoredIsDecided'
  BY DEF PathInv, StoredIsDecided
<1>3. AcceptsBacked'
  BY DEF PathInv, AcceptsBacked
<1>4. AloneFollowsOwnDecision'
  BY DEF PathInv, AloneFollowsOwnDecision
<1> QED
  BY <1>1, <1>2, <1>3, <1>4

(* connect() *)
LEMMA ConnectKeeps ==
  ASSUME PathInv, NEW c \in Conn, Connect(c)
  PROVE  PathInv'
<1>1. /\ ring \in Seq(Conn) /\ packets \in Seq(Conn) /\ sent \in [Conn -> 0 .. MaxSyn]
      /\ MaxSyn \in Nat \ {0} /\ now \in Nat /\ PendingTypeOK
  BY PathAssumption DEF PathInv, TypeOK, PendingTypeOK
<1>2. /\ sent[c] = 0 /\ sent' = [sent EXCEPT ![c] = 1] /\ packets' = Append(packets, c)
      /\ ring' = Append(ring, c) \/ ring' = ring
      /\ UNCHANGED <<now, entries, order, observer, worker, decision, passed, refused, grants, spent>>
  BY DEF Connect, tableVars, ghostVars
<1>3. ring' \in Seq(Conn) /\ packets' \in Seq(Conn) /\ sent' \in [Conn -> 0 .. MaxSyn]
  <2>1. ring' \in Seq(Conn) /\ packets' \in Seq(Conn)
    <3>1. Append(ring, c) \in Seq(Conn) /\ Append(packets, c) \in Seq(Conn)
      BY <1>1
    <3> QED
      BY <1>1, <1>2, <3>1
  <2>2. 1 \in 0 .. MaxSyn
    BY <1>1
  <2>3. sent' \in [Conn -> 0 .. MaxSyn]
    BY <1>1, <1>2, <2>2
  <2> QED
    BY <2>1, <2>3
<1>4. PendingTypeOK'
  BY <1>1, <1>2 DEF PendingTypeOK
<1>5. TypeOK'
  BY <1>2, <1>3, <1>4 DEF PathInv, TypeOK
<1>6. /\ IsInjective(ring)
      /\ \A x \in Range(ring) : decision[x] = "None" /\ sent[x] # 0
      /\ \A x \in Conn : sent[x] = 0 => decision[x] = "None"
      /\ observer # Idle => decision[observer] # "None"
  BY DEF PathInv, DecidedOnce
<1>7. c \notin Range(ring) /\ Range(ring) \subseteq Conn
  BY <1>1, <1>2, <1>6 DEF Range
<1>8. IsInjective(ring') /\ Range(ring') \subseteq Range(ring) \cup {c}
  <2>1. CASE ring' = ring
    BY <1>6, <2>1
  <2>2. CASE ring' = Append(ring, c)
    BY <1>1, <1>6, <1>7, <2>2, AppendElements
  <2> QED
    BY <1>2, <2>1, <2>2
<1>9. \A x \in Range(ring) \cup {c} : decision[x] = "None" /\ sent'[x] # 0
  <2>1. decision[c] = "None" /\ sent'[c] = 1
    BY <1>1, <1>2, <1>6
  <2>2. ASSUME NEW x \in Range(ring) PROVE decision[x] = "None" /\ sent'[x] # 0
    BY <1>1, <1>2, <1>6, <1>7
  <2> QED
    BY <2>1, <2>2
<1>10. \A x \in Conn : sent'[x] = 0 => sent[x] = 0
  BY <1>1, <1>2
<1>11. DecidedOnce'
  BY <1>2, <1>6, <1>8, <1>9, <1>10 DEF DecidedOnce
<1> QED
  BY <1>1, <1>2, <1>5, <1>11, VerdictsUntouched DEF PathInv

(* The retransmission of a SYN *)
LEMMA RetransmitKeeps ==
  ASSUME PathInv, NEW c \in Conn, Retransmit(c)
  PROVE  PathInv'
<1>1. /\ ring \in Seq(Conn) /\ packets \in Seq(Conn) /\ sent \in [Conn -> 0 .. MaxSyn]
      /\ MaxSyn \in Nat \ {0} /\ now \in Nat /\ PendingTypeOK
  BY PathAssumption DEF PathInv, TypeOK, PendingTypeOK
<1>2. /\ sent[c] \in 1 .. MaxSyn - 1 /\ sent' = [sent EXCEPT ![c] = @ + 1]
      /\ packets' = Append(packets, c)
      /\ UNCHANGED <<now, entries, order, ring, observer, worker, decision, passed, refused, grants, spent>>
  BY DEF Retransmit, tableVars, ghostVars
<1>3. packets' \in Seq(Conn) /\ sent' \in [Conn -> 0 .. MaxSyn]
  BY <1>1, <1>2
<1>4. PendingTypeOK'
  BY <1>1, <1>2 DEF PendingTypeOK
<1>5. TypeOK'
  BY <1>2, <1>3, <1>4 DEF PathInv, TypeOK
<1>6. \A x \in Conn : sent'[x] = 0 <=> sent[x] = 0
  BY <1>1, <1>2
<1>7. Range(ring) \subseteq Conn
  BY <1>1 DEF Range
<1>8. DecidedOnce'
  BY <1>2, <1>6, <1>7 DEF PathInv, DecidedOnce
<1> QED
  BY <1>1, <1>2, <1>5, <1>8, VerdictsUntouched DEF PathInv

(* recv() *)
LEMMA ReceiveKeeps ==
  ASSUME PathInv, Receive
  PROVE  PathInv'
<1>1. /\ packets \in Seq(Conn) /\ packets # <<>> /\ now \in Nat /\ PendingTypeOK
      /\ MaxAttempts \in Nat \ {0}
  BY PathAssumption DEF PathInv, TypeOK, PendingTypeOK, Receive
<1>2. /\ worker' = [conn |-> Head(packets), attempt |-> 0] /\ packets' = Tail(packets)
      /\ UNCHANGED <<now, entries, order, ring, sent, observer, decision, passed, refused, grants, spent>>
  BY DEF Receive, tableVars, ghostVars
<1>3. /\ packets' \in Seq(Conn)
      /\ worker' \in [conn : Conn, attempt : 0 .. MaxAttempts - 1]
  BY <1>1, <1>2
<1>4. PendingTypeOK'
  BY <1>1, <1>2 DEF PendingTypeOK
<1>5. TypeOK'
  BY <1>2, <1>3, <1>4 DEF PathInv, TypeOK
<1>6. DecidedOnce'
  BY <1>2 DEF PathInv, DecidedOnce
<1> QED
  BY <1>1, <1>2, <1>5, <1>6, VerdictsUntouched DEF PathInv

(* The clock *)
LEMMA TickKeeps ==
  ASSUME PathInv, Tick
  PROVE  PathInv'
<1>1. /\ now \in Nat /\ PendingTypeOK /\ now' = now + 1
      /\ UNCHANGED <<entries, order, ring, packets, sent, observer, worker, decision, passed,
                     refused, grants, spent>>
  BY DEF PathInv, TypeOK, PendingTypeOK, Tick, Advance, tableVars, kernelVars, ghostVars
<1>2. PendingTypeOK' /\ now' \in Nat
  BY <1>1 DEF PendingTypeOK
<1>3. TypeOK'
  BY <1>1, <1>2 DEF PathInv, TypeOK
<1>4. DecidedOnce'
  BY <1>1 DEF PathInv, DecidedOnce
<1> QED
  BY <1>1, <1>2, <1>3, <1>4, VerdictsUntouched DEF PathInv

(* The observer decides the oldest event. *)
LEMMA DecideKeeps ==
  ASSUME PathInv, NEW v \in PacketVerdict, Decide(v)
  PROVE  PathInv'
<1> DEFINE c == Head(ring)
<1>1. /\ ring \in Seq(Conn) /\ ring # <<>> /\ TypeOK /\ TableInv
      /\ decision \in [Conn -> PacketVerdict \cup {"None"}] /\ grants \in [Dest -> Nat]
      /\ dest \in [Conn -> Dest]
  BY PathAssumption DEF PathInv, TypeOK, Decide
<1>2. /\ c \in Conn /\ Tail(ring) \in Seq(Conn) /\ c = ring[1]
      /\ DOMAIN ring = 1 .. Len(ring) /\ DOMAIN Tail(ring) = 1 .. Len(ring) - 1
      /\ \A i \in 1 .. Len(ring) - 1 : Tail(ring)[i] = ring[i + 1]
      /\ Len(ring) \in Nat \ {0}
  BY <1>1
<1>3. /\ observer = Idle /\ observer' = c /\ ring' = Tail(ring)
      /\ decision' = [decision EXCEPT ![c] = v]
      /\ grants' = [grants EXCEPT ![dest[c]] = IF v = "Accept" THEN @ + 1 ELSE @]
      /\ UNCHANGED <<now, entries, order, packets, sent, worker, passed, refused, spent>>
  BY DEF Decide, tableVars
<1> HIDE DEF c
<1>4. TableInv' /\ PendingTypeOK'
  BY <1>1, <1>3 DEF TableInv, PendingTypeOK, EntriesBounded, OrderCoversEntries
<1>5. decision' \in [Conn -> PacketVerdict \cup {"None"}] /\ grants' \in [Dest -> Nat]
  BY <1>1, <1>2, <1>3
<1>6. TypeOK'
  BY <1>1, <1>2, <1>3, <1>4, <1>5 DEF TypeOK
<1>7. /\ IsInjective(ring)
      /\ \A x \in Range(ring) : decision[x] = "None" /\ sent[x] # 0
      /\ \A x \in Conn : sent[x] = 0 => decision[x] = "None"
  BY DEF PathInv, DecidedOnce
<1>8. c \in Range(ring)
  BY <1>2 DEF Range
<1>9. Range(ring') \subseteq Range(ring) \ {c} /\ IsInjective(ring')
  <2>1. \A i \in 1 .. Len(ring) - 1 : i + 1 \in DOMAIN ring /\ i + 1 # 1 /\ 1 \in DOMAIN ring
    BY <1>2
  <2>2. \A i \in 1 .. Len(ring) - 1 : ring'[i] = ring[i + 1] /\ ring'[i] # c
    BY <1>2, <1>3, <1>7, <2>1 DEF IsInjective
  <2>3. \A i, j \in 1 .. Len(ring) - 1 : i + 1 = j + 1 => i = j
    BY <1>2
  <2>4. DOMAIN ring' = 1 .. Len(ring) - 1
    BY <1>2, <1>3
  <2>5. IsInjective(ring')
    BY <1>7, <2>1, <2>2, <2>3, <2>4 DEF IsInjective
  <2>6. Range(ring') \subseteq Range(ring) \ {c}
    BY <2>1, <2>2, <2>4 DEF Range
  <2> QED
    BY <2>5, <2>6
<1>10. decision[c] = "None" /\ sent[c] # 0 /\ decision'[c] = v /\ v # "None"
       /\ \A x \in Conn \ {c} : decision'[x] = decision[x]
  BY <1>1, <1>2, <1>3, <1>7, <1>8 DEF PacketVerdict
<1>11. Range(ring) \subseteq Conn
  BY <1>1 DEF Range
<1>12. DecidedOnce'
  BY <1>3, <1>7, <1>9, <1>10, <1>11 DEF DecidedOnce
<1>13. \A x \in Conn : Alone(x) /\ dest[x] \in DOMAIN entries => x # c
  <2> SUFFICES ASSUME Alone(c), dest[c] \in DOMAIN entries PROVE FALSE
    OBVIOUS
  <2>1. entries[dest[c]].verdict = decision[c]
    BY <1>2 DEF PathInv, StoredIsDecided
  <2>2. entries[dest[c]].verdict \in PacketVerdict
    BY <1>1 DEF TableInv, PendingTypeOK, IsMap
  <2> QED
    BY <1>10, <2>1, <2>2 DEF PacketVerdict
<1>14. StoredIsDecided'
  BY <1>3, <1>10, <1>13 DEF PathInv, StoredIsDecided, Alone
<1>15. AloneFollowsOwnDecision'
  BY <1>3, <1>10 DEF PathInv, AloneFollowsOwnDecision
<1>16. AcceptsBacked'
  <2>1. \A d \in Dest : /\ spent[d] \in Nat /\ grants[d] \in Nat /\ Waiting(d) \in {0, 1}
                        /\ spent[d] + Waiting(d) + InHand(d) <= grants[d]
    BY <1>1, Numbers DEF PathInv
  <2>2. \A d \in Dest : InHand(d) = 0
    BY <1>3 DEF InHand
  <2>3. \A d \in Dest : Waiting(d)' = Waiting(d)
    BY <1>3 DEF Waiting
  <2>4. ASSUME NEW d \in Dest PROVE spent'[d] + Waiting(d)' + InHand(d)' <= grants'[d]
    <3>1. CASE d = dest[c] /\ v = "Accept"
      <4>1. grants'[d] = grants[d] + 1 /\ InHand(d)' \in {0, 1}
        BY <1>1, <1>2, <1>3, <3>1 DEF InHand
      <4> QED
        BY <1>3, <2>1, <2>2, <2>3, <4>1
    <3>2. CASE ~(d = dest[c] /\ v = "Accept")
      <4>1. grants'[d] = grants[d]
        BY <1>1, <1>2, <1>3, <3>2
      <4>2. InHand(d)' = 0
        BY <1>3, <1>10, <3>2 DEF InHand
      <4> QED
        BY <1>3, <2>1, <2>2, <2>3, <4>1, <4>2
    <3> QED
      BY <3>1, <3>2
  <2>5. AcceptsBacked'
    BY <2>4 DEF AcceptsBacked, Waiting, InHand
  <2> QED
    BY <2>5
<1> QED
  BY <1>4, <1>6, <1>12, <1>14, <1>15, <1>16 DEF PathInv

(* The observer stores its decision. *)
LEMMA StorePendingKeeps ==
  ASSUME PathInv, StorePending
  PROVE  PathInv'
<1> DEFINE k == dest[observer]
           v == decision[observer]
<1>1. /\ TypeOK /\ TableInv /\ observer # Idle /\ observer \in Conn /\ k \in Dest /\ now \in Nat
  BY PathAssumption DEF PathInv, TypeOK, PendingTypeOK, StorePending
<1>2. v \in PacketVerdict
  BY <1>1 DEF PathInv, TypeOK, DecidedOnce
<1>3. /\ Insert(k, v) /\ observer' = Idle
      /\ UNCHANGED <<now, ring, packets, sent, worker, decision, passed, refused, grants, spent>>
  BY DEF StorePending, kernelVars, ghostVars
<1>4. /\ TableInv' /\ k \in DOMAIN entries' /\ entries'[k].verdict = v
      /\ DOMAIN entries' \subseteq DOMAIN entries \cup {k}
      /\ \A d \in DOMAIN entries' \ {k} : entries'[d] = entries[d]
  BY <1>1, <1>2, <1>3, InsertKeeps
<1>5. TypeOK'
  BY <1>1, <1>3, <1>4 DEF TypeOK, TableInv
<1>6. DecidedOnce'
  BY <1>3 DEF PathInv, DecidedOnce
<1>7. StoredIsDecided'
  <2> SUFFICES ASSUME NEW c \in Conn, Alone(c), dest[c] \in DOMAIN entries'
               PROVE  entries'[dest[c]].verdict = decision[c]
    BY <1>3 DEF StoredIsDecided, Alone
  <2>1. CASE dest[c] = k
    <3>1. c = observer
      BY <1>1, <2>1 DEF Alone
    <3> QED
      BY <1>4, <2>1, <3>1
  <2>2. CASE dest[c] # k
    BY <1>4, <2>2 DEF PathInv, StoredIsDecided
  <2> QED
    BY <2>1, <2>2
<1>8. AloneFollowsOwnDecision'
  BY <1>3 DEF PathInv, AloneFollowsOwnDecision
<1>9. AcceptsBacked'
  <2>1. \A d \in Dest : /\ spent[d] \in Nat /\ grants[d] \in Nat
                        /\ Waiting(d) \in {0, 1} /\ InHand(d) \in {0, 1}
                        /\ spent[d] + Waiting(d) + InHand(d) <= grants[d]
    BY <1>1, Numbers DEF PathInv
  <2>2. \A d \in Dest : InHand(d)' = 0
    BY <1>3 DEF InHand
  <2>3. ASSUME NEW d \in Dest PROVE spent[d] + Waiting(d)' + 0 <= grants[d]
    <3>1. CASE d = k
      <4>1. Waiting(d)' = InHand(d)
        BY <1>1, <1>4, <3>1 DEF Waiting, InHand
      <4> QED
        BY <2>1, <4>1
    <3>2. CASE d # k
      <4>1. Waiting(d)' = 0 \/ Waiting(d)' = Waiting(d)
        BY <1>4, <3>2 DEF Waiting
      <4> QED
        BY <2>1, <4>1
    <3> QED
      BY <3>1, <3>2
  <2>4. \A d \in Dest : spent'[d] + Waiting(d)' + InHand(d)' <= grants'[d]
    BY <1>3, <2>2, <2>3
  <2> QED
    BY <2>4 DEF AcceptsBacked, Waiting, InHand
<1> QED
  BY <1>4, <1>5, <1>6, <1>7, <1>8, <1>9 DEF PathInv

(* One attempt of the lookup issues at most the verdict it took.           *)
LEMMA LookupIssues ==
  ASSUME PathInv, Lookup
  PROVE  LET c == worker.conn IN
         /\ c \in Conn /\ dest[c] \in Dest
         /\ TableInv' /\ TypeOK'
         /\ DOMAIN entries' \subseteq DOMAIN entries \ {dest[c]}
         /\ \A d \in DOMAIN entries' : entries'[d] = entries[d]
         /\ UNCHANGED <<now, ring, packets, sent, observer, decision, grants>>
         /\ \/ passed' = passed /\ spent' = spent
            \/ /\ dest[c] \in DOMAIN entries /\ entries[dest[c]].verdict = "Accept"
               /\ now - entries[dest[c]].inserted_at <= Ttl
               /\ passed' = [passed EXCEPT ![c] = @ + 1]
               /\ spent' = [spent EXCEPT ![dest[c]] = @ + 1]
<1> DEFINE c == worker.conn
           k == dest[c]
<1>1. TypeOK /\ TableInv /\ worker # Idle
  BY DEF PathInv, Lookup
<1>2. /\ worker \in [conn : Conn, attempt : 0 .. MaxAttempts - 1]
      /\ passed \in [Conn -> Nat] /\ refused \in [Conn -> Nat] /\ spent \in [Dest -> Nat]
  BY <1>1 DEF TypeOK
<1>3. c \in Conn /\ k \in Dest /\ worker.attempt \in 0 .. MaxAttempts - 1
  BY <1>2, PathAssumption
<1>4. Take(k) /\ UNCHANGED <<now, ring, packets, sent, observer, decision>>
  BY DEF Lookup, kernelVars
<1>5. now' \in Nat
  BY <1>1, <1>4 DEF TypeOK, PendingTypeOK
<1>6. /\ TableInv' /\ DOMAIN entries' \subseteq DOMAIN entries \ {k}
      /\ \A d \in DOMAIN entries' : entries'[d] = entries[d]
      /\ Taken(k) # "None" => /\ k \in DOMAIN entries /\ Taken(k) = entries[k].verdict
                              /\ now - entries[k].inserted_at <= Ttl
  BY <1>1, <1>3, <1>4, <1>5, TakeKeeps
<1>7. \/ \E v \in {Taken(k), "Drop"} : (v = "Accept" => Taken(k) = "Accept") /\ Issue(v)
      \/ /\ worker.attempt < MaxAttempts - 1
         /\ worker' = [worker EXCEPT !.attempt = worker.attempt + 1]
         /\ passed' = passed /\ refused' = refused /\ spent' = spent /\ grants' = grants
  BY DEF Lookup, ghostVars, LastAttempt, NextAttempt, MissVerdict
<1> HIDE DEF c, k
<1>8. CASE \E v \in {Taken(k), "Drop"} : (v = "Accept" => Taken(k) = "Accept") /\ Issue(v)
  <2>1. PICK v \in {Taken(k), "Drop"} : (v = "Accept" => Taken(k) = "Accept") /\ Issue(v)
    BY <1>8
  <2>2. /\ worker' = Idle /\ grants' = grants
        /\ passed' = [passed EXCEPT ![c] = IF v = "Accept" THEN @ + 1 ELSE @]
        /\ refused' = [refused EXCEPT ![c] = IF v = "Drop" THEN @ + 1 ELSE @]
        /\ spent' = [spent EXCEPT ![k] = IF v = "Accept" THEN @ + 1 ELSE @]
    BY <2>1 DEF Issue, c, k
  <2>3. passed' \in [Conn -> Nat] /\ refused' \in [Conn -> Nat] /\ spent' \in [Dest -> Nat]
    BY <1>2, <1>3, <2>2
  <2>4. TypeOK'
    BY <1>1, <1>4, <1>6, <2>2, <2>3 DEF TypeOK, TableInv
  <2>5. CASE v = "Accept"
    <3>1. passed' = [passed EXCEPT ![c] = @ + 1] /\ spent' = [spent EXCEPT ![k] = @ + 1]
      BY <2>2, <2>5
    <3>2. Taken(k) = "Accept"
      BY <2>1, <2>5
    <3> QED
      BY <1>3, <1>4, <1>6, <2>2, <2>4, <3>1, <3>2 DEF c, k
  <2>6. CASE v # "Accept"
    <3>1. passed' = passed /\ spent' = spent
      BY <1>2, <2>2, <2>6
    <3> QED
      BY <1>3, <1>4, <1>6, <2>2, <2>4, <3>1 DEF c, k
  <2> QED
    BY <2>5, <2>6
<1>9. CASE /\ worker.attempt < MaxAttempts - 1
           /\ worker' = [worker EXCEPT !.attempt = worker.attempt + 1]
           /\ passed' = passed /\ refused' = refused /\ spent' = spent /\ grants' = grants
  <2>1. worker.attempt + 1 \in 0 .. MaxAttempts - 1
    BY <1>3, <1>9, PathAssumption
  <2>2. worker' \in [conn : Conn, attempt : 0 .. MaxAttempts - 1]
    BY <1>2, <1>9, <2>1
  <2>3. TypeOK'
    BY <1>1, <1>4, <1>6, <1>9, <2>2 DEF TypeOK, TableInv
  <2> QED
    BY <1>3, <1>4, <1>6, <1>9, <2>3 DEF c, k
<1> QED
  BY <1>7, <1>8, <1>9

(* A lookup of the packet worker keeps the inductive invariant. *)
LEMMA LookupKeeps ==
  ASSUME PathInv, Lookup
  PROVE  PathInv'
<1> DEFINE c == worker.conn
           k == dest[c]
           accepts == /\ k \in DOMAIN entries /\ entries[k].verdict = "Accept"
                      /\ passed' = [passed EXCEPT ![c] = @ + 1]
                      /\ spent' = [spent EXCEPT ![k] = @ + 1]
<1>1. /\ c \in Conn /\ k \in Dest /\ TableInv' /\ TypeOK'
      /\ DOMAIN entries' \subseteq DOMAIN entries \ {k}
      /\ \A d \in DOMAIN entries' : entries'[d] = entries[d]
      /\ UNCHANGED <<now, ring, packets, sent, observer, decision, grants>>
      /\ (passed' = passed /\ spent' = spent) \/ accepts
  BY LookupIssues
<1>2. TypeOK /\ passed \in [Conn -> Nat] /\ spent \in [Dest -> Nat]
  BY DEF PathInv, TypeOK
<1> HIDE DEF c
<1>3. DecidedOnce'
  BY <1>1 DEF PathInv, DecidedOnce
<1>4. StoredIsDecided'
  BY <1>1 DEF PathInv, StoredIsDecided, Alone
<1>5. AloneFollowsOwnDecision'
  <2>1. CASE passed' = passed
    BY <1>1, <2>1 DEF PathInv, AloneFollowsOwnDecision
  <2>2. CASE accepts
    <3>1. \A x \in Conn \ {c} : passed'[x] = passed[x]
      BY <1>1, <1>2, <2>2
    <3>2. Alone(c) => decision[c] = "Accept"
      BY <1>1, <2>2 DEF PathInv, StoredIsDecided
    <3> QED
      BY <1>1, <3>1, <3>2 DEF PathInv, AloneFollowsOwnDecision, Alone
  <2> QED
    BY <1>1, <2>1, <2>2
<1>6. AcceptsBacked'
  <2>1. \A d \in Dest : /\ spent[d] \in Nat /\ grants[d] \in Nat
                        /\ Waiting(d) \in {0, 1} /\ InHand(d) \in {0, 1}
                        /\ spent[d] + Waiting(d) + InHand(d) <= grants[d]
    BY <1>2, Numbers DEF PathInv
  <2>2. \A d \in Dest : InHand(d)' = InHand(d)
    BY <1>1 DEF InHand
  <2>3. \A d \in Dest : Waiting(d)' \in {0, Waiting(d)}
    BY <1>1 DEF Waiting
  <2>4. ASSUME NEW d \in Dest PROVE spent'[d] + Waiting(d)' + InHand(d)' <= grants'[d]
    <3>1. CASE spent'[d] = spent[d]
      BY <1>1, <2>1, <2>2, <2>3, <3>1
    <3>2. CASE spent'[d] # spent[d]
      <4>1. accepts /\ d = k
        BY <1>1, <1>2, <3>2
      <4>2. Waiting(d) = 1 /\ Waiting(d)' = 0 /\ spent'[d] = spent[d] + 1
        BY <1>1, <1>2, <4>1 DEF Waiting
      <4> QED
        BY <1>1, <2>1, <2>2, <4>2
    <3> QED
      BY <3>1, <3>2
  <2> QED
    BY <2>4 DEF AcceptsBacked, Waiting, InHand
<1> QED
  BY <1>1, <1>3, <1>4, <1>5, <1>6 DEF PathInv

-----------------------------------------------------------------------------
(* The inductive invariant                                                 *)

(* The inductive invariant holds initially. *)
LEMMA PathInvInit ==
  ASSUME Init
  PROVE  PathInv
<1>1. /\ now = 0 /\ entries = EmptyMap /\ order = <<>> /\ ring = <<>> /\ packets = <<>>
      /\ DOMAIN entries = {} /\ observer = Idle /\ worker = Idle
  BY DEF Init, PendingInit, EmptyMap
<1>2. Capacity \in Nat
  BY PendingAssumption
<1>3. PendingTypeOK
  <2>1. entries \in [{} -> Entry]
    BY <1>1 DEF EmptyMap
  <2> QED
    BY <1>1, <2>1 DEF PendingTypeOK, IsMap, Entry
<1>4. Range(ring) = {} /\ Range(order) = {} /\ IsInjective(ring) /\ IsInjective(order)
      /\ ring \in Seq(Conn) /\ packets \in Seq(Conn) /\ order \in Seq(Dest) /\ Len(order) = 0
  BY <1>1 DEF Range, IsInjective
<1>5. Cardinality(DOMAIN entries) <= Capacity
  BY <1>1, <1>2, FS_EmptySet
<1>6. TableInv
  BY <1>1, <1>2, <1>3, <1>4, <1>5 DEF TableInv, EntriesBounded, OrderCoversEntries
<1>7. TypeOK
  <2>1. 0 \in 0 .. MaxSyn
    BY PathAssumption
  <2>2. sent \in [Conn -> 0 .. MaxSyn]
    BY <2>1 DEF Init
  <2>3. /\ decision \in [Conn -> PacketVerdict \cup {"None"}]
        /\ passed \in [Conn -> Nat] /\ refused \in [Conn -> Nat]
        /\ grants \in [Dest -> Nat] /\ spent \in [Dest -> Nat]
    BY DEF Init
  <2> QED
    BY <1>1, <1>3, <1>4, <2>2, <2>3 DEF TypeOK
<1>8. DecidedOnce
  BY <1>1, <1>4 DEF Init, DecidedOnce
<1>9. StoredIsDecided
  BY <1>1 DEF StoredIsDecided
<1>10. AcceptsBacked
  BY <1>1 DEF Init, AcceptsBacked
<1>11. AloneFollowsOwnDecision
  BY DEF Init, AloneFollowsOwnDecision
<1> QED
  BY <1>6, <1>7, <1>8, <1>9, <1>10, <1>11 DEF PathInv

(* Every step keeps the inductive invariant. *)
LEMMA PathInvStep ==
  ASSUME PathInv, [Next]_vars
  PROVE  PathInv'
<1>1. CASE \E c \in Conn : Connect(c) \/ Retransmit(c)
  BY <1>1, ConnectKeeps, RetransmitKeeps
<1>2. CASE \E v \in PacketVerdict : Decide(v)
  BY <1>2, DecideKeeps
<1>3. CASE StorePending
  BY <1>3, StorePendingKeeps
<1>4. CASE Receive
  BY <1>4, ReceiveKeeps
<1>5. CASE Lookup
  BY <1>5, LookupKeeps
<1>6. CASE Tick
  BY <1>6, TickKeeps
<1>7. CASE UNCHANGED vars
  <2>1. UNCHANGED <<now, entries, order, ring, packets, sent, observer, worker, decision,
                    passed, refused, grants, spent>>
    BY <1>7 DEF vars, tableVars, kernelVars, ghostVars
  <2>2. PendingTypeOK'
    BY <2>1 DEF PathInv, TypeOK, PendingTypeOK
  <2>3. TypeOK'
    BY <2>1, <2>2 DEF PathInv, TypeOK
  <2>4. now' \in Nat
    BY <2>2 DEF PendingTypeOK
  <2>5. DecidedOnce'
    BY <2>1 DEF PathInv, DecidedOnce
  <2> QED
    BY <2>1, <2>3, <2>4, <2>5, VerdictsUntouched DEF PathInv
<1> QED
  BY <1>1, <1>2, <1>3, <1>4, <1>5, <1>6, <1>7 DEF Next

(* PathInv is an invariant of the verdict path. *)
THEOREM PathInvariant == Spec => []PathInv
<1>1. Init => PathInv
  BY PathInvInit
<1>2. PathInv /\ [Next]_vars => PathInv'
  BY PathInvStep
<1> QED
  BY <1>1, <1>2, PTL DEF Spec

(* Whatever the observer and the NFQUEUE thread interleave, the pending    *)
(* table (pending.rs) stays within its capacity and `order` holds every    *)
(* entry's key exactly once.                                               *)
THEOREM PendingTableConsistent == Spec => []TableConsistent
<1>1. PathInv => TableConsistent
  BY DEF PathInv, TableInv, TableConsistent
<1> QED
  BY <1>1, PathInvariant, PTL

(* take() (pending.rs) spends a decision: no destination ever gets more    *)
(* accepted packets than Accept decisions.                                 *)
THEOREM AcceptsStayBacked == Spec => []AcceptsBacked
<1>1. PathInv => AcceptsBacked
  BY DEF PathInv
<1> QED
  BY <1>1, PathInvariant, PTL

(* Without another connection to the same destination, nothing but the     *)
(* connection's own Accept lets a packet of it pass (nfqueue_live.rs).     *)
THEOREM AloneIsDecidedByItself == Spec => []AloneFollowsOwnDecision
<1>1. PathInv => AloneFollowsOwnDecision
  BY DEF PathInv
<1> QED
  BY <1>1, PathInvariant, PTL

(* A packet passes only on a stored Accept that is at most Ttl old: the    *)
(* expire() at the head of take() is enough, because `order` reaches every *)
(* entry.                                                                  *)
THEOREM AcceptsAreFresh == Spec => AcceptedWhileFresh
<1> DEFINE A == \A c \in Conn :
                  passed'[c] > passed[c] =>
                    /\ dest[c] \in DOMAIN entries
                    /\ entries[dest[c]].verdict = "Accept"
                    /\ now - entries[dest[c]].inserted_at <= Ttl
<1>1. ASSUME PathInv, [Next]_vars PROVE [A]_vars
  <2>1. \A c \in Conn : passed[c] \in Nat
    BY <1>1 DEF PathInv, TypeOK
  <2>2. CASE passed' = passed
    BY <2>1, <2>2
  <2>3. CASE passed' # passed
    <3>1. Lookup
      BY <1>1, <2>3 DEF Next, Connect, Retransmit, Decide, StorePending, Receive, Tick,
                        vars, ghostVars
    <3>2. /\ worker.conn \in Conn /\ dest[worker.conn] \in DOMAIN entries
          /\ entries[dest[worker.conn]].verdict = "Accept"
          /\ now - entries[dest[worker.conn]].inserted_at <= Ttl
          /\ passed' = [passed EXCEPT ![worker.conn] = @ + 1]
      BY <1>1, <2>3, <3>1, LookupIssues
    <3>3. passed \in [Conn -> Nat]
      BY <1>1 DEF PathInv, TypeOK
    <3>4. \A c \in Conn \ {worker.conn} : passed'[c] = passed[c]
      BY <3>2, <3>3
    <3>5. \A c \in Conn \ {worker.conn} : ~(passed'[c] > passed[c])
      BY <2>1, <3>4
    <3> QED
      BY <3>2, <3>5
  <2> QED
    BY <2>2, <2>3
<1> QED
  BY <1>1, PathInvariant, PTL DEF Spec, AcceptedWhileFresh
=============================================================================
