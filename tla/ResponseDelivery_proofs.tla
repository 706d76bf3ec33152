----------------------- MODULE ResponseDelivery_proofs -----------------------
(***************************************************************************)
(* Proofs about what ResponseQueue delivers, for every value of its        *)
(* constants: that no answer is forgotten as long as IndexedDB does not    *)
(* fail, that without persistence an answer reported as sent is stored,    *)
(* and that one page creates one response as long as every reply arrives.  *)
(*                                                                         *)
(* They rest on the inductive invariant IInv of ResponseQueue_proofs,      *)
(* which gives the types and the locks, and on an invariant each for what  *)
(* the suspended calls promise: Delivery and Single below.                 *)
(***************************************************************************)
EXTENDS ResponseQueue_proofs

(* The answer n is on its way to IndexedDB, by one of the frames D.        *)
Adding(n, D) == \E k \in DOMAIN D : D[k].at = "add" /\ D[k].item = n

(* Where an answer is kept for good: with persistence the in-memory queue  *)
(* does not count, since a sync may cut it.                                *)
Kept(n) ==
  \/ Delivered(n)
  \/ n \in stale
  \/ \E e \in idb : e.item = n
  \/ Adding(n, dbq)
  \/ ~Persist /\ \E i \in Insts : n \in ToSet(queue[i])

(* A request carries its answer; what an accepted one carried is stored;   *)
(* and while the bootstrap create is out, what it does not carry is kept.  *)
Faithful(f) ==
  /\ f.item < next /\ f.item \in f.data
  /\ \A e \in f.rest : e.item < next
  /\ Accepted(f) => \A n \in f.data : Delivered(n)
  /\ boot /\ f.rid = 0 => \A n \in 1 .. next - 1 : n \in f.data \/ Kept(n)

(* An entry is removed from IndexedDB after its answer was stored or       *)
(* refused.                                                                *)
FaithfulDb(f) ==
  /\ f.item < next
  /\ \A e \in f.rest : e.item < next
  /\ f.at = "del" => Delivered(f.item)
  /\ f.at = "syncdel" => Delivered(f.item) \/ f.item \in stale

OfNet == {f \in NetFrames : Faithful(f)}
OfDb  == {f \in DbFrames : FaithfulDb(f)}

(* Without persistence IndexedDB is not used and no sync ever runs.        *)
InMemory ==
  /\ dbq = <<>> /\ known = {} /\ idb = {} /\ ~boot /\ ~syncing
  /\ finished => ended \/ Delivered(MaxItems)

(* The inductive invariant: every answer given is kept, or will be part of *)
(* the bootstrap create.                                                   *)
Delivery ==
  /\ acc = 1 .. next - 1
  /\ \A i \in Insts : queue[i] \in Seq(1 .. next - 1)
  /\ \A e \in idb : e.item < next
  /\ net \in Seq(OfNet) /\ dbq \in Seq(OfDb)
  /\ \A n \in 1 .. next - 1 : boot \/ Kept(n)
  /\ ~Persist => InMemory

(* The writes under way after a request is added to or leaves the frames.  *)
LEMMA AddingAppend ==
  ASSUME NEW S, NEW D \in Seq(S), NEW g \in S
  PROVE  /\ \A n : Adding(n, D) => Adding(n, Append(D, g))
         /\ g.at = "add" => Adding(g.item, Append(D, g))
<1>1. DOMAIN D = 1 .. Len(D) /\ Len(D) \in Nat
  BY LenProperties
<1>2. DOMAIN Append(D, g) = 1 .. Len(D) + 1
  BY AppendProperties, LenProperties
<1>3. Append(D, g)[Len(D) + 1] = g /\ \A k \in 1 .. Len(D) : Append(D, g)[k] = D[k]
  BY <1>1, AppendProperties
<1>4. ASSUME NEW n, Adding(n, D)
      PROVE  Adding(n, Append(D, g))
  <2>1. PICK k \in 1 .. Len(D) : D[k].at = "add" /\ D[k].item = n
    BY <1>1, <1>4 DEF Adding
  <2>. QED  BY <1>1, <1>2, <1>3, <2>1 DEF Adding
<1>5. ASSUME g.at = "add"
      PROVE  Adding(g.item, Append(D, g))
  <2>1. Len(D) + 1 \in DOMAIN Append(D, g)
    BY <1>1, <1>2
  <2>. QED  BY <1>3, <1>5, <2>1 DEF Adding
<1>. QED  BY <1>4, <1>5

LEMMA AddingTail ==
  ASSUME NEW S, NEW D \in Seq(S), D # <<>>, NEW n, Adding(n, D)
  PROVE  Adding(n, Tail(D)) \/ (Head(D).at = "add" /\ Head(D).item = n)
<1>1. DOMAIN D = 1 .. Len(D) /\ Len(D) \in Nat \ {0} /\ Head(D) = D[1]
  BY LenProperties, EmptySeq
<1>2. DOMAIN Tail(D) = 1 .. Len(D) - 1 /\ \A k \in 1 .. Len(D) - 1 : Tail(D)[k] = D[k + 1]
  BY HeadTailProperties, LenProperties
<1>3. PICK k \in 1 .. Len(D) : D[k].at = "add" /\ D[k].item = n
  BY <1>1 DEF Adding
<1>4. CASE k = 1
  BY <1>1, <1>3, <1>4
<1>5. CASE k # 1
  <2>1. k - 1 \in 1 .. Len(D) - 1 /\ (k - 1) + 1 = k
    BY <1>1, <1>5
  <2>2. Tail(D)[k - 1] = D[k]
    BY <1>2, <2>1
  <2>. QED  BY <1>2, <1>3, <2>1, <2>2 DEF Adding
<1>. QED  BY <1>4, <1>5

(* What is kept stays kept, and the promises of the suspended calls stand, *)
(* if the server and the refusals only grow, an entry leaves IndexedDB     *)
(* when its answer is stored or refused, a write under way ends with the   *)
(* entry, and the queue, when it counts, loses only stored answers.        *)
LEMMA Carried ==
  ASSUME IInv, IInv', next <= next', boot' => boot,
         \A n : Delivered(n) => Delivered(n)',
         stale \subseteq stale',
         \A e \in idb : e \in idb' \/ Delivered(e.item)' \/ e.item \in stale',
         \A n : Adding(n, dbq) => Adding(n, dbq)' \/ \E e \in idb' : e.item = n,
         ~Persist => \A i \in Insts : \A n \in ToSet(queue[i]) :
                        n \in ToSet(queue[i])' \/ Delivered(n)',
         \A n \in 1 .. next' - 1 : n \in 1 .. next - 1 \/ Kept(n)'
  PROVE  /\ \A n : Kept(n) => Kept(n)'
         /\ OfNet \subseteq OfNet'
         /\ OfDb \subseteq OfDb'
<1>1. next \in Nat /\ next' \in Nat
  BY BoundsAssumption DEF IInv, TypeInv, StateTyped
<1>2. ASSUME NEW n, Kept(n)
      PROVE  Kept(n)'
  <2>1. CASE Delivered(n)
    BY <2>1 DEF Kept
  <2>2. CASE n \in stale
    BY <2>2 DEF Kept
  <2>3. CASE \E e \in idb : e.item = n
    BY <2>3 DEF Kept
  <2>4. CASE Adding(n, dbq)
    BY <2>4 DEF Kept
  <2>5. CASE ~Persist /\ \E i \in Insts : n \in ToSet(queue[i])
    BY <2>5 DEF Kept
  <2>. QED  BY <1>2, <2>1, <2>2, <2>3, <2>4, <2>5 DEF Kept
<1>3. ASSUME NEW f \in NetFrames, Faithful(f)
      PROVE  Faithful(f)'
  <2>1. f.item \in Nat /\ \A e \in f.rest : e.item \in Nat
    BY DEF NetFrames, NetFrame, Chains, Entry, Items
  <2>2. /\ f.item < next' /\ f.item \in f.data
        /\ \A e \in f.rest : e.item < next'
    BY <1>1, <1>3, <2>1 DEF Faithful
  <2>3. Accepted(f) => \A n \in f.data : Delivered(n)'
    BY <1>3 DEF Faithful
  <2>4. boot' /\ f.rid = 0 => \A n \in 1 .. next' - 1 : n \in f.data \/ Kept(n)'
    BY <1>2, <1>3 DEF Faithful
  <2>5. Accepted(f)' <=> Accepted(f)
    BY DEF Accepted
  <2>. QED  BY <2>2, <2>3, <2>4, <2>5 DEF Faithful
<1>4. ASSUME NEW f \in DbFrames, FaithfulDb(f)
      PROVE  FaithfulDb(f)'
  <2>1. f.item \in Nat /\ \A e \in f.rest : e.item \in Nat
    BY DEF DbFrames, DbFrame, Frame, Chains, Entry, Items
  <2>. QED  BY <1>1, <1>4, <2>1 DEF FaithfulDb
<1>. QED  BY <1>2, <1>3, <1>4 DEF OfNet, OfDb

(* The data of a request.                                                  *)
LEMMA SendingCarries ==
  ASSUME NEW f \in Frame, NEW x \in Items, NEW r \in RespIds, NEW d \in {0, Display},
         NEW g, g = Sending(f, x, r, d)
  PROVE  /\ g.rid = r /\ g.new = 0
         /\ r = 0 /\ boot => g.data = acc
         /\ ~(r = 0 /\ boot) => g.data = {x}
         /\ g.st \in {"wire", "neterr"}
         /\ ~Accepted(g)
<1>. DEFINE D  == IF r = 0 /\ boot THEN acc ELSE {x}
            St == IF online THEN "wire" ELSE "neterr"
<1>1. g = [f EXCEPT !.item = x, !.rid = r, !.new = 0, !.disp = d, !.data = D, !.st = St]
  BY DEF Sending
<1>2. St # "ok" /\ St # "quota"
  OBVIOUS
<1>. HIDE DEF D, St
<1>3. g.rid = r /\ g.new = 0 /\ g.data = D /\ g.st = St
  BY <1>1 DEF Frame
<1>. QED  BY <1>2, <1>3 DEF Accepted, D, St

(* Nothing but the bootstrap create carries other answers than its own,    *)
(* and that one carries all of them.                                       *)
LEMMA SendingIsFaithful ==
  ASSUME IInv, Delivery,
         NEW f \in Frame, NEW x \in Items, NEW r \in RespIds, NEW d \in {0, Display},
         x < next, Sending(f, x, r, d) \in NetFrames,
         \A e \in Sending(f, x, r, d).rest : e.item < next
  PROVE  Sending(f, x, r, d) \in OfNet
<1>0. PICK g : g = Sending(f, x, r, d)
  OBVIOUS
<1>1. acc \subseteq Items /\ acc = 1 .. next - 1 /\ next \in Nat
  BY BoundsAssumption DEF IInv, TypeInv, StateTyped, Delivery
<1>2. /\ ~(r = 0 /\ boot) => g.data = {x}
      /\ r = 0 /\ boot => g.data = acc
      /\ g.rid = r /\ ~Accepted(g)
  BY <1>0, SendingCarries
<1>3. g.item = x
  BY <1>0, <1>1, SendingIsFrame
<1>4. x \in 1 .. next - 1
  BY <1>1 DEF Items
<1>5. Faithful(g)
  <2>1. \A e \in g.rest : e.item < next
    BY <1>0
  <2>2. x \in g.data /\ (boot /\ r = 0 => g.data = 1 .. next - 1)
    BY <1>1, <1>2, <1>4
  <2>. QED  BY <1>2, <1>3, <2>1, <2>2 DEF Faithful
<1>. QED  BY <1>0, <1>5 DEF OfNet

(* processQueue adds a count of the pending entries or, without            *)
(* persistence, a request with the head of the queue.                      *)
LEMMA ProcessQueueAdds ==
  ASSUME NEW i \in Insts, NEW q, NEW b, NEW D \in Seq(DbFrames), NEW T, NEW u \in BOOLEAN,
         ProcessQueue(i, q, b, syncing, D, T, u)
  PROVE  /\ \A n : Adding(n, D) => Adding(n, dbq')
         /\ ~Persist => dbq' = D
<1>. DEFINE g == [Await("count", i) EXCEPT !.user = u]
<1>1. dbq' = D \/ (Persist /\ dbq' = Append(D, g))
  BY DEF ProcessQueue
<1>2. g \in DbFrames
  BY AwaitIsDbFrame DEF DbAwaits
<1>. HIDE DEF g
<1>. QED  BY <1>1, <1>2, AddingAppend

LEMMA ProcessQueueKeeps ==
  ASSUME StateTyped, rid' \in RespIds, next' \in Nat,
         ~Persist => ~boot /\ ~boot',
         NEW i \in Insts, NEW q \in [Insts -> Seq(Items)],
         \A j \in Insts : q[j] \in Seq(1 .. next' - 1),
         NEW b \in BOOLEAN, NEW D \in Seq(OfDb'), NEW T \in Seq(OfNet'), NEW u \in BOOLEAN,
         ProcessQueue(i, q, b, syncing, D, T, u)
  PROVE  dbq' \in Seq(OfDb') /\ net' \in Seq(OfNet')
<1>. DEFINE go == MayProcess(i, q, b, syncing)
<1>1. CASE ~ go
  BY <1>1 DEF ProcessQueue
<1>2. CASE go /\ Persist
  <2>. DEFINE g == [Await("count", i) EXCEPT !.user = u]
  <2>1. g \in DbFrames /\ g.at = "count"
    BY AwaitIsDbFrame DEF DbAwaits
  <2>2. g.item = 0 /\ g.rest = {}
    BY DEF Await
  <2>3. dbq' = Append(D, g) /\ net' = T
    BY <1>2 DEF ProcessQueue
  <2>4. q[i] # <<>> /\ q[i] \in Seq(1 .. next' - 1)
    BY <1>2 DEF MayProcess
  <2>. HIDE DEF g
  <2>5. 0 < next'
    <3>1. Head(q[i]) \in 1 .. next' - 1
      BY <2>4, HeadTailProperties
    <3>. QED  BY <3>1
  <2>6. g \in OfDb'
    BY <2>1, <2>2, <2>5 DEF OfDb, FaithfulDb
  <2>. QED  BY <2>3, <2>6, AppendProperties
<1>3. CASE go /\ ~ Persist
  <2>. DEFINE a == [Await("pq", i) EXCEPT !.user = u]
  <2>0. PICK g : g = Sending(a, Head(q[i]), rid', disp)
    OBVIOUS
  <2>1. dbq' = D /\ net' = Append(T, g) /\ q[i] # <<>>
    BY <1>3, <2>0 DEF ProcessQueue, MayProcess
  <2>2. Head(q[i]) \in Items /\ Head(q[i]) \in 1 .. next' - 1
    BY <2>1, HeadTailProperties
  <2>3. a \in Frame /\ a.rest = {} /\ a.at = "pq"
    <3>1. Await("pq", i) \in Frame /\ Await("pq", i).rest = {}
      BY AwaitIsFrame DEF NetAwaits
    <3>2. Await("pq", i).at = "pq" /\ Await("pq", i).inst = i
      BY DEF Await
    <3>. QED  BY <3>1, <3>2 DEF Frame
  <2>. HIDE DEF a
  <2>4. disp \in {0, Display} /\ acc \subseteq Items
    BY DEF StateTyped
  <2>5. /\ g \in Frame /\ g.rest = {} /\ g.at = "pq" /\ g.item = Head(q[i])
        /\ g.data = {Head(q[i])} /\ ~Accepted(g)
    <3>1. /\ g \in Frame /\ g.item = Head(q[i]) /\ g.at = a.at /\ g.rest = a.rest
      BY <2>0, <2>2, <2>3, <2>4, SendingIsFrame
    <3>2. (~(rid' = 0 /\ boot) => g.data = {Head(q[i])}) /\ ~Accepted(g)
      BY <2>0, <2>2, <2>3, <2>4, SendingCarries
    <3>. QED  BY <1>3, <2>3, <3>1, <3>2
  <2>6. g \in NetFrames
    BY <2>2, <2>5, ChainEmpty DEF NetFrames, NetFrame, NetAwaits
  <2>7. Faithful(g)'
    BY <1>3, <2>2, <2>5 DEF Faithful, Accepted
  <2>8. g \in OfNet'
    BY <2>6, <2>7 DEF OfNet
  <2>. QED  BY <2>1, <2>8, AppendProperties
<1>. QED  BY <1>1, <1>2, <1>3

(* A sync sends one of its entries.                                        *)
LEMMA SendEntryKeeps ==
  ASSUME IInv, Delivery, NEW f \in Frame, NEW S \in Chains, S # {},
         \A e \in S : e.item < next, NEW D, net = <<>>, SendEntry(f, S, D),
         OfNet \subseteq OfNet'
  PROVE  net' \in Seq(OfNet') /\ dbq' = D
<1>. DEFINE e == Oldest(S)
            a == [f EXCEPT !.at = "sync", !.rest = S]
<1>0. PICK g : g = Sending(a, e.item, rid', disp)
  OBVIOUS
<1>1. e \in S /\ e.item \in Items /\ e.rid \in RespIds
  BY ChainOldest
<1>. HIDE DEF e
<1>2. /\ rid' \in RespIds /\ disp \in {0, Display} /\ acc \subseteq Items
  BY <1>1 DEF IInv, TypeInv, StateTyped, SendEntry, e
<1>3. net' = Append(net, g) /\ dbq' = D
  BY <1>0 DEF SendEntry, e
<1>4. a \in Frame /\ a.at = "sync" /\ a.rest = S
  BY DEF Frame, NetAwaits, Chains
<1>. HIDE DEF a
<1>5. g \in Frame /\ g.item = e.item /\ g.at = a.at /\ g.rest = a.rest
  BY <1>0, <1>1, <1>2, <1>4, SendingIsFrame
<1>6. g \in NetFrames
  BY <1>1, <1>4, <1>5 DEF NetFrames, NetFrame, NetAwaits
<1>7. e.item < next /\ \A o \in g.rest : o.item < next
  BY <1>1, <1>4, <1>5
<1>8. g \in OfNet
  BY <1>0, <1>1, <1>2, <1>4, <1>6, <1>7, SendingIsFaithful
<1>9. <<>> \in Seq(OfNet')
  BY EmptySeq
<1>. QED  BY <1>3, <1>8, <1>9, AppendProperties

-----------------------------------------------------------------------------
(* The initial states promise nothing yet.                                 *)
LEMMA InitDelivery == Init => Delivery
<1>. SUFFICES ASSUME Init PROVE Delivery
  OBVIOUS
<1>1. PICK k \in 0 .. MaxItems - 1 : acc = 1 .. k /\ boot = (k > 0) /\ next = k + 1
                                     /\ (k > 0 => Persist)
  BY DEF Init
<1>2. k \in Nat /\ next - 1 = k
  BY <1>1, BoundsAssumption
<1>3. /\ <<>> \in Seq(OfDb) /\ <<>> \in Seq(OfNet) /\ <<>> \in Seq(1 .. next - 1)
  BY EmptySeq
<1>4. ASSUME NEW n \in 1 .. next - 1
      PROVE  boot
  <2>1. k > 0
    BY <1>2
  <2>. QED  BY <1>1, <2>1
<1>5. ~Persist => InMemory
  BY <1>1 DEF Init, InMemory
<1>. QED  BY <1>1, <1>2, <1>3, <1>4, <1>5 DEF Init, Delivery

(* A step that touches nothing an answer is kept in.                       *)
LEMMA DeliveryStands ==
  ASSUME Delivery,
         UNCHANGED <<queue, known, acc, next, boot, syncing, ended, idb, dbq, srv, stale>>,
         net' = net \/ net' \in Seq(OfNet),
         ~Persist => (finished' => finished)
  PROVE  Delivery'
<1>1. OfNet' = OfNet
  BY DEF OfNet, Faithful, Kept, Delivered, Adding, Accepted
<1>2. OfDb' = OfDb
  BY DEF OfDb, FaithfulDb, Delivered
<1>3. \A n : Kept(n)' <=> Kept(n)
  BY DEF Kept, Delivered, Adding
<1>4. ~Persist => InMemory'
  BY DEF Delivery, InMemory, Delivered
<1>. QED  BY <1>1, <1>2, <1>3, <1>4 DEF Delivery

LEMMA DisplayCreatedDelivery ==
  ASSUME Delivery, DisplayCreated
  PROVE  Delivery'
BY DeliveryStands DEF DisplayCreated, locks, ui, remote

LEMMA GoOfflineDelivery ==
  ASSUME Delivery, GoOffline
  PROVE  Delivery'
<1>1. ~Persist => (finished' => finished)
  BY DEF GoOffline, OfflineFinish
<1>. QED  BY <1>1, DeliveryStands DEF GoOffline, local, locks, remote

(* The effect of survey.tsx asks for a count, with persistence.            *)
LEMMA RunEffectKeeps ==
  ASSUME IInv, IInv', Delivery, NEW i \in Insts, RunEffect(i),
         UNCHANGED <<queue, known, acc, next, boot, syncing, ended, finished,
                     idb, net, srv, stale>>
  PROVE  Delivery'
<1>. DEFINE g == [Await("pcount", i) EXCEPT !.eff = TRUE]
<1>1. g \in DbFrames /\ g.at = "pcount" /\ g.item = 0 /\ g.rest = {}
  <2>1. g.item = 0 /\ g.rest = {}
    BY DEF Await
  <2>. QED  BY <2>1, AwaitIsDbFrame DEF DbAwaits
<1>2. dbq' = dbq \/ (Persist /\ dbq' = Append(dbq, g))
  BY DEF RunEffect
<1>3. next \in Nat \ {0}
  BY BoundsAssumption DEF IInv, TypeInv, StateTyped
<1>. HIDE DEF g
<1>4. g \in OfDb /\ dbq \in Seq(OfDb)
  BY <1>1, <1>3 DEF OfDb, FaithfulDb, Delivery
<1>5. \A n : Adding(n, dbq) => Adding(n, dbq')
  BY <1>2, <1>4, AddingAppend
<1>6. dbq' \in Seq(OfDb)
  BY <1>2, <1>4, AppendProperties
<1>7. \A n : Delivered(n)' <=> Delivered(n)
  BY DEF Delivered
<1>8. /\ \A n : Kept(n) => Kept(n)'
      /\ OfNet \subseteq OfNet' /\ OfDb \subseteq OfDb'
  BY <1>3, <1>5, <1>7, Carried
<1>9. net' \in Seq(OfNet') /\ dbq' \in Seq(OfDb')
  BY <1>6, <1>8, SeqMonotonic DEF Delivery
<1>10. ~Persist => InMemory'
  BY <1>2, <1>7 DEF Delivery, InMemory
<1>. QED  BY <1>8, <1>9, <1>10 DEF Delivery

LEMMA GoOnlineDelivery ==
  ASSUME IInv, IInv', Delivery, GoOnline
  PROVE  Delivery'
BY RunEffectKeeps DEF GoOnline, local, locks, ui, remote, IInv, TypeInv, StateTyped

LEMMA RecreateDelivery ==
  ASSUME IInv, IInv', Delivery, Recreate
  PROVE  Delivery'
<1>1. cur' \in Insts
  BY DEF IInv, TypeInv, StateTyped
<1>. QED  BY <1>1, RunEffectKeeps DEF Recreate, locks, ui, remote

LEMMA UserRetryDelivery ==
  ASSUME IInv, IInv', Delivery, UserRetry
  PROVE  Delivery'
<1>1. /\ rid' \in RespIds /\ next \in Nat /\ next' = next /\ StateTyped
      /\ cur \in Insts /\ busy \in BOOLEAN /\ queue \in [Insts -> Seq(Items)]
      /\ dbq \in Seq(DbFrames) /\ net \in Seq(NetFrames)
  BY DEF UserRetry, IInv, TypeInv, StateTyped
<1>2. ProcessQueue(cur, queue, busy, syncing, dbq, net, TRUE)
  BY DEF UserRetry
<1>3. UNCHANGED <<queue, known, acc, next, boot, syncing, ended, finished, idb, srv, stale>>
  BY DEF UserRetry, ui, remote
<1>4. (\A n : Adding(n, dbq) => Adding(n, dbq')) /\ (~Persist => dbq' = dbq)
  BY <1>1, <1>2, ProcessQueueAdds
<1>5. \A n : Delivered(n)' <=> Delivered(n)
  BY <1>3 DEF Delivered
<1>6. /\ \A n : Kept(n) => Kept(n)'
      /\ OfNet \subseteq OfNet' /\ OfDb \subseteq OfDb'
  BY <1>1, <1>3, <1>4, <1>5, Carried
<1>7. dbq \in Seq(OfDb') /\ net \in Seq(OfNet')
  BY <1>6, SeqMonotonic DEF Delivery
<1>8. net' \in Seq(OfNet') /\ dbq' \in Seq(OfDb')
  BY <1>1, <1>2, <1>3, <1>7, ProcessQueueKeeps DEF Delivery, InMemory
<1>9. ~Persist => InMemory'
  BY <1>3, <1>4, <1>5 DEF Delivery, InMemory
<1>. QED  BY <1>3, <1>6, <1>8, <1>9 DEF Delivery

LEMMA ToSetAppend ==
  ASSUME NEW S, NEW s \in Seq(S), NEW e \in S
  PROVE  ToSet(s) \subseteq ToSet(Append(s, e)) /\ e \in ToSet(Append(s, e))
<1>1. DOMAIN s = 1 .. Len(s) /\ Len(s) \in Nat
  BY LenProperties
<1>2. DOMAIN Append(s, e) = 1 .. Len(s) + 1
  BY AppendProperties, LenProperties
<1>3. Append(s, e)[Len(s) + 1] = e /\ \A k \in 1 .. Len(s) : Append(s, e)[k] = s[k]
  BY <1>1, AppendProperties
<1>4. Len(s) + 1 \in DOMAIN Append(s, e) /\ DOMAIN s \subseteq DOMAIN Append(s, e)
  BY <1>1, <1>2
<1>. QED  BY <1>1, <1>3, <1>4 DEF ToSet

LEMMA ToSetTail ==
  ASSUME NEW S, NEW s \in Seq(S), s # <<>>, NEW n \in ToSet(s)
  PROVE  n = Head(s) \/ n \in ToSet(Tail(s))
<1>1. DOMAIN s = 1 .. Len(s) /\ Len(s) \in Nat \ {0} /\ Head(s) = s[1]
  BY LenProperties, EmptySeq
<1>2. DOMAIN Tail(s) = 1 .. Len(s) - 1 /\ \A k \in 1 .. Len(s) - 1 : Tail(s)[k] = s[k + 1]
  BY HeadTailProperties, LenProperties
<1>3. PICK k \in 1 .. Len(s) : n = s[k]
  BY <1>1 DEF ToSet
<1>4. CASE k # 1
  <2>1. k - 1 \in 1 .. Len(s) - 1 /\ (k - 1) + 1 = k
    BY <1>1, <1>4
  <2>. QED  BY <1>2, <1>3, <2>1 DEF ToSet
<1>. QED  BY <1>1, <1>3, <1>4

(* A new answer joins the queue and, with persistence, the writes to       *)
(* IndexedDB.                                                              *)
LEMMA SubmitDelivery ==
  ASSUME IInv, IInv', Delivery, Submit
  PROVE  Delivery'
<1>0. PICK x : x = next
  OBVIOUS
<1>1. /\ next \in Items /\ next \in Nat /\ next' = next + 1 /\ next' \in Nat
      /\ acc' = 1 .. next' - 1
      /\ cur \in Insts /\ queue \in [Insts -> Seq(Items)] /\ queue' \in [Insts -> Seq(Items)]
  <2>1. next \in Items /\ next' = next + 1 /\ next \in Nat \ {0}
    BY BoundsAssumption DEF Submit, IInv, TypeInv, StateTyped, Items
  <2>2. acc' = 1 .. next' - 1
    BY <2>1 DEF Submit, Delivery
  <2>. QED  BY <2>1, <2>2 DEF IInv, TypeInv, StateTyped
<1>2. /\ \A i \in Insts : queue'[i] \in Seq(1 .. next' - 1) /\ ToSet(queue[i]) \subseteq ToSet(queue'[i])
      /\ next \in ToSet(queue'[cur])
  <2>1. 1 .. next - 1 \subseteq 1 .. next' - 1 /\ next \in 1 .. next' - 1
    BY <1>1 DEF Items
  <2>2. \A i \in Insts : queue[i] \in Seq(1 .. next' - 1)
    BY <2>1, SeqMonotonic DEF Delivery
  <2>3. queue' = [queue EXCEPT ![cur] = Append(queue[cur], next)]
    BY DEF Submit
  <2>4. /\ Append(queue[cur], next) \in Seq(1 .. next' - 1)
        /\ ToSet(queue[cur]) \subseteq ToSet(Append(queue[cur], next))
        /\ next \in ToSet(Append(queue[cur], next))
    BY <1>1, <2>1, <2>2, AppendProperties, ToSetAppend
  <2>. QED  BY <1>1, <2>2, <2>3, <2>4
<1>3. UNCHANGED <<known, boot, syncing, ended, idb, srv, stale>>
  BY DEF Submit, remote
<1>4. \A n : Delivered(n)' <=> Delivered(n)
  BY <1>3 DEF Delivered
<1>5. \A n \in 1 .. next' - 1 : n \in 1 .. next - 1 \/ n = x
  BY <1>0, <1>1
<1>6. (\A e \in idb : e.item < next) /\ \A e \in idb : e.item \in Nat
  BY DEF Delivery, IInv, TypeInv, Chains, Entry, Items
<1>7. CASE Persist
  <2>0. PICK g : g = [Await("add", cur) EXCEPT !.item = next, !.rid = rid, !.disp = disp]
    OBVIOUS
  <2>1. g \in Frame /\ g.rest = {} /\ g.at = "add" /\ g.item = next
    <3>1. /\ Await("add", cur) \in Frame /\ Await("add", cur).rest = {}
          /\ Await("add", cur).at = "add"
      BY <1>1, AwaitIsFrame DEF DbAwaits, Await
    <3>2. rid \in RespIds /\ disp \in {0, Display}
      BY DEF IInv, TypeInv, StateTyped
    <3>. QED  BY <1>1, <2>0, <3>1, <3>2 DEF Frame
  <2>2. dbq' = Append(dbq, g) /\ net' = net
    BY <1>7, <2>0 DEF Submit
  <2>3. g \in DbFrames /\ FaithfulDb(g)'
    <3>1. g \in DbFrames
      BY <1>1, <2>1, ChainEmpty DEF DbFrames, DbFrame, DbAwaits
    <3>2. FaithfulDb(g)'
      BY <1>0, <1>1, <2>1 DEF FaithfulDb
    <3>. QED  BY <3>1, <3>2
  <2>4. (\A n : Adding(n, dbq) => Adding(n, dbq')) /\ Adding(next, dbq')
    BY <2>1, <2>2, <2>3, AddingAppend DEF IInv, TypeInv
  <2>5. Kept(x)'
    BY <2>4, <1>0 DEF Kept
  <2>6. /\ \A n : Kept(n) => Kept(n)'
        /\ OfNet \subseteq OfNet' /\ OfDb \subseteq OfDb'
    BY <1>1, <1>3, <1>4, <1>5, <1>7, <2>4, <2>5, Carried
  <2>7. dbq' \in Seq(OfDb') /\ net' \in Seq(OfNet')
    <3>1. dbq \in Seq(OfDb') /\ net \in Seq(OfNet')
      BY <2>6, SeqMonotonic DEF Delivery
    <3>2. g \in OfDb'
      BY <2>3 DEF OfDb
    <3>. QED  BY <2>2, <3>1, <3>2, AppendProperties
  <2>. QED  BY <1>1, <1>2, <1>3, <1>5, <1>6, <1>7, <2>5, <2>6, <2>7 DEF Delivery
<1>8. CASE ~Persist
  <2>1. /\ ProcessQueue(cur, queue', busy, syncing, dbq, net, FALSE) /\ rid' = rid
        /\ ~boot /\ ~boot' /\ rid' \in RespIds /\ busy \in BOOLEAN /\ StateTyped
        /\ dbq \in Seq(DbFrames)
    <3>1. ProcessQueue(cur, queue', busy, syncing, dbq, net, FALSE) /\ rid' = rid
      BY <1>8 DEF Submit
    <3>2. ~boot /\ ~boot'
      BY <1>3, <1>8 DEF Delivery, InMemory
    <3>3. rid \in RespIds /\ busy \in BOOLEAN /\ StateTyped /\ dbq \in Seq(DbFrames)
      BY DEF IInv, TypeInv, StateTyped
    <3>. QED  BY <3>1, <3>2, <3>3
  <2>2. (\A n : Adding(n, dbq) => Adding(n, dbq')) /\ dbq' = dbq
    BY <1>1, <1>8, <2>1, ProcessQueueAdds
  <2>3. Kept(x)'
    BY <1>0, <1>1, <1>2, <1>8 DEF Kept
  <2>4. /\ \A n : Kept(n) => Kept(n)'
        /\ OfNet \subseteq OfNet' /\ OfDb \subseteq OfDb'
    BY <1>1, <1>2, <1>3, <1>4, <1>5, <2>2, <2>3, Carried
  <2>5. dbq \in Seq(OfDb') /\ net \in Seq(OfNet')
    BY <2>4, SeqMonotonic DEF Delivery
  <2>6. net' \in Seq(OfNet') /\ dbq' \in Seq(OfDb')
    BY <1>1, <1>2, <2>1, <2>5, ProcessQueueKeeps
  <2>7. InMemory'
    <3>1. finished' => finished
      BY <1>8 DEF Submit, OfflineFinish
    <3>. QED  BY <1>3, <1>4, <1>8, <2>2, <3>1 DEF Delivery, InMemory
  <2>. QED  BY <1>1, <1>2, <1>3, <1>5, <1>6, <2>3, <2>4, <2>6, <2>7 DEF Delivery
<1>. QED  BY <1>7, <1>8

-----------------------------------------------------------------------------
(* What the actions that resume the oldest IndexedDB request know: there   *)
(* is persistence, the request succeeds, and its promise holds.            *)
LEMMA DeliveryHead ==
  ASSUME IInv, Delivery, Persist => ~DbFaults, dbq # <<>>
  PROVE  /\ Persist /\ DbOutcomes = {"done"}
         /\ Head(dbq) \in OfDb /\ FaithfulDb(Head(dbq))
         /\ Tail(dbq) \in Seq(OfDb) /\ Tail(dbq) \in Seq(DbFrames)
         /\ \A n : Adding(n, dbq) =>
              Adding(n, Tail(dbq)) \/ (Head(dbq).at = "add" /\ Head(dbq).item = n)
         /\ next \in Nat /\ queue \in [Insts -> Seq(Items)] /\ net \in Seq(NetFrames)
<1>1. Persist /\ DbOutcomes = {"done"}
  BY ModeAssumption DEF Delivery, InMemory, DbOutcomes
<1>2. dbq \in Seq(OfDb) /\ dbq \in Seq(DbFrames)
  BY DEF Delivery, IInv, TypeInv
<1>3. Head(dbq) \in OfDb /\ Tail(dbq) \in Seq(OfDb) /\ Tail(dbq) \in Seq(DbFrames)
  BY <1>2, HeadTailProperties
<1>4. \A n : Adding(n, dbq) =>
        Adding(n, Tail(dbq)) \/ (Head(dbq).at = "add" /\ Head(dbq).item = n)
  BY <1>2, AddingTail
<1>. QED  BY <1>1, <1>3, <1>4, BoundsAssumption DEF OfDb, IInv, TypeInv, StateTyped

(* ... and the frame of a step that writes nothing to the store.           *)
LEMMA DbStepKeeps ==
  ASSUME IInv, IInv', Delivery, Persist,
         UNCHANGED <<queue, acc, next, boot, idb, srv, stale>>,
         \A n : Adding(n, dbq) => Adding(n, dbq')
  PROVE  /\ \A n : Kept(n) => Kept(n)'
         /\ OfNet \subseteq OfNet' /\ OfDb \subseteq OfDb'
         /\ net' \in Seq(OfNet') /\ dbq' \in Seq(OfDb') => Delivery'
<1>1. \A n : Delivered(n)' <=> Delivered(n)
  BY DEF Delivered
<1>2. next \in Nat
  BY BoundsAssumption DEF IInv, TypeInv, StateTyped
<1>3. /\ \A n : Kept(n) => Kept(n)'
      /\ OfNet \subseteq OfNet' /\ OfDb \subseteq OfDb'
  BY <1>1, <1>2, Carried
<1>. QED  BY <1>3 DEF Delivery

LEMMA AddDoneDelivery ==
  ASSUME IInv, IInv', Delivery, Persist => ~DbFaults, AddDone
  PROVE  Delivery'
<1>0. PICK f : f = Head(dbq)
  OBVIOUS
<1>. DEFINE e == [item |-> f.item, rid |-> f.rid, disp |-> f.disp]
<1>1. dbq # <<>> /\ f.at = "add"
  BY <1>0 DEF AddDone, DbAnswers
<1>2. /\ Persist /\ DbOutcomes = {"done"}
      /\ Tail(dbq) \in Seq(OfDb) /\ Tail(dbq) \in Seq(DbFrames)
      /\ \A n : Adding(n, dbq) => Adding(n, Tail(dbq)) \/ f.item = n
      /\ next \in Nat /\ queue \in [Insts -> Seq(Items)] /\ net \in Seq(NetFrames)
  BY <1>0, <1>1, DeliveryHead
<1>3. f \in DbFrames /\ FaithfulDb(f)
  BY <1>0, <1>1, DeliveryHead DEF OfDb
<1>4. f.inst \in Insts /\ f.item < next
  BY <1>3 DEF DbFrames, DbFrame, Frame, FaithfulDb
<1>5. /\ idb' = idb \cup {e} /\ rid' = rid
      /\ ProcessQueue(f.inst, queue, busy, syncing, Tail(dbq), net, FALSE)
      /\ UNCHANGED <<queue, acc, next, boot, srv, stale>>
  BY <1>0, <1>2 DEF AddDone
<1>6. \A n : Adding(n, Tail(dbq)) => Adding(n, dbq')
  BY <1>2, <1>4, <1>5, ProcessQueueAdds
<1>7. e \in idb' /\ e.item = f.item
  BY <1>5
<1>8. \A n : Delivered(n)' <=> Delivered(n)
  BY <1>5 DEF Delivered
<1>. HIDE DEF e
<1>9. /\ \A n : Kept(n) => Kept(n)'
      /\ OfNet \subseteq OfNet' /\ OfDb \subseteq OfDb'
  BY <1>2, <1>5, <1>6, <1>7, <1>8, Carried
<1>10. Tail(dbq) \in Seq(OfDb') /\ net \in Seq(OfNet')
  BY <1>2, <1>9, SeqMonotonic DEF Delivery
<1>11. net' \in Seq(OfNet') /\ dbq' \in Seq(OfDb')
  <2>1. StateTyped /\ rid' \in RespIds /\ busy \in BOOLEAN
    BY <1>5 DEF IInv, TypeInv, StateTyped
  <2>2. \A j \in Insts : queue[j] \in Seq(1 .. next' - 1)
    BY <1>5 DEF Delivery
  <2>. QED  BY <1>2, <1>4, <1>5, <1>10, <2>1, <2>2, ProcessQueueKeeps
<1>12. \A o \in idb' : o.item < next
  BY <1>4, <1>5, <1>7 DEF Delivery
<1>. QED  BY <1>2, <1>5, <1>9, <1>11, <1>12 DEF Delivery

LEMMA CountDoneDelivery ==
  ASSUME IInv, IInv', Delivery, Persist => ~DbFaults, CountDone
  PROVE  Delivery'
<1>0. PICK f, a, g : /\ f = Head(dbq) /\ a = [Await("pq", f.inst) EXCEPT !.user = f.user]
                     /\ g = Sending(a, Head(queue[f.inst]), rid, disp)
  OBVIOUS
<1>1. dbq # <<>> /\ f.at = "count"
  BY <1>0 DEF CountDone, DbAnswers
<1>2. /\ Persist /\ Tail(dbq) \in Seq(OfDb) /\ Tail(dbq) \in Seq(DbFrames)
      /\ \A n : Adding(n, dbq) => Adding(n, Tail(dbq))
      /\ next \in Nat /\ queue \in [Insts -> Seq(Items)] /\ net \in Seq(NetFrames)
  BY <1>0, <1>1, DeliveryHead
<1>3. f \in Frame /\ f.inst \in Insts /\ f.user \in BOOLEAN
  BY <1>0, <1>1, DbHead
<1>4. \/ dbq' = Tail(dbq) /\ net' = net
      \/ StartSync(f.inst, Tail(dbq), FALSE) /\ net' = net
      \/ /\ ~ Overtaken(f.inst)
         /\ net' = Append(net, g) /\ dbq' = Tail(dbq)
  BY <1>0 DEF CountDone
<1>5. UNCHANGED <<queue, acc, next, boot, idb, srv, stale>>
  BY DEF CountDone, local, remote
<1>. DEFINE c == [Await("get", f.inst) EXCEPT !.eff = FALSE]
<1>6. dbq' = Tail(dbq) \/ dbq' = Append(Tail(dbq), c)
  BY <1>4 DEF StartSync
<1>7. c \in DbFrames /\ c.item = 0 /\ c.rest = {} /\ c.at = "get"
  <2>1. c.item = 0 /\ c.rest = {}
    BY DEF Await
  <2>. QED  BY <1>3, <2>1, AwaitIsDbFrame DEF DbAwaits
<1>. HIDE DEF c
<1>8. 0 < next
  BY BoundsAssumption DEF IInv, TypeInv, StateTyped
<1>9. c \in OfDb
  BY <1>7, <1>8 DEF OfDb, FaithfulDb
<1>10. dbq' \in Seq(OfDb) /\ \A n : Adding(n, dbq) => Adding(n, dbq')
  <2>0. Tail(dbq) \in Seq(OfDb)
    BY <1>2
  <2>1. dbq' \in Seq(OfDb)
    BY <1>6, <1>9, <2>0, AppendProperties
  <2>2. \A n : Adding(n, Tail(dbq)) => Adding(n, Append(Tail(dbq), c))
    BY <1>2, <1>7, AddingAppend
  <2>. QED  BY <1>2, <1>6, <2>1, <2>2
<1>11. net' \in Seq(OfNet)
  <2>1. CASE net' = net
    BY <2>1 DEF Delivery
  <2>2. CASE ~ Overtaken(f.inst) /\ net' = Append(net, g)
    <3>1. queue[f.inst] # <<>>
      BY <2>2 DEF Overtaken
    <3>2. queue[f.inst] \in Seq(1 .. next - 1) /\ queue[f.inst] \in Seq(Items)
      BY <1>2, <1>3 DEF Delivery
    <3>3. Head(queue[f.inst]) \in Items /\ Head(queue[f.inst]) < next
      BY <1>2, <3>1, <3>2, HeadTailProperties
    <3>4. a \in Frame /\ a.rest = {} /\ a.at = "pq"
      <4>1. Await("pq", f.inst) \in Frame /\ Await("pq", f.inst).rest = {}
        BY <1>3, AwaitIsFrame DEF NetAwaits
      <4>2. Await("pq", f.inst).at = "pq"
        BY DEF Await
      <4>. QED  BY <1>0, <1>3, <4>1, <4>2 DEF Frame
    <3>5. rid \in RespIds /\ disp \in {0, Display} /\ acc \subseteq Items
      BY DEF IInv, TypeInv, StateTyped
    <3>0. g = Sending(a, Head(queue[f.inst]), rid, disp)
      BY <1>0
    <3>6. g \in Frame /\ g.item = Head(queue[f.inst]) /\ g.at = a.at /\ g.rest = a.rest
      BY <3>0, <3>3, <3>4, <3>5, SendingIsFrame
    <3>7. g \in NetFrames
      BY <3>3, <3>4, <3>6, ChainEmpty DEF NetFrames, NetFrame, NetAwaits
    <3>8. \A o \in g.rest : o.item < next
      BY <3>4, <3>6
    <3>9. g \in OfNet
      BY <3>0, <3>3, <3>4, <3>5, <3>7, <3>8, SendingIsFaithful
    <3>10. net \in Seq(OfNet)
      BY DEF Delivery
    <3>. QED  BY <2>2, <3>9, <3>10, AppendProperties
  <2>. QED  BY <1>4, <2>1, <2>2
<1>12. OfNet \subseteq OfNet' /\ OfDb \subseteq OfDb'
       /\ (net' \in Seq(OfNet') /\ dbq' \in Seq(OfDb') => Delivery')
  BY <1>2, <1>5, <1>10, DbStepKeeps
<1>. QED  BY <1>10, <1>11, <1>12, SeqMonotonic

LEMMA PendingCountDoneDelivery ==
  ASSUME IInv, IInv', Delivery, Persist => ~DbFaults, PendingCountDone
  PROVE  Delivery'
<1>0. PICK f : f = Head(dbq)
  OBVIOUS
<1>1. dbq # <<>> /\ f.at = "pcount"
  BY <1>0 DEF PendingCountDone, DbAnswers
<1>2. /\ Persist /\ Tail(dbq) \in Seq(OfDb) /\ Tail(dbq) \in Seq(DbFrames)
      /\ \A n : Adding(n, dbq) => Adding(n, Tail(dbq))
  BY <1>0, <1>1, DeliveryHead
<1>3. f.inst \in Insts
  BY <1>0, <1>1, DbHead
<1>4. UNCHANGED <<queue, acc, next, boot, idb, srv, stale>> /\ net' = net
  BY DEF PendingCountDone, local, remote
<1>. DEFINE c == [Await("get", f.inst) EXCEPT !.eff = TRUE]
<1>5. dbq' = Tail(dbq) \/ dbq' = Append(Tail(dbq), c)
  BY <1>0 DEF PendingCountDone, StartSync
<1>6. c \in DbFrames /\ c.item = 0 /\ c.rest = {} /\ c.at = "get"
  <2>1. c.item = 0 /\ c.rest = {}
    BY DEF Await
  <2>. QED  BY <1>3, <2>1, AwaitIsDbFrame DEF DbAwaits
<1>. HIDE DEF c
<1>7. 0 < next
  BY BoundsAssumption DEF IInv, TypeInv, StateTyped
<1>8. c \in OfDb
  BY <1>6, <1>7 DEF OfDb, FaithfulDb
<1>9. dbq' \in Seq(OfDb) /\ \A n : Adding(n, dbq) => Adding(n, dbq')
  <2>0. Tail(dbq) \in Seq(OfDb)
    BY <1>2
  <2>1. dbq' \in Seq(OfDb)
    BY <1>5, <1>8, <2>0, AppendProperties
  <2>2. \A n : Adding(n, Tail(dbq)) => Adding(n, Append(Tail(dbq), c))
    BY <1>2, <1>6, AddingAppend
  <2>. QED  BY <1>2, <1>5, <2>1, <2>2
<1>10. OfNet \subseteq OfNet' /\ OfDb \subseteq OfDb'
       /\ (net' \in Seq(OfNet') /\ dbq' \in Seq(OfDb') => Delivery')
  BY <1>2, <1>4, <1>9, DbStepKeeps
<1>11. net' \in Seq(OfNet)
  BY <1>4 DEF Delivery
<1>. QED  BY <1>9, <1>10, <1>11, SeqMonotonic

(* An entry that leaves IndexedDB is one whose answer was stored ...       *)
LEMMA RemoveDoneDelivery ==
  ASSUME IInv, IInv', Delivery, Persist => ~DbFaults, RemoveDone
  PROVE  Delivery'
<1>0. PICK f : f = Head(dbq)
  OBVIOUS
<1>1. dbq # <<>> /\ f.at = "del"
  BY <1>0 DEF RemoveDone, DbAnswers
<1>2. /\ Persist /\ DbOutcomes = {"done"} /\ FaithfulDb(f)
      /\ Tail(dbq) \in Seq(OfDb)
      /\ \A n : Adding(n, dbq) => Adding(n, Tail(dbq))
      /\ next \in Nat
  BY <1>0, <1>1, DeliveryHead
<1>3. /\ idb' = Without(f.item) /\ dbq' = Tail(dbq)
      /\ UNCHANGED <<queue, acc, next, boot, net, srv, stale>>
  BY <1>0, <1>2 DEF RemoveDone, local
<1>4. \A n : Delivered(n)' <=> Delivered(n)
  BY <1>3 DEF Delivered
<1>5. Delivered(f.item)
  BY <1>1, <1>2 DEF FaithfulDb
<1>6. \A e \in idb : e \in idb' \/ Delivered(e.item)'
  BY <1>3, <1>4, <1>5 DEF Without
<1>7. /\ \A n : Kept(n) => Kept(n)'
      /\ OfNet \subseteq OfNet' /\ OfDb \subseteq OfDb'
  BY <1>2, <1>3, <1>4, <1>6, Carried
<1>8. net' \in Seq(OfNet') /\ dbq' \in Seq(OfDb')
  <2>1. net' \in Seq(OfNet) /\ dbq' \in Seq(OfDb)
    BY <1>2, <1>3 DEF Delivery
  <2>. QED  BY <1>7, <2>1, SeqMonotonic
<1>9. \A e \in idb' : e.item < next
  BY <1>3 DEF Delivery, Without
<1>. QED  BY <1>2, <1>3, <1>7, <1>8, <1>9 DEF Delivery

LEMMA GetDoneDelivery ==
  ASSUME IInv, IInv', Delivery, Persist => ~DbFaults, GetDone
  PROVE  Delivery'
<1>0. PICK f : f = Head(dbq)
  OBVIOUS
<1>1. dbq # <<>> /\ f.at = "get"
  BY <1>0 DEF GetDone, DbAnswers
<1>2. /\ Persist /\ Tail(dbq) \in Seq(OfDb)
      /\ \A n : Adding(n, dbq) => Adding(n, Tail(dbq))
      /\ queue \in [Insts -> Seq(Items)]
  BY <1>0, <1>1, DeliveryHead
<1>3. f \in Frame /\ f.inst \in Insts /\ net = <<>>
  BY <1>0, <1>1, DbHead DEF InSync
<1>. DEFINE a == [f EXCEPT !.len = Len(queue[f.inst])]
<1>4. \/ idb # {} /\ SendEntry(a, idb, Tail(dbq))
      \/ dbq' = Tail(dbq) /\ UNCHANGED <<queue, net>>
  BY <1>0 DEF GetDone
<1>5. a \in Frame
  <2>1. Len(queue[f.inst]) \in Nat
    BY <1>2, <1>3, LenProperties
  <2>. QED  BY <1>3, <2>1 DEF Frame
<1>. HIDE DEF a
<1>6. dbq' = Tail(dbq) /\ UNCHANGED <<queue, acc, next, boot, idb, srv, stale>>
  BY <1>4 DEF GetDone, SendEntry, remote
<1>7. /\ OfNet \subseteq OfNet' /\ OfDb \subseteq OfDb'
      /\ net' \in Seq(OfNet') /\ dbq' \in Seq(OfDb') => Delivery'
  BY <1>2, <1>6, DbStepKeeps
<1>8. net' \in Seq(OfNet')
  <2>1. CASE idb # {} /\ SendEntry(a, idb, Tail(dbq))
    <3>1. idb \in Chains /\ \A e \in idb : e.item < next
      BY DEF IInv, TypeInv, Delivery
    <3>. QED  BY <1>3, <1>5, <1>7, <2>1, <3>1, SendEntryKeeps
  <2>2. CASE net' = net
    BY <1>3, <2>2, EmptySeq
  <2>. QED  BY <1>4, <2>1, <2>2
<1>9. dbq' \in Seq(OfDb')
  BY <1>2, <1>6, <1>7, SeqMonotonic
<1>. QED  BY <1>7, <1>8, <1>9

LEMMA CutIsSeq ==
  ASSUME NEW S, NEW s \in Seq(S), NEW m \in Nat
  PROVE  SubSeq(s, m + 1, Len(s)) \in Seq(S)
<1>1. /\ Len(s) \in Int /\ m + 1 \in Int
      /\ \A j \in m + 1 .. Len(s) : s[j] \in S
  BY LenProperties, ElementOfSeq
<1>. QED  BY <1>1, SubSeqProperties

(* ... or refused; and what a completed sync cuts off the in-memory queue  *)
(* is kept elsewhere.                                                      *)
LEMMA SyncRemoveDoneDelivery ==
  ASSUME IInv, IInv', Delivery, Persist => ~DbFaults, SyncRemoveDone
  PROVE  Delivery'
<1>0. PICK f, S : f = Head(dbq) /\ S = {e \in f.rest : e.item # f.item}
  OBVIOUS
<1>1. dbq # <<>> /\ f.at = "syncdel"
  BY <1>0 DEF SyncRemoveDone, DbAnswers
<1>2. /\ Persist /\ DbOutcomes = {"done"} /\ FaithfulDb(f)
      /\ Tail(dbq) \in Seq(OfDb) /\ Tail(dbq) \in Seq(DbFrames)
      /\ \A n : Adding(n, dbq) => Adding(n, Tail(dbq))
      /\ next \in Nat /\ queue \in [Insts -> Seq(Items)] /\ net \in Seq(NetFrames)
  BY <1>0, <1>1, DeliveryHead
<1>3. /\ f \in Frame /\ f.inst \in Insts /\ f.rest \in Chains /\ net = <<>>
      /\ syncing /\ ~ busy
  BY <1>0, <1>1, DbHead DEF InSync
<1>4. \/ S # {} /\ SendEntry(f, S, Tail(dbq))
      \/ CompleteSync(f, Tail(dbq))
  BY <1>0, <1>2 DEF SyncRemoveDone
<1>5. /\ idb' = Without(f.item)
      /\ UNCHANGED <<acc, next, boot, srv, stale>>
  BY <1>0, <1>2 DEF SyncRemoveDone
<1>6. S \in Chains /\ \A e \in S : e.item < next
  <2>1. S \in SUBSET f.rest
    BY <1>0
  <2>. QED  BY <1>2, <1>3, <2>1, ChainSub DEF FaithfulDb
<1>7. dbq' = Tail(dbq)
      /\ (UNCHANGED <<queue, known>> \/ (CompleteSync(f, Tail(dbq)) /\ net' = net))
  <2>1. CASE SendEntry(f, S, Tail(dbq))
    BY <2>1 DEF SendEntry
  <2>2. CASE CompleteSync(f, Tail(dbq))
    <3>1. StateTyped
      BY DEF IInv, TypeInv
    <3>2. dbq' = Tail(dbq) /\ net' = net
      BY <1>2, <1>3, <2>2, <3>1, CompleteSyncEffect
    <3>. QED  BY <2>2, <3>2
  <2>. QED  BY <1>4, <2>1, <2>2
<1>8. \A n : Delivered(n)' <=> Delivered(n)
  BY <1>5 DEF Delivered
<1>9. Delivered(f.item) \/ f.item \in stale
  BY <1>1, <1>2 DEF FaithfulDb
<1>10. \A e \in idb : e \in idb' \/ Delivered(e.item)' \/ e.item \in stale'
  BY <1>5, <1>8, <1>9 DEF Without
<1>11. /\ \A n : Kept(n) => Kept(n)'
       /\ OfNet \subseteq OfNet' /\ OfDb \subseteq OfDb'
  BY <1>2, <1>5, <1>7, <1>8, <1>10, Carried
<1>12. dbq' \in Seq(OfDb')
  BY <1>2, <1>7, <1>11, SeqMonotonic
<1>13. net' \in Seq(OfNet')
  <2>1. CASE S # {} /\ SendEntry(f, S, Tail(dbq))
    BY <1>3, <1>6, <1>11, <2>1, SendEntryKeeps
  <2>2. CASE CompleteSync(f, Tail(dbq))
    <3>1. net' = <<>>
      BY <1>2, <1>3, <2>2, CompleteSyncEffect DEF IInv, TypeInv
    <3>. QED  BY <3>1, EmptySeq
  <2>. QED  BY <1>4, <2>1, <2>2
<1>14. \A i \in Insts : queue'[i] \in Seq(1 .. next' - 1)
  <2>1. \A i \in Insts : queue[i] \in Seq(1 .. next' - 1)
    BY <1>5 DEF Delivery
  <2>2. CASE UNCHANGED queue
    BY <2>1, <2>2
  <2>3. CASE CompleteSync(f, Tail(dbq))
    <3>. DEFINE s == SubSeq(queue[f.inst], f.len + 1, Len(queue[f.inst]))
    <3>1. s \in Seq(1 .. next' - 1)
      <4>1. queue[f.inst] \in Seq(1 .. next' - 1) /\ f.len \in Nat
        BY <1>3, <2>1 DEF Frame
      <4>. QED  BY <4>1, CutIsSeq
    <3>2. queue' = [queue EXCEPT ![f.inst] = s]
      BY <2>3 DEF CompleteSync
    <3>. HIDE DEF s
    <3>. QED  BY <1>2, <2>1, <3>1, <3>2
  <2>. QED  BY <1>7, <2>2, <2>3
<1>15. \A e \in idb' : e.item < next
  BY <1>5 DEF Delivery, Without
<1>. QED  BY <1>2, <1>5, <1>11, <1>12, <1>13, <1>14, <1>15 DEF Delivery

-----------------------------------------------------------------------------
(* What the actions on the frame of a request know.                        *)
LEMMA DeliveryRequest ==
  ASSUME IInv, Delivery, NEW k \in 1 .. Len(net)
  PROVE  /\ net[k] \in OfNet /\ Faithful(net[k]) /\ RemoveAt(net, k) = <<>>
         /\ next \in Nat
<1>1. net \in Seq(OfNet)
  BY DEF Delivery
<1>2. net[k] \in OfNet
  BY <1>1, ElementOfSeq
<1>3. next \in Nat
  BY BoundsAssumption DEF IInv, TypeInv, StateTyped
<1>. QED  BY <1>2, <1>3, OneRequest DEF OfNet

(* A commit adds to what is stored the answers of the request.             *)
LEMMA CommitStores ==
  ASSUME IInv, NEW f, NEW full \in BOOLEAN,
         CommitCreate(f, full) \/ CommitUpdate(f, full)
  PROVE  /\ \A n : Delivered(n) => Delivered(n)'
         /\ \A n \in f.data : Delivered(n)'
<1>1. /\ srv \in Seq(Response) /\ DOMAIN srv = 1 .. Len(srv) /\ Len(srv) \in Nat
      /\ \A r \in 1 .. Len(srv) : srv[r] \in Response
  BY LenProperties, ElementOfSeq DEF IInv, TypeInv, StateTyped
<1>2. CASE CommitCreate(f, full)
  <2>. DEFINE e == [disp |-> f.disp, got |-> f.data, fin |-> full \/ Finishes(f), gone |-> FALSE]
  <2>1. srv' = Append(srv, e) /\ e.got = f.data
    BY <1>2 DEF CommitCreate
  <2>. HIDE DEF e
  <2>2. /\ DOMAIN Append(srv, e) = 1 .. Len(srv) + 1
        /\ \A r \in 1 .. Len(srv) : Append(srv, e)[r] = srv[r]
        /\ Append(srv, e)[Len(srv) + 1] = e
    BY <1>1
  <2>3. ASSUME NEW n, Delivered(n)
        PROVE  Delivered(n)'
    <3>1. PICK r \in 1 .. Len(srv) : n \in srv[r].got
      BY <1>1, <2>3 DEF Delivered
    <3>2. r \in DOMAIN srv' /\ srv'[r] = srv[r]
      BY <1>1, <2>1, <2>2
    <3>. QED  BY <3>1, <3>2 DEF Delivered
  <2>4. ASSUME NEW n \in f.data
        PROVE  Delivered(n)'
    <3>1. Len(srv) + 1 \in DOMAIN srv' /\ srv'[Len(srv) + 1] = e
      BY <1>1, <2>1, <2>2
    <3>. QED  BY <2>1, <3>1 DEF Delivered
  <2>. QED  BY <2>3, <2>4
<1>3. CASE CommitUpdate(f, full)
  <2>1. /\ f.rid \in 1 .. Len(srv)
        /\ srv' = [srv EXCEPT ![f.rid].got = @ \cup f.data,
                              ![f.rid].fin = full \/ Finishes(f)]
    BY <1>3 DEF CommitUpdate, Stored
  <2>. DEFINE e == [srv[f.rid] EXCEPT !.got = @ \cup f.data, !.fin = full \/ Finishes(f)]
  <2>2. srv' = [srv EXCEPT ![f.rid] = e]
    BY <1>1, <2>1 DEF Response
  <2>3. e.got = srv[f.rid].got \cup f.data
    BY <1>1, <2>1 DEF Response
  <2>. HIDE DEF e
  <2>4. DOMAIN srv' = DOMAIN srv /\ \A r \in DOMAIN srv : srv[r].got \subseteq srv'[r].got
    BY <1>1, <2>1, <2>2, <2>3
  <2>5. f.data \subseteq srv'[f.rid].got /\ f.rid \in DOMAIN srv'
    BY <1>1, <2>1, <2>2, <2>3
  <2>. QED  BY <2>4, <2>5 DEF Delivered
<1>. QED  BY <1>2, <1>3

(* The promises of the calls stand when only the server's responses grow.  *)
LEMMA ServerStepKeeps ==
  ASSUME IInv, IInv', Delivery,
         UNCHANGED <<local, locks, ui, idb, dbq, stale>>,
         \A n : Delivered(n) => Delivered(n)'
  PROVE  /\ OfNet \subseteq OfNet'
         /\ net' \in Seq(OfNet') => Delivery'
<1>1. next \in Nat
  BY BoundsAssumption DEF IInv, TypeInv, StateTyped
<1>2. UNCHANGED <<queue, known, acc, next, boot, syncing, ended, finished, idb, dbq, stale>>
  BY DEF local, locks, ui
<1>3. \A n : Adding(n, dbq)' <=> Adding(n, dbq)
  BY <1>2 DEF Adding
<1>4. /\ \A n : Kept(n) => Kept(n)'
      /\ OfNet \subseteq OfNet' /\ OfDb \subseteq OfDb'
  BY <1>1, <1>2, <1>3, Carried
<1>5. dbq' \in Seq(OfDb')
  BY <1>2, <1>4, SeqMonotonic DEF Delivery
<1>6. ~Persist => InMemory'
  <2>1. Delivered(MaxItems) => Delivered(MaxItems)'
    OBVIOUS
  <2>. QED  BY <1>2, <2>1 DEF Delivery, InMemory
<1>. QED  BY <1>2, <1>4, <1>5, <1>6 DEF Delivery

LEMMA DeleteResponseDelivery ==
  ASSUME IInv, IInv', Delivery, DeleteResponse
  PROVE  Delivery'
<1>1. PICK r \in 1 .. Len(srv) : srv' = [srv EXCEPT ![r].gone = TRUE]
  BY DEF DeleteResponse
<1>2. /\ srv \in Seq(Response) /\ DOMAIN srv = 1 .. Len(srv)
      /\ \A j \in 1 .. Len(srv) : srv[j] \in Response
  BY LenProperties, ElementOfSeq DEF IInv, TypeInv, StateTyped
<1>3. DOMAIN srv' = DOMAIN srv /\ \A j \in DOMAIN srv : srv'[j].got = srv[j].got
  BY <1>1, <1>2 DEF Response
<1>4. \A n : Delivered(n) => Delivered(n)'
  BY <1>3 DEF Delivered
<1>5. UNCHANGED <<local, locks, ui, idb, dbq, net, stale>>
  BY DEF DeleteResponse
<1>6. OfNet \subseteq OfNet' /\ (net' \in Seq(OfNet') => Delivery')
  BY <1>4, <1>5, ServerStepKeeps
<1>. QED  BY <1>5, <1>6, SeqMonotonic DEF Delivery

LEMMA ServerReplyDelivery ==
  ASSUME IInv, IInv', Delivery, NEW k \in 1 .. Len(net), ServerReply(k)
  PROVE  Delivery'
<1>0. PICK f : f = net[k]
  OBVIOUS
<1>1. f \in NetFrames /\ f \in OfNet /\ f \in Frame
  BY <1>0, DeliveryRequest, NetFrameTyped DEF OfNet
<1>2. UNCHANGED <<local, locks, ui, idb, dbq, stale>>
  BY DEF ServerReply
<1>3. \/ srv' = srv
      \/ \E full \in BOOLEAN : CommitCreate(f, full) \/ CommitUpdate(f, full)
  BY <1>0 DEF ServerReply
<1>4. PICK st \in Replies, id \in RespIds :
        /\ net' = ReplaceAt(net, k, [f EXCEPT !.st = st, !.new = id])
        /\ st \in {"ok", "quota"} =>
             \E full \in BOOLEAN : CommitCreate(f, full) \/ CommitUpdate(f, full)
  <2>. DEFINE Reply(st, id) == net' = ReplaceAt(net, k, [f EXCEPT !.st = st, !.new = id])
              Commits == \E full \in BOOLEAN : CommitCreate(f, full) \/ CommitUpdate(f, full)
  <2>1. \/ \E st \in Committed :
             Commits /\ Reply(st, IF f.rid = 0 /\ st \in {"ok", "quota"} THEN Len(srv') ELSE 0)
        \/ \E st \in {"404", "4xx", "recaptcha", "5xx", "neterr"} : Reply(st, 0)
    BY <1>0 DEF ServerReply
  <2>2. 0 \in RespIds /\ Len(srv') \in RespIds
    BY BoundsAssumption, LenProperties DEF RespIds, IInv, TypeInv, StateTyped
  <2>3. Committed \subseteq Replies
    BY DEF Committed, Replies, Refusals
  <2>4. {"404", "4xx", "recaptcha", "5xx", "neterr"} \subseteq Replies \ {"ok", "quota"}
    BY DEF Replies, Refusals
  <2>. HIDE DEF Reply, Commits
  <2>5. \E st \in Replies, id \in RespIds : Reply(st, id) /\ (st \in {"ok", "quota"} => Commits)
    BY <2>1, <2>2, <2>3, <2>4
  <2>. QED  BY <2>5 DEF Reply, Commits
<1>5. /\ \A n : Delivered(n) => Delivered(n)'
      /\ st \in {"ok", "quota"} => \A n \in f.data : Delivered(n)'
  <2>1. srv' = srv => \A n : Delivered(n) => Delivered(n)'
    BY DEF Delivered
  <2>. QED  BY <1>3, <1>4, <2>1, CommitStores
<1>6. OfNet \subseteq OfNet' /\ (net' \in Seq(OfNet') => Delivery')
  BY <1>2, <1>5, ServerStepKeeps
<1>7. PICK g : g = [f EXCEPT !.st = st, !.new = id]
  OBVIOUS
<1>8. /\ g \in Frame /\ g.at = f.at /\ g.item = f.item /\ g.rest = f.rest
      /\ g.data = f.data /\ g.rid = f.rid /\ g.st = st
  BY <1>1, <1>7 DEF Frame
<1>9. g \in NetFrames
  BY <1>1, <1>8 DEF NetFrames, NetFrame
<1>10. f \in OfNet'
  BY <1>1, <1>6
<1>11. Faithful(f)'
  BY <1>10 DEF OfNet
<1>12. Faithful(g)'
  BY <1>5, <1>8, <1>11 DEF Faithful, Accepted
<1>13. g \in OfNet' /\ net \in Seq(OfNet')
  BY <1>6, <1>9, <1>12, SeqMonotonic DEF Delivery, OfNet
<1>14. net' \in Seq(OfNet')
  BY <1>4, <1>7, <1>13, ReplaceAtIsSeq
<1>. QED  BY <1>6, <1>14

LEMMA PqRefusedDelivery ==
  ASSUME IInv, IInv', Delivery, NEW k \in 1 .. Len(net), PqRefused(k)
  PROVE  Delivery'
<1>0. PICK f, g : f = net[k] /\ g = [f EXCEPT !.st = "timer"]
  OBVIOUS
<1>1. f \in OfNet /\ f \in NetFrames /\ f \in Frame /\ Faithful(f) /\ RemoveAt(net, k) = <<>>
  BY <1>0, DeliveryRequest, NetFrameTyped DEF OfNet
<1>2. net' = RemoveAt(net, k) \/ net' = ReplaceAt(net, k, g)
  BY <1>0 DEF PqRefused, GiveUp
<1>3. /\ g \in Frame /\ g.at = f.at /\ g.item = f.item /\ g.rest = f.rest
      /\ g.data = f.data /\ g.rid = f.rid /\ g.st = "timer"
  BY <1>0, <1>1 DEF Frame
<1>4. g \in NetFrames
  BY <1>1, <1>3 DEF NetFrames, NetFrame
<1>5. Faithful(g)
  BY <1>1, <1>3 DEF Faithful, Accepted
<1>6. g \in OfNet /\ net \in Seq(OfNet) /\ <<>> \in Seq(OfNet)
  BY <1>4, <1>5, EmptySeq DEF OfNet, Delivery
<1>7. net' \in Seq(OfNet)
  BY <1>1, <1>2, <1>6, ReplaceAtIsSeq
<1>. QED  BY <1>7, DeliveryStands DEF PqRefused, local, remote

LEMMA BackoffEndsDelivery ==
  ASSUME IInv, IInv', Delivery, NEW k \in 1 .. Len(net), BackoffEnds(k)
  PROVE  Delivery'
<1>0. PICK f, a, g : /\ f = net[k] /\ a = [f EXCEPT !.att = @ + 1]
                     /\ g = Sending(a, f.item, rid, disp)
  OBVIOUS
<1>1. /\ f \in OfNet /\ f \in NetFrames /\ f \in Frame /\ f.item \in Items
      /\ Faithful(f) /\ RemoveAt(net, k) = <<>>
  BY <1>0, DeliveryRequest, NetFrameTyped DEF OfNet
<1>2. a \in Frame /\ a.at = f.at /\ a.item = f.item /\ a.rest = f.rest
  BY <1>0, <1>1 DEF Frame
<1>3. net' = RemoveAt(net, k) \/ net' = ReplaceAt(net, k, g)
  BY <1>0, <1>2 DEF BackoffEnds, GiveUp
<1>4. rid \in RespIds /\ disp \in {0, Display} /\ acc \subseteq Items
  BY DEF IInv, TypeInv, StateTyped
<1>5. g = Sending(a, f.item, rid, disp)
  BY <1>0
<1>6. g \in Frame /\ g.item = f.item /\ g.at = f.at /\ g.rest = f.rest
  BY <1>1, <1>2, <1>4, <1>5, SendingIsFrame
<1>7. g \in NetFrames
  BY <1>1, <1>6 DEF NetFrames, NetFrame
<1>8. f.item < next /\ \A e \in g.rest : e.item < next
  BY <1>1, <1>6 DEF Faithful
<1>9. g \in OfNet
  BY <1>1, <1>2, <1>4, <1>5, <1>7, <1>8, SendingIsFaithful
<1>10. net \in Seq(OfNet) /\ <<>> \in Seq(OfNet)
  BY EmptySeq DEF Delivery
<1>11. net' \in Seq(OfNet)
  BY <1>1, <1>3, <1>9, <1>10, ReplaceAtIsSeq
<1>. QED  BY <1>11, DeliveryStands DEF BackoffEnds, local, remote

(* The adoption of a create's id ends the bootstrap: what the create       *)
(* carried is stored, the rest is kept.                                    *)
LEMMA AdoptKeeps ==
  ASSUME Delivery, NEW f, Faithful(f), Accepted(f), Adopt(f), next' = next,
         \A n : Delivered(n) => Delivered(n)', \A n : Kept(n) => Kept(n)'
  PROVE  \A n \in 1 .. next' - 1 : boot' \/ Kept(n)'
<1>. SUFFICES ASSUME NEW n \in 1 .. next - 1, ~boot'
              PROVE  Kept(n)'
  OBVIOUS
<1>1. CASE boot
  <2>1. f.rid = 0
    BY <1>1 DEF Adopt
  <2>2. n \in f.data \/ Kept(n)
    BY <1>1, <2>1 DEF Faithful
  <2>3. n \in f.data => Kept(n)'
    BY DEF Faithful, Kept
  <2>. QED  BY <2>2, <2>3
<1>2. CASE ~boot
  BY <1>2 DEF Delivery
<1>. QED  BY <1>1, <1>2

LEMMA PqAcceptedDelivery ==
  ASSUME IInv, IInv', Delivery, NEW k \in 1 .. Len(net), PqAccepted(k)
  PROVE  Delivery'
<1>0. PICK f, i, d : /\ f = net[k] /\ i = f.inst
                     /\ d = [Await("del", i) EXCEPT !.item = f.item]
  OBVIOUS
<1>. DEFINE D == IF f.item \in known THEN Append(dbq, d) ELSE dbq
<1>1. /\ f \in OfNet /\ f \in NetFrames /\ f \in Frame /\ f.item \in Items /\ i \in Insts
      /\ Faithful(f) /\ RemoveAt(net, k) = <<>> /\ next \in Nat
  BY <1>0, DeliveryRequest, NetFrameTyped DEF OfNet
<1>2. /\ f.at = "pq" /\ Accepted(f) /\ Adopt(f)
      /\ queue' = [queue EXCEPT ![i] = Shift(@)]
      /\ ProcessQueue(i, queue', FALSE, syncing, D, <<>>, FALSE)
      /\ UNCHANGED <<acc, next, syncing, idb, srv, stale>>
  BY <1>0, <1>1 DEF PqAccepted, remote
<1>3. queue[i] # <<>> /\ Head(queue[i]) = f.item
  <2>1. k \in DOMAIN net
    BY OneRequest
  <2>. QED  BY <1>0, <1>2, <2>1 DEF IInv, Sent
<1>4. \A n : Delivered(n)' <=> Delivered(n)
  BY <1>2 DEF Delivered
<1>5. Delivered(f.item)
  BY <1>1, <1>2 DEF Faithful
<1>6. /\ queue \in [Insts -> Seq(Items)] /\ queue' \in [Insts -> Seq(Items)]
      /\ rid' \in RespIds /\ StateTyped /\ dbq \in Seq(DbFrames)
  BY DEF IInv, TypeInv, StateTyped
<1>7. queue' = [queue EXCEPT ![i] = Tail(queue[i])]
  BY <1>2, <1>3 DEF Shift
<1>8. \A j \in Insts : \A n \in ToSet(queue[j]) : n \in ToSet(queue'[j]) \/ Delivered(n)'
  <2>1. \A n \in ToSet(queue[i]) : n = f.item \/ n \in ToSet(Tail(queue[i]))
    BY <1>1, <1>3, <1>6, ToSetTail
  <2>. QED  BY <1>1, <1>4, <1>5, <1>6, <1>7, <2>1
<1>9. d \in DbFrames /\ d.at = "del" /\ d.item = f.item /\ d.rest = {}
  <2>1. d.item = f.item /\ d.rest = {}
    BY <1>0 DEF Await
  <2>. QED  BY <1>0, <1>1, <2>1, AwaitIsDbFrame DEF DbAwaits
<1>10. d \in OfDb
  BY <1>1, <1>5, <1>9 DEF OfDb, FaithfulDb, Faithful
<1>11. D \in Seq(OfDb) /\ D \in Seq(DbFrames) /\ \A n : Adding(n, dbq) => Adding(n, D)
  <2>0. dbq \in Seq(OfDb)
    BY DEF Delivery
  <2>1. D \in Seq(OfDb)
    BY <1>10, <2>0, AppendProperties
  <2>2. D \in Seq(DbFrames)
    BY <1>6, <1>9, AppendProperties
  <2>3. \A n : Adding(n, dbq) => Adding(n, Append(dbq, d))
    BY <1>6, <1>9, AddingAppend
  <2>. QED  BY <2>1, <2>2, <2>3
<1>12. ~Persist => D = dbq
  BY DEF Delivery, InMemory
<1>. HIDE DEF D
<1>13. (\A n : Adding(n, D) => Adding(n, dbq')) /\ (~Persist => dbq' = D)
  BY <1>1, <1>2, <1>11, ProcessQueueAdds
<1>14. boot' => boot
  BY <1>2 DEF Adopt
<1>15. /\ \A n : Kept(n) => Kept(n)'
       /\ OfNet \subseteq OfNet' /\ OfDb \subseteq OfDb'
  BY <1>1, <1>2, <1>4, <1>8, <1>11, <1>13, <1>14, Carried
<1>16. \A n \in 1 .. next' - 1 : boot' \/ Kept(n)'
  BY <1>1, <1>2, <1>4, <1>15, AdoptKeeps
<1>17. \A j \in Insts : queue'[j] \in Seq(1 .. next' - 1)
  <2>1. \A j \in Insts : queue[j] \in Seq(1 .. next' - 1)
    BY <1>2 DEF Delivery
  <2>2. Tail(queue[i]) \in Seq(1 .. next' - 1)
    BY <1>1, <1>3, <2>1, HeadTailProperties
  <2>. QED  BY <1>1, <1>6, <1>7, <2>1, <2>2
<1>18. net' \in Seq(OfNet') /\ dbq' \in Seq(OfDb')
  <2>1. D \in Seq(OfDb') /\ <<>> \in Seq(OfNet') /\ next' \in Nat
    BY <1>1, <1>2, <1>11, <1>15, SeqMonotonic, EmptySeq
  <2>2. ~Persist => ~boot /\ ~boot'
    BY <1>14 DEF Delivery, InMemory
  <2>. QED  BY <1>1, <1>2, <1>6, <1>17, <2>1, <2>2, ProcessQueueKeeps
<1>19. ~Persist => InMemory'
  <2>1. known' \subseteq known
    BY DEF PqAccepted
  <2>2. finished' => finished \/ f.item = MaxItems \/ ended'
    BY <1>0 DEF PqAccepted, Finishing
  <2>3. ended => ended'
    BY DEF PqAccepted
  <2>4. Delivered(MaxItems) \/ f.item = MaxItems => Delivered(MaxItems)'
    BY <1>4, <1>5
  <2>. QED  BY <1>2, <1>12, <1>13, <1>14, <2>1, <2>2, <2>3, <2>4 DEF Delivery, InMemory
<1>. QED  BY <1>2, <1>15, <1>16, <1>17, <1>18, <1>19 DEF Delivery

(* A reply to a sync: the entry's answer is stored or refused before the   *)
(* entry is removed; after a 404 the same answer is sent again.            *)
LEMMA SyncRepliedDelivery ==
  ASSUME IInv, IInv', Delivery, NEW k \in 1 .. Len(net), SyncReplied(k)
  PROVE  Delivery'
<1>0. PICK f, a, b : /\ f = net[k]
                     /\ a = [f EXCEPT !.at = "syncdel", !.st = "none", !.some = TRUE]
                     /\ b = [f EXCEPT !.at = "syncdel", !.st = "none"]
  OBVIOUS
<1>1. /\ f \in OfNet /\ f \in NetFrames /\ f \in Frame /\ f.item \in Items
      /\ Faithful(f) /\ RemoveAt(net, k) = <<>> /\ next \in Nat
      /\ f.rest \in Chains /\ f.rest # {}
  BY <1>0, DeliveryRequest, NetFrameTyped DEF OfNet, SyncReplied
<1>2. f.at = "sync" /\ Persist /\ f.item \in f.data
  <2>1. f.at = "sync" /\ syncing
    BY <1>0, OneRequest DEF SyncReplied
  <2>. QED  BY <1>1, <2>1 DEF Delivery, InMemory, Faithful
<1>3. UNCHANGED <<queue, known, acc, next, ended, idb, srv>>
  BY DEF SyncReplied, remote
<1>4. \A n : Delivered(n)' <=> Delivered(n)
  BY <1>3 DEF Delivered
<1>5. \/ Accepted(f) /\ Adopt(f) /\ dbq' = Append(dbq, a) /\ net' = <<>> /\ stale' = stale
      \/ UNCHANGED <<boot, dbq, stale>> /\ net' = ReplaceAt(net, k, Sending(f, f.item, 0, disp'))
      \/ /\ stale' = stale \cup {f.item} /\ dbq' = Append(dbq, b) /\ net' = <<>>
         /\ boot' = boot
      \/ UNCHANGED <<boot, dbq, stale>> /\ net' = <<>>
  BY <1>0, <1>1 DEF SyncReplied
<1>6. /\ a \in DbFrames /\ a.at = "syncdel" /\ a.item = f.item /\ a.rest = f.rest
      /\ b \in DbFrames /\ b.at = "syncdel" /\ b.item = f.item /\ b.rest = f.rest
  <2>1. /\ a \in Frame /\ a.at = "syncdel" /\ a.item = f.item /\ a.rest = f.rest
        /\ b \in Frame /\ b.at = "syncdel" /\ b.item = f.item /\ b.rest = f.rest
    BY <1>0, <1>1 DEF Frame, DbAwaits, Replies
  <2>. QED  BY <1>1, <2>1 DEF DbFrames, DbFrame, DbAwaits
<1>7. stale \subseteq stale' /\ (boot' => boot)
  <2>1. stale' = stale \/ stale' = stale \cup {f.item}
    BY <1>5
  <2>2. boot' = boot \/ Adopt(f)
    BY <1>5
  <2>3. Adopt(f) => (boot' => boot)
    BY DEF Adopt
  <2>. QED  BY <2>1, <2>2, <2>3
<1>8. \A n : Adding(n, dbq) => Adding(n, dbq')
  <2>1. /\ \A n : Adding(n, dbq) => Adding(n, Append(dbq, a))
        /\ \A n : Adding(n, dbq) => Adding(n, Append(dbq, b))
    BY <1>6, AddingAppend DEF IInv, TypeInv
  <2>. QED  BY <1>5, <2>1
<1>9. /\ \A n : Kept(n) => Kept(n)'
      /\ OfNet \subseteq OfNet' /\ OfDb \subseteq OfDb'
  BY <1>1, <1>2, <1>3, <1>4, <1>7, <1>8, Carried
<1>10. \A n \in 1 .. next' - 1 : boot' \/ Kept(n)'
  <2>1. CASE boot' = boot
    BY <1>3, <1>9, <2>1 DEF Delivery
  <2>2. CASE Accepted(f) /\ Adopt(f)
    BY <1>1, <1>3, <1>4, <1>9, <2>2, AdoptKeeps
  <2>. QED  BY <1>5, <2>1, <2>2
<1>11. \A e \in f.rest : e.item < next
  BY <1>1 DEF Faithful
<1>12. Accepted(f) => Delivered(f.item)'
  BY <1>1, <1>2, <1>4 DEF Faithful
<1>13. net \in Seq(OfNet') /\ dbq \in Seq(OfDb') /\ <<>> \in Seq(OfNet')
  BY <1>9, SeqMonotonic, EmptySeq DEF Delivery
<1>14. dbq' \in Seq(OfDb')
  <2>1. CASE Accepted(f) /\ dbq' = Append(dbq, a)
    <3>1. FaithfulDb(a)'
      BY <1>1, <1>3, <1>6, <1>11, <1>12, <2>1 DEF FaithfulDb, Faithful
    <3>2. a \in OfDb'
      BY <1>6, <3>1 DEF OfDb
    <3>. QED  BY <1>13, <2>1, <3>2, AppendProperties
  <2>2. CASE stale' = stale \cup {f.item} /\ dbq' = Append(dbq, b)
    <3>1. FaithfulDb(b)'
      BY <1>1, <1>3, <1>6, <1>11, <2>2 DEF FaithfulDb, Faithful
    <3>2. b \in OfDb'
      BY <1>6, <3>1 DEF OfDb
    <3>. QED  BY <1>13, <2>2, <3>2, AppendProperties
  <2>3. CASE dbq' = dbq
    BY <1>13, <2>3
  <2>. QED  BY <1>5, <2>1, <2>2, <2>3
<1>15. net' \in Seq(OfNet')
  <2>1. CASE net' = <<>>
    BY <1>13, <2>1
  <2>2. CASE net' = ReplaceAt(net, k, Sending(f, f.item, 0, disp'))
    <3>0. PICK d, g : d = disp' /\ g = Sending(f, f.item, 0, d)
      OBVIOUS
    <3>1. 0 \in RespIds /\ d \in {0, Display} /\ acc \subseteq Items
      BY <3>0, BoundsAssumption DEF IInv, TypeInv, StateTyped, RespIds
    <3>2. g \in Frame /\ g.item = f.item /\ g.at = f.at /\ g.rest = f.rest
      BY <1>1, <3>0, <3>1, SendingIsFrame
    <3>3. g \in NetFrames
      BY <1>1, <3>2 DEF NetFrames, NetFrame
    <3>4. f.item < next /\ \A e \in g.rest : e.item < next
      BY <1>1, <3>2 DEF Faithful
    <3>5. g \in OfNet
      BY <1>1, <3>0, <3>1, <3>3, <3>4, SendingIsFaithful
    <3>6. g \in OfNet' /\ net' = ReplaceAt(net, k, g)
      BY <1>9, <2>2, <3>0, <3>5
    <3>. QED  BY <1>13, <3>6, ReplaceAtIsSeq
  <2>. QED  BY <1>5, <2>1, <2>2
<1>. QED  BY <1>2, <1>3, <1>9, <1>10, <1>14, <1>15 DEF Delivery

-----------------------------------------------------------------------------
(* Every step keeps the promises, as long as IndexedDB, where it is used,  *)
(* does not fail.                                                          *)
LEMMA StepDelivery ==
  ASSUME Persist => ~DbFaults
  PROVE  IInv /\ IInv' /\ Delivery /\ [Next]_vars => Delivery'
<1>. SUFFICES ASSUME IInv, IInv', Delivery, [Next]_vars PROVE Delivery'
  OBVIOUS
<1>1. CASE DbStep
  BY <1>1, AddDoneDelivery, CountDoneDelivery, PendingCountDoneDelivery,
     RemoveDoneDelivery, GetDoneDelivery, SyncRemoveDoneDelivery DEF DbStep
<1>2. CASE NetStep
  BY <1>2, ServerReplyDelivery, PqAcceptedDelivery, PqRefusedDelivery,
     BackoffEndsDelivery, SyncRepliedDelivery DEF NetStep
<1>3. CASE UserStep
  BY <1>3, SubmitDelivery, UserRetryDelivery, RecreateDelivery DEF UserStep
<1>4. CASE EnvStep
  BY <1>4, DisplayCreatedDelivery, GoOfflineDelivery, GoOnlineDelivery,
     DeleteResponseDelivery DEF EnvStep
<1>5. CASE UNCHANGED vars
  BY <1>5, DeliveryStands DEF vars
<1>. QED  BY <1>1, <1>2, <1>3, <1>4, <1>5 DEF Next

LEMMA DeliveryImplies ==
  ASSUME Delivery
  PROVE  NoAnswerForgotten /\ (~Persist => FinishedIsStored)
<1>1. \A n : Kept(n) => Held(n) \/ Delivered(n) \/ n \in stale
  BY DEF Kept, Held, Adding
<1>2. \A n \in 1 .. next - 1 : n \in acc /\ (boot \/ Kept(n))
  BY DEF Delivery
<1>. QED  BY <1>1, <1>2 DEF NoAnswerForgotten, FinishedIsStored, Delivery, InMemory

LEMMA DeliveryInvariance ==
  ASSUME Persist => ~DbFaults
  PROVE  Spec => []Delivery
<1>1. IInv /\ IInv' /\ Delivery /\ [Next]_vars => Delivery'
  BY StepDelivery
<1>. QED  BY <1>1, InitDelivery, Invariance, PTL DEF Spec

(* No answer the respondent gave is forgotten (response-queue.ts:93-161,   *)
(* 224-295, 310), whichever of the two paths sends it, whatever the        *)
(* connection and the server do, across recreated queues and after         *)
(* responses are deleted in the dashboard: it is in the queue, in          *)
(* IndexedDB or on its way there, part of a stored response, refused, or   *)
(* will be part of the bootstrap create.  With persistence this rests on   *)
(* IndexedDB not failing; without, on nothing.                             *)
THEOREM NothingForgotten ==
  ASSUME Persist => ~DbFaults
  PROVE  Spec => []NoAnswerForgotten
BY DeliveryInvariance, DeliveryImplies, PTL

(* Without persistence, the page says the response has been sent           *)
(* (survey.tsx, isResponseSendingFinished) only when the finishing answer  *)
(* is part of a stored response, or the server ended the survey.           *)
THEOREM SentIsStored ==
  ASSUME ~Persist
  PROVE  Spec => []FinishedIsStored
<1>1. Delivery => FinishedIsStored
  BY DeliveryImplies
<1>. QED  BY <1>1, DeliveryInvariance, PTL

-----------------------------------------------------------------------------
(* One page, one response.  Every response id anyone holds is of a stored  *)
(* response; a create is on the wire only while nothing is stored.         *)
IsId(x) == x \in 0 .. Len(srv)

SingleNet(f) ==
  /\ IsId(f.rid) /\ \A e \in f.rest : IsId(e.rid)
  /\ f.st # "404"
  /\ f.rid = 0 /\ f.st = "wire" => srv = <<>>
  /\ f.rid = 0 /\ Accepted(f) => f.new = 1 /\ IsId(f.new)

SingleDb(f) ==
  /\ f.at = "add" => IsId(f.rid)
  /\ \A e \in f.rest : IsId(e.rid)

OneNet == {f \in NetFrames : SingleNet(f)}
OneDb  == {f \in DbFrames : SingleDb(f)}

(* The reply to an accepted create has not been read yet.                  *)
Creating(T) == \E k \in DOMAIN T : T[k].rid = 0 /\ Accepted(T[k])

(* The inductive invariant: without a response id and without such a       *)
(* reply, nothing is stored.                                               *)
Single ==
  /\ Len(srv) <= 1 /\ \A r \in DOMAIN srv : ~srv[r].gone
  /\ IsId(rid) /\ \A e \in idb : IsId(e.rid)
  /\ net \in Seq(OneNet) /\ dbq \in Seq(OneDb)
  /\ rid = 0 /\ ~Creating(net) => srv = <<>>

LEMMA InitSingle == Init => Single
<1>. SUFFICES ASSUME Init PROVE Single
  OBVIOUS
<1>1. <<>> \in Seq(OneDb) /\ <<>> \in Seq(OneNet) /\ Len(<<>>) = 0
  BY EmptySeq
<1>2. DOMAIN <<>> = {}
  <2>1. DOMAIN <<>> = 1 .. 0
    BY <1>1, EmptySeq, LenProperties
  <2>. QED  BY <2>1
<1>. QED  BY <1>1, <1>2 DEF Init, Single, IsId

(* The sets of frames depend on what is stored and on nothing else.        *)
LEMMA SingleStands ==
  ASSUME Single, srv' = srv, IsId(rid'), \A e \in idb' : IsId(e.rid),
         net' \in Seq(OneNet), dbq' \in Seq(OneDb),
         rid' = 0 /\ ~Creating(net') => srv = <<>>
  PROVE  Single'
<1>1. OneNet' = OneNet /\ OneDb' = OneDb
  BY DEF OneNet, OneDb, SingleNet, SingleDb, IsId, Accepted
<1>2. Creating(net)' <=> Creating(net')
  BY DEF Creating, Accepted
<1>3. IsId(rid)' /\ \A e \in idb' : IsId(e.rid)'
  BY DEF IsId
<1>. QED  BY <1>1, <1>2, <1>3 DEF Single

(* Nothing is read from frames that are gone or have just been sent.       *)
LEMMA NothingCreated ==
  /\ ~Creating(<<>>)
  /\ \A g : ~Accepted(g) => ~Creating(Append(<<>>, g))
<1>1. DOMAIN <<>> = {}
  <2>1. DOMAIN <<>> = 1 .. 0 /\ <<>> \in Seq({})
    BY EmptySeq, LenProperties
  <2>. QED  BY <2>1
<1>2. ASSUME NEW g, ~Accepted(g)
      PROVE  ~Creating(Append(<<>>, g))
  <2>1. /\ Append(<<>>, g) \in Seq({g}) /\ Len(Append(<<>>, g)) = 1
        /\ Append(<<>>, g)[1] = g
    BY AppendProperties, EmptySeq
  <2>2. DOMAIN Append(<<>>, g) = {1}
    BY <2>1, LenProperties
  <2>. QED  BY <1>2, <2>1, <2>2 DEF Creating
<1>. QED  BY <1>1, <1>2 DEF Creating

(* A frame that is sent, with an id or when nothing is stored.             *)
LEMMA SendingIsSingle ==
  ASSUME IInv, NEW f \in Frame, NEW x \in Items, NEW r \in RespIds, NEW d \in {0, Display},
         NEW g, g = Sending(f, x, r, d), g \in NetFrames,
         IsId(r), r = 0 => srv = <<>>, \A e \in f.rest : IsId(e.rid)
  PROVE  g \in OneNet /\ ~Accepted(g)
<1>1. g.rid = r /\ g.st \in {"wire", "neterr"} /\ ~Accepted(g)
  BY SendingCarries
<1>2. g.rest = f.rest
  BY SendingIsFrame DEF IInv, TypeInv, StateTyped
<1>3. SingleNet(g)
  BY <1>1, <1>2 DEF SingleNet
<1>. QED  BY <1>1, <1>3 DEF OneNet

(* processQueue sends only when nothing else is being sent.                *)
LEMMA ProcessQueueSingle ==
  ASSUME IInv, Single, rid' \in RespIds, IsId(rid'),
         NEW i \in Insts, NEW q \in [Insts -> Seq(Items)], NEW b \in BOOLEAN,
         NEW D \in Seq(OneDb), NEW T \in Seq(OneNet), NEW u \in BOOLEAN,
         ~b /\ ~syncing => T = <<>>,
         rid' = 0 /\ ~Creating(T) => srv = <<>>,
         ProcessQueue(i, q, b, syncing, D, T, u)
  PROVE  /\ net' \in Seq(OneNet) /\ dbq' \in Seq(OneDb)
         /\ rid' = 0 /\ ~Creating(net') => srv = <<>>
<1>. DEFINE go == MayProcess(i, q, b, syncing)
<1>1. CASE ~ go
  BY <1>1 DEF ProcessQueue
<1>2. CASE go /\ Persist
  <2>. DEFINE g == [Await("count", i) EXCEPT !.user = u]
  <2>1. g \in DbFrames /\ g.at = "count" /\ g.rest = {}
    <3>1. g.rest = {}
      BY DEF Await
    <3>. QED  BY <3>1, AwaitIsDbFrame DEF DbAwaits
  <2>2. dbq' = Append(D, g) /\ net' = T
    BY <1>2 DEF ProcessQueue
  <2>. HIDE DEF g
  <2>3. g \in OneDb
    BY <2>1 DEF OneDb, SingleDb
  <2>. QED  BY <2>2, <2>3, AppendProperties
<1>3. CASE go /\ ~ Persist
  <2>. DEFINE a == [Await("pq", i) EXCEPT !.user = u]
  <2>0. PICK g : g = Sending(a, Head(q[i]), rid', disp)
    OBVIOUS
  <2>1. dbq' = D /\ net' = Append(T, g) /\ q[i] # <<>> /\ T = <<>>
    BY <1>3, <2>0 DEF ProcessQueue, MayProcess
  <2>2. Head(q[i]) \in Items
    BY <2>1, HeadTailProperties
  <2>3. a \in Frame /\ a.rest = {} /\ a.at = "pq"
    <3>1. Await("pq", i) \in Frame /\ Await("pq", i).rest = {}
      BY AwaitIsFrame DEF NetAwaits
    <3>2. Await("pq", i).at = "pq"
      BY DEF Await
    <3>. QED  BY <3>1, <3>2 DEF Frame
  <2>. HIDE DEF a
  <2>4. disp \in {0, Display} /\ acc \subseteq Items
    BY DEF IInv, TypeInv, StateTyped
  <2>5. g \in Frame /\ g.item = Head(q[i]) /\ g.at = a.at /\ g.rest = a.rest
    <3>1. rid' \in RespIds /\ a \in Frame
      BY <2>3
    <3>. QED  BY <2>0, <2>2, <2>4, <3>1, SendingIsFrame
  <2>6. g \in NetFrames
    BY <2>2, <2>3, <2>5, ChainEmpty DEF NetFrames, NetFrame, NetAwaits
  <2>7. rid' = 0 => srv = <<>>
    BY <2>1, NothingCreated
  <2>8. \A e \in a.rest : IsId(e.rid)
    BY <2>3
  <2>9. g \in OneNet /\ ~Accepted(g)
    BY <2>0, <2>2, <2>3, <2>4, <2>6, <2>7, <2>8, SendingIsSingle
  <2>. QED  BY <2>1, <2>7, <2>9, AppendProperties
<1>. QED  BY <1>1, <1>2, <1>3

LEMMA SendEntrySingle ==
  ASSUME IInv, Single, NEW f \in Frame, NEW S \in Chains, S # {},
         \A e \in S : IsId(e.rid), NEW D, net = <<>>, SendEntry(f, S, D)
  PROVE  /\ net' \in Seq(OneNet) /\ dbq' = D /\ IsId(rid')
         /\ rid' = 0 => srv = <<>>
<1>. DEFINE e == Oldest(S)
            a == [f EXCEPT !.at = "sync", !.rest = S]
<1>0. PICK g : g = Sending(a, e.item, rid', disp)
  OBVIOUS
<1>1. e \in S /\ e.item \in Items /\ e.rid \in RespIds /\ IsId(e.rid)
  BY ChainOldest
<1>. HIDE DEF e
<1>2. /\ rid' \in RespIds /\ disp \in {0, Display} /\ acc \subseteq Items
  BY <1>1 DEF IInv, TypeInv, StateTyped, SendEntry, e
<1>3. net' = Append(net, g) /\ dbq' = D
  BY <1>0 DEF SendEntry, e
<1>4. IsId(rid') /\ (rid' = 0 => srv = <<>>)
  <2>1. rid' = (IF e.rid # 0 THEN e.rid ELSE rid)
    BY DEF SendEntry, e
  <2>2. ~Creating(net)
    BY NothingCreated
  <2>. QED  BY <1>1, <2>1, <2>2 DEF Single
<1>5. a \in Frame /\ a.at = "sync" /\ a.rest = S
  BY DEF Frame, NetAwaits, Chains
<1>. HIDE DEF a
<1>6. g \in Frame /\ g.item = e.item /\ g.at = a.at /\ g.rest = a.rest
  BY <1>0, <1>1, <1>2, <1>5, SendingIsFrame
<1>7. g \in NetFrames
  BY <1>1, <1>5, <1>6 DEF NetFrames, NetFrame, NetAwaits
<1>8. g \in OneNet
  BY <1>0, <1>1, <1>2, <1>4, <1>5, <1>7, SendingIsSingle
<1>9. <<>> \in Seq(OneNet)
  BY EmptySeq
<1>. QED  BY <1>3, <1>4, <1>8, <1>9, AppendProperties

(* What an action on the oldest IndexedDB request knows.                   *)
LEMMA SingleHead ==
  ASSUME IInv, Single, dbq # <<>>
  PROVE  /\ Head(dbq) \in OneDb /\ SingleDb(Head(dbq)) /\ Tail(dbq) \in Seq(OneDb)
         /\ rid = 0 /\ ~Creating(net) => srv = <<>>
<1>1. dbq \in Seq(OneDb)
  BY DEF Single
<1>2. Head(dbq) \in OneDb /\ Tail(dbq) \in Seq(OneDb)
  BY <1>1, HeadTailProperties
<1>. QED  BY <1>2 DEF OneDb, Single

(* The calls that do not send or answer anything.                          *)
LEMMA QuietSingle ==
  ASSUME IInv, Single, UNCHANGED <<rid, idb, net, srv>>, dbq' \in Seq(OneDb)
  PROVE  Single'
<1>1. /\ IsId(rid') /\ \A e \in idb' : IsId(e.rid)
      /\ net' \in Seq(OneNet) /\ (rid' = 0 /\ ~Creating(net') => srv = <<>>)
  BY DEF Single
<1>. QED  BY <1>1, SingleStands

(* Frames that wait for a count or for the entries.                        *)
LEMMA AwaitIsSingle ==
  ASSUME NEW i \in Insts, NEW D \in Seq(OneDb)
  PROVE  /\ Append(D, [Await("pcount", i) EXCEPT !.eff = TRUE]) \in Seq(OneDb)
         /\ \A e \in BOOLEAN : Append(D, [Await("get", i) EXCEPT !.eff = e]) \in Seq(OneDb)
<1>1. ASSUME NEW at \in {"pcount", "get"}, NEW e \in BOOLEAN
      PROVE  Append(D, [Await(at, i) EXCEPT !.eff = e]) \in Seq(OneDb)
  <2>. DEFINE g == [Await(at, i) EXCEPT !.eff = e]
  <2>1. g \in DbFrames /\ g.at = at /\ g.rest = {}
    <3>1. g.rest = {}
      BY DEF Await
    <3>. QED  BY <3>1, AwaitIsDbFrame DEF DbAwaits
  <2>. HIDE DEF g
  <2>2. g \in OneDb
    BY <2>1 DEF OneDb, SingleDb
  <2>. QED  BY <2>2, AppendProperties DEF g
<1>. QED  BY <1>1

(* With both locks free no request is out.                                 *)
LEMMA IdleNet ==
  ASSUME IInv, ~busy, ~syncing
  PROVE  net = <<>>
<1>1. net \in Seq(NetFrames)
  BY DEF IInv, TypeInv
<1>2. Len(net) \in Nat /\ (Len(net) = 0 => net = <<>>)
  BY <1>1, LenProperties, EmptySeq
<1>3. ASSUME 1 \in 1 .. Len(net)
      PROVE  FALSE
  BY <1>3, OneRequest, NetFrameTyped
<1>. QED  BY <1>2, <1>3

LEMMA SubmitSingle ==
  ASSUME IInv, Single, Submit
  PROVE  Single'
<1>1. rid' = rid /\ UNCHANGED <<idb, srv>> /\ rid' \in RespIds /\ IsId(rid')
      /\ \A e \in idb' : IsId(e.rid)
  BY DEF Submit, remote, Single, IInv, TypeInv, StateTyped
<1>2. net \in Seq(OneNet) /\ dbq \in Seq(OneDb) /\ (rid = 0 /\ ~Creating(net) => srv = <<>>)
  BY DEF Single
<1>3. CASE Persist
  <2>0. PICK g : g = [Await("add", cur) EXCEPT !.item = next, !.rid = rid, !.disp = disp]
    OBVIOUS
  <2>1. dbq' = Append(dbq, g) /\ net' = net
    BY <1>3, <2>0 DEF Submit
  <2>2. g \in Frame /\ g.rest = {} /\ g.at = "add" /\ g.item \in Items /\ g.rid = rid
    <3>1. /\ Await("add", cur) \in Frame /\ Await("add", cur).rest = {}
          /\ Await("add", cur).at = "add"
      BY AwaitIsFrame DEF DbAwaits, Await, IInv, TypeInv, StateTyped
    <3>2. next \in Items /\ rid \in RespIds /\ disp \in {0, Display}
      BY DEF Submit, IInv, TypeInv, StateTyped, Items
    <3>. QED  BY <2>0, <3>1, <3>2 DEF Frame
  <2>3. g \in DbFrames
    BY <2>2, ChainEmpty DEF DbFrames, DbFrame, DbAwaits
  <2>4. g \in OneDb
    BY <1>1, <2>2, <2>3 DEF OneDb, SingleDb
  <2>5. dbq' \in Seq(OneDb)
    BY <1>2, <2>1, <2>4, AppendProperties
  <2>. QED  BY <1>1, <2>1, <2>5, QuietSingle
<1>4. CASE ~Persist
  <2>1. ProcessQueue(cur, queue', busy, syncing, dbq, net, FALSE)
    BY <1>4 DEF Submit
  <2>2. /\ cur \in Insts /\ busy \in BOOLEAN
        /\ queue' \in [Insts -> Seq(Items)]
    <3>1. next \in Items /\ cur \in Insts /\ busy \in BOOLEAN /\ queue \in [Insts -> Seq(Items)]
      BY DEF Submit, IInv, TypeInv, StateTyped, Items
    <3>2. queue' = [queue EXCEPT ![cur] = Append(queue[cur], next)]
      BY DEF Submit
    <3>3. Append(queue[cur], next) \in Seq(Items)
      BY <3>1, AppendProperties
    <3>. QED  BY <3>1, <3>2, <3>3
  <2>3. ~busy /\ ~syncing => net = <<>>
    BY IdleNet
  <2>4. /\ net' \in Seq(OneNet) /\ dbq' \in Seq(OneDb)
        /\ rid' = 0 /\ ~Creating(net') => srv = <<>>
    BY <1>1, <1>2, <2>1, <2>2, <2>3, ProcessQueueSingle
  <2>. QED  BY <1>1, <2>4, SingleStands
<1>. QED  BY <1>3, <1>4

LEMMA UserRetrySingle ==
  ASSUME IInv, Single, UserRetry
  PROVE  Single'
<1>1. rid' = rid /\ UNCHANGED <<idb, srv>> /\ rid' \in RespIds /\ IsId(rid')
      /\ \A e \in idb' : IsId(e.rid)
  BY DEF UserRetry, remote, Single, IInv, TypeInv, StateTyped
<1>2. net \in Seq(OneNet) /\ dbq \in Seq(OneDb) /\ (rid = 0 /\ ~Creating(net) => srv = <<>>)
  BY DEF Single
<1>3. /\ cur \in Insts /\ busy \in BOOLEAN /\ queue \in [Insts -> Seq(Items)]
      /\ ProcessQueue(cur, queue, busy, syncing, dbq, net, TRUE)
  BY DEF UserRetry, IInv, TypeInv, StateTyped
<1>4. ~busy /\ ~syncing => net = <<>>
  BY IdleNet
<1>5. /\ net' \in Seq(OneNet) /\ dbq' \in Seq(OneDb)
      /\ rid' = 0 /\ ~Creating(net') => srv = <<>>
  BY <1>1, <1>2, <1>3, <1>4, ProcessQueueSingle
<1>. QED  BY <1>1, <1>5, SingleStands

LEMMA BrowserSingle ==
  ASSUME IInv, IInv', Single, Recreate \/ GoOnline \/ GoOffline \/ DisplayCreated
  PROVE  Single'
<1>1. UNCHANGED <<rid, idb, net, srv>>
  BY DEF Recreate, GoOnline, GoOffline, DisplayCreated, local, remote
<1>2. dbq \in Seq(OneDb)
  BY DEF Single
<1>3. dbq' \in Seq(OneDb)
  <2>1. CASE Recreate \/ GoOnline
    <3>1. PICK i \in Insts : RunEffect(i)
      BY <2>1 DEF Recreate, GoOnline, IInv, TypeInv, StateTyped
    <3>2. dbq' = dbq \/ dbq' = Append(dbq, [Await("pcount", i) EXCEPT !.eff = TRUE])
      BY <3>1 DEF RunEffect
    <3>. QED  BY <1>2, <3>2, AwaitIsSingle
  <2>2. CASE GoOffline \/ DisplayCreated
    BY <1>2, <2>2 DEF GoOffline, DisplayCreated
  <2>. QED  BY <2>1, <2>2
<1>. QED  BY <1>1, <1>3, QuietSingle

LEMMA AddDoneSingle ==
  ASSUME IInv, Single, AddDone
  PROVE  Single'
<1>0. PICK f : f = Head(dbq)
  OBVIOUS
<1>. DEFINE e == [item |-> f.item, rid |-> f.rid, disp |-> f.disp]
<1>1. dbq # <<>> /\ f.at = "add"
  BY <1>0 DEF AddDone, DbAnswers
<1>2. /\ Tail(dbq) \in Seq(OneDb) /\ IsId(f.rid) /\ f.inst \in Insts
  BY <1>0, <1>1, SingleHead, DbHead DEF SingleDb
<1>3. PICK o \in DbOutcomes :
        /\ idb' = IF o = "done" THEN idb \cup {e} ELSE idb
        /\ rid' = rid
        /\ IF o = "rejected"
             THEN dbq' = Tail(dbq) /\ UNCHANGED <<net, busy>>
             ELSE ProcessQueue(f.inst, queue, busy, syncing, Tail(dbq), net, FALSE)
  BY <1>0 DEF AddDone
<1>4. srv' = srv /\ rid' \in RespIds /\ IsId(rid')
  BY <1>3 DEF AddDone, Single, IInv, TypeInv, StateTyped
<1>5. \A x \in idb' : IsId(x.rid)
  BY <1>2, <1>3 DEF Single
<1>. HIDE DEF e
<1>6. net \in Seq(OneNet) /\ (rid = 0 /\ ~Creating(net) => srv = <<>>)
  BY DEF Single
<1>7. /\ net' \in Seq(OneNet) /\ dbq' \in Seq(OneDb)
      /\ rid' = 0 /\ ~Creating(net') => srv = <<>>
  <2>1. CASE o = "rejected"
    BY <1>2, <1>3, <1>6, <2>1
  <2>2. CASE o # "rejected"
    <3>1. busy \in BOOLEAN /\ queue \in [Insts -> Seq(Items)]
      BY DEF IInv, TypeInv, StateTyped
    <3>2. ~busy /\ ~syncing => net = <<>>
      BY IdleNet
    <3>3. ProcessQueue(f.inst, queue, busy, syncing, Tail(dbq), net, FALSE) /\ rid' = rid
      BY <1>3, <2>2
    <3>. QED  BY <1>2, <1>4, <1>6, <3>1, <3>2, <3>3, ProcessQueueSingle
  <2>. QED  BY <2>1, <2>2
<1>. QED  BY <1>4, <1>5, <1>7, SingleStands

LEMMA CountDoneSingle ==
  ASSUME IInv, Single, CountDone
  PROVE  Single'
<1>0. PICK f, a, g : /\ f = Head(dbq) /\ a = [Await("pq", f.inst) EXCEPT !.user = f.user]
                     /\ g = Sending(a, Head(queue[f.inst]), rid, disp)
  OBVIOUS
<1>1. dbq # <<>> /\ f.at = "count"
  BY <1>0 DEF CountDone, DbAnswers
<1>2. /\ Tail(dbq) \in Seq(OneDb) /\ f.inst \in Insts /\ f.user \in BOOLEAN
      /\ (rid = 0 /\ ~Creating(net) => srv = <<>>)
  BY <1>0, <1>1, SingleHead, DbHead
<1>3. \/ dbq' = Tail(dbq) /\ net' = net
      \/ StartSync(f.inst, Tail(dbq), FALSE) /\ net' = net
      \/ /\ ~ Overtaken(f.inst)
         /\ net' = Append(net, g) /\ dbq' = Tail(dbq)
  BY <1>0 DEF CountDone
<1>4. UNCHANGED <<rid, idb, srv>>
  BY DEF CountDone, local, remote
<1>5. dbq' \in Seq(OneDb)
  <2>1. dbq' = Tail(dbq) \/ dbq' = Append(Tail(dbq), [Await("get", f.inst) EXCEPT !.eff = FALSE])
    BY <1>3 DEF StartSync
  <2>. QED  BY <1>2, <2>1, AwaitIsSingle
<1>6. CASE net' = net
  BY <1>4, <1>5, <1>6, QuietSingle
<1>7. CASE ~ Overtaken(f.inst) /\ net' = Append(net, g)
  <2>1. queue[f.inst] # <<>> /\ ~busy /\ ~syncing
    BY <1>7 DEF Overtaken
  <2>2. net = <<>>
    BY <2>1, IdleNet
  <2>3. Head(queue[f.inst]) \in Items
    <3>1. queue[f.inst] \in Seq(Items)
      BY <1>2 DEF IInv, TypeInv, StateTyped
    <3>. QED  BY <2>1, <3>1, HeadTailProperties
  <2>4. a \in Frame /\ a.rest = {} /\ a.at = "pq"
    <3>1. Await("pq", f.inst) \in Frame /\ Await("pq", f.inst).rest = {}
      BY <1>2, AwaitIsFrame DEF NetAwaits
    <3>2. Await("pq", f.inst).at = "pq"
      BY DEF Await
    <3>. QED  BY <1>0, <1>2, <3>1, <3>2 DEF Frame
  <2>5. rid \in RespIds /\ disp \in {0, Display} /\ acc \subseteq Items /\ IsId(rid)
    BY DEF IInv, TypeInv, StateTyped, Single
  <2>6. g = Sending(a, Head(queue[f.inst]), rid, disp)
    BY <1>0
  <2>7. g \in Frame /\ g.item = Head(queue[f.inst]) /\ g.at = a.at /\ g.rest = a.rest
    BY <2>3, <2>4, <2>5, <2>6, SendingIsFrame
  <2>8. g \in NetFrames
    BY <2>3, <2>4, <2>7, ChainEmpty DEF NetFrames, NetFrame, NetAwaits
  <2>9. rid = 0 => srv = <<>>
    BY <1>2, <2>2, NothingCreated
  <2>10. \A e \in a.rest : IsId(e.rid)
    BY <2>4
  <2>11. g \in OneNet
    BY <2>3, <2>4, <2>5, <2>6, <2>8, <2>9, <2>10, SendingIsSingle
  <2>12. net' \in Seq(OneNet)
    <3>1. net \in Seq(OneNet)
      BY DEF Single
    <3>. QED  BY <1>7, <2>11, <3>1, AppendProperties
  <2>13. IsId(rid') /\ \A e \in idb' : IsId(e.rid)
    BY <1>4 DEF Single
  <2>. QED  BY <1>4, <1>5, <2>9, <2>12, <2>13, SingleStands
<1>. QED  BY <1>3, <1>6, <1>7

LEMMA PendingCountDoneSingle ==
  ASSUME IInv, Single, PendingCountDone
  PROVE  Single'
<1>0. PICK f : f = Head(dbq)
  OBVIOUS
<1>1. dbq # <<>>
  BY DEF PendingCountDone, DbAnswers
<1>2. Tail(dbq) \in Seq(OneDb) /\ f.inst \in Insts
  BY <1>0, <1>1, SingleHead, DbHead
<1>3. dbq' = Tail(dbq) \/ dbq' = Append(Tail(dbq), [Await("get", f.inst) EXCEPT !.eff = TRUE])
  BY <1>0 DEF PendingCountDone, StartSync
<1>4. dbq' \in Seq(OneDb)
  BY <1>2, <1>3, AwaitIsSingle
<1>. QED  BY <1>4, QuietSingle DEF PendingCountDone, local, remote

LEMMA RemoveDoneSingle ==
  ASSUME IInv, Single, RemoveDone
  PROVE  Single'
<1>1. dbq # <<>> /\ dbq' = Tail(dbq) /\ UNCHANGED <<rid, net, srv>>
  BY DEF RemoveDone, DbAnswers, local
<1>2. dbq' \in Seq(OneDb)
  BY <1>1, SingleHead
<1>3. idb' \subseteq idb
  BY DEF RemoveDone, Without
<1>4. IsId(rid') /\ \A e \in idb' : IsId(e.rid)
  BY <1>1, <1>3 DEF Single
<1>5. net' \in Seq(OneNet) /\ (rid' = 0 /\ ~Creating(net') => srv = <<>>)
  BY <1>1 DEF Single
<1>. QED  BY <1>1, <1>2, <1>4, <1>5, SingleStands

LEMMA GetDoneSingle ==
  ASSUME IInv, Single, GetDone
  PROVE  Single'
<1>0. PICK f, a : f = Head(dbq) /\ a = [f EXCEPT !.len = Len(queue[f.inst])]
  OBVIOUS
<1>1. dbq # <<>> /\ f.at = "get"
  BY <1>0 DEF GetDone, DbAnswers
<1>2. /\ f \in Frame /\ f.inst \in Insts /\ net = <<>> /\ Tail(dbq) \in Seq(OneDb)
  BY <1>0, <1>1, DbHead, SingleHead DEF InSync
<1>3. \/ idb # {} /\ SendEntry(a, idb, Tail(dbq))
      \/ dbq' = Tail(dbq) /\ UNCHANGED <<rid, net>>
  BY <1>0 DEF GetDone
<1>4. a \in Frame
  <2>1. Len(queue[f.inst]) \in Nat
    BY <1>2, LenProperties DEF IInv, TypeInv, StateTyped
  <2>. QED  BY <1>0, <1>2, <2>1 DEF Frame
<1>5. UNCHANGED <<idb, srv>>
  BY DEF GetDone, remote
<1>6. CASE idb # {} /\ SendEntry(a, idb, Tail(dbq))
  <2>1. idb \in Chains /\ \A e \in idb : IsId(e.rid)
    BY DEF IInv, TypeInv, Single
  <2>2. /\ net' \in Seq(OneNet) /\ dbq' = Tail(dbq) /\ IsId(rid')
        /\ rid' = 0 => srv = <<>>
    BY <1>2, <1>4, <1>6, <2>1, SendEntrySingle
  <2>3. \A e \in idb' : IsId(e.rid)
    BY <1>5, <2>1
  <2>. QED  BY <1>2, <1>5, <2>2, <2>3, SingleStands
<1>7. CASE dbq' = Tail(dbq) /\ UNCHANGED <<rid, net>>
  BY <1>2, <1>5, <1>7, QuietSingle
<1>. QED  BY <1>3, <1>6, <1>7

LEMMA SyncRemoveDoneSingle ==
  ASSUME IInv, Single, SyncRemoveDone
  PROVE  Single'
<1>0. PICK f, S : f = Head(dbq) /\ S = {e \in f.rest : e.item # f.item}
  OBVIOUS
<1>1. dbq # <<>> /\ f.at = "syncdel"
  BY <1>0 DEF SyncRemoveDone, DbAnswers
<1>2. /\ f \in Frame /\ f.inst \in Insts /\ f.rest \in Chains /\ net = <<>>
      /\ syncing /\ ~ busy /\ Tail(dbq) \in Seq(DbFrames)
  BY <1>0, <1>1, DbHead DEF InSync
<1>3. Tail(dbq) \in Seq(OneDb) /\ SingleDb(f) /\ (rid = 0 /\ ~Creating(net) => srv = <<>>)
  BY <1>0, <1>1, SingleHead
<1>4. \/ S # {} /\ SendEntry(f, S, Tail(dbq))
      \/ CompleteSync(f, Tail(dbq))
      \/ dbq' = Tail(dbq) /\ UNCHANGED <<rid, net>>
  BY <1>0 DEF SyncRemoveDone
<1>5. srv' = srv /\ idb' \subseteq idb
  BY DEF SyncRemoveDone, Without
<1>6. \A e \in idb' : IsId(e.rid)
  BY <1>5 DEF Single
<1>7. CASE S # {} /\ SendEntry(f, S, Tail(dbq))
  <2>1. S \in Chains /\ \A e \in S : IsId(e.rid)
    <3>1. S \in SUBSET f.rest
      BY <1>0
    <3>. QED  BY <1>2, <1>3, <3>1, ChainSub DEF SingleDb
  <2>2. /\ net' \in Seq(OneNet) /\ dbq' = Tail(dbq) /\ IsId(rid')
        /\ rid' = 0 => srv = <<>>
    BY <1>2, <1>7, <2>1, SendEntrySingle
  <2>. QED  BY <1>3, <1>5, <1>6, <2>2, SingleStands
<1>8. CASE dbq' = Tail(dbq) /\ UNCHANGED <<rid, net>>
  <2>1. /\ IsId(rid') /\ net' \in Seq(OneNet) /\ dbq' \in Seq(OneDb)
        /\ (rid' = 0 /\ ~Creating(net') => srv = <<>>)
    BY <1>3, <1>8 DEF Single
  <2>. QED  BY <1>5, <1>6, <2>1, SingleStands
<1>9. CASE CompleteSync(f, Tail(dbq))
  <2>1. StateTyped /\ net \in Seq(NetFrames)
    BY DEF IInv, TypeInv
  <2>2. dbq' = Tail(dbq) /\ UNCHANGED <<rid, net>>
    BY <1>2, <1>9, <2>1, CompleteSyncEffect
  <2>. QED  BY <1>8, <2>2
<1>. QED  BY <1>4, <1>7, <1>8, <1>9

(* What an action on the frame of a request knows.                         *)
LEMMA SingleRequest ==
  ASSUME IInv, Single, NEW k \in 1 .. Len(net)
  PROVE  /\ k = 1 /\ DOMAIN net = {1} /\ RemoveAt(net, k) = <<>>
         /\ net[k] \in OneNet /\ SingleNet(net[k]) /\ net[k] \in NetFrames
         /\ net[k] \in Frame /\ net[k].item \in Items
         /\ ~(net[k].rid = 0 /\ Accepted(net[k])) /\ rid = 0 => srv = <<>>
<1>1. net \in Seq(OneNet)
  BY DEF Single
<1>2. net[k] \in OneNet
  BY <1>1, ElementOfSeq
<1>3. k = 1 /\ DOMAIN net = {1} /\ RemoveAt(net, k) = <<>>
  BY OneRequest
<1>4. ~(net[k].rid = 0 /\ Accepted(net[k])) => ~Creating(net)
  BY <1>3 DEF Creating
<1>. QED  BY <1>2, <1>3, <1>4, NetFrameTyped DEF OneNet, Single

(* A sequence whose elements are in T is a sequence over T.                *)
LEMMA SeqOfSubset ==
  ASSUME NEW S, NEW T, NEW s \in Seq(S), \A j \in 1 .. Len(s) : s[j] \in T
  PROVE  s \in Seq(T)
<1>1. Len(s) \in Nat /\ s \in [1 .. Len(s) -> S]
  BY LenProperties
<1>2. s \in [1 .. Len(s) -> T]
  BY <1>1
<1>. QED  BY <1>1, <1>2, SeqDef

(* A commit stores the first response or adds to it.                       *)
LEMMA CommitSingle ==
  ASSUME IInv, Single, NEW f, SingleNet(f), f.st = "wire", NEW full \in BOOLEAN,
         IF f.rid = 0 THEN CommitCreate(f, full) ELSE CommitUpdate(f, full)
  PROVE  /\ Len(srv') = 1 /\ \A r \in DOMAIN srv' : ~srv'[r].gone
         /\ f.rid # 0 => srv # <<>>
<1>1. /\ srv \in Seq(Response) /\ DOMAIN srv = 1 .. Len(srv) /\ Len(srv) \in Nat
      /\ \A r \in 1 .. Len(srv) : srv[r] \in Response /\ ~srv[r].gone
      /\ Len(srv) <= 1
  BY LenProperties, ElementOfSeq DEF IInv, TypeInv, StateTyped, Single
<1>2. CASE f.rid = 0
  <2>. DEFINE e == [disp |-> f.disp, got |-> f.data, fin |-> full \/ Finishes(f), gone |-> FALSE]
  <2>1. srv' = Append(srv, e) /\ ~e.gone /\ srv = <<>>
    BY <1>2 DEF CommitCreate, SingleNet
  <2>. HIDE DEF e
  <2>2. /\ Append(<<>>, e) \in Seq({e}) /\ Len(Append(<<>>, e)) = 1
        /\ Append(<<>>, e)[1] = e
    BY AppendProperties, EmptySeq
  <2>3. DOMAIN Append(<<>>, e) = {1}
    BY <2>2, LenProperties
  <2>. QED  BY <1>2, <2>1, <2>2, <2>3
<1>3. CASE f.rid # 0
  <2>1. /\ f.rid \in 1 .. Len(srv)
        /\ srv' = [srv EXCEPT ![f.rid].got = @ \cup f.data,
                              ![f.rid].fin = full \/ Finishes(f)]
    BY <1>3 DEF CommitUpdate, Stored
  <2>. DEFINE e == [srv[f.rid] EXCEPT !.got = @ \cup f.data, !.fin = full \/ Finishes(f)]
  <2>2. srv' = [srv EXCEPT ![f.rid] = e]
    BY <1>1, <2>1 DEF Response
  <2>3. ~e.gone
    BY <1>1, <2>1 DEF Response
  <2>. HIDE DEF e
  <2>4. DOMAIN srv' = DOMAIN srv /\ \A r \in DOMAIN srv : ~srv'[r].gone
    BY <1>1, <2>1, <2>2, <2>3
  <2>5. srv # <<>> /\ Len(srv) = 1
    BY <1>1, <2>1, EmptySeq
  <2>6. Len(srv') = 1
    BY <1>1, <2>2, <2>5
  <2>. QED  BY <2>4, <2>5, <2>6
<1>. QED  BY <1>2, <1>3

LEMMA ServerReplySingle ==
  ASSUME IInv, Single, ~LostReplies, NEW k \in 1 .. Len(net), ServerReply(k)
  PROVE  Single'
<1>0. PICK f : f = net[k]
  OBVIOUS
<1>1. /\ k = 1 /\ f \in OneNet /\ SingleNet(f) /\ f \in NetFrames /\ f \in Frame
      /\ f.st = "wire" /\ DOMAIN net = {1} /\ (rid = 0 => srv = <<>>)
      /\ net \in Seq(OneNet) /\ dbq \in Seq(OneDb)
  <2>1. f.st = "wire"
    BY <1>0 DEF ServerReply
  <2>. QED  BY <1>0, <2>1, SingleRequest DEF Accepted, Single
<1>2. UNCHANGED <<rid, idb, dbq>>
  BY DEF ServerReply, local
<1>. DEFINE Replied(st, id) == net' = ReplaceAt(net, k, [f EXCEPT !.st = st, !.new = id])
<1>3. \/ \E st \in {"ok", "quota"}, full \in BOOLEAN :
           /\ IF f.rid = 0 THEN CommitCreate(f, full) ELSE CommitUpdate(f, full)
           /\ Replied(st, IF f.rid = 0 THEN Len(srv') ELSE 0)
      \/ f.rid # 0 /\ ~Stored(f.rid)
      \/ \E st \in {"4xx", "recaptcha", "5xx", "neterr"} : Replied(st, 0) /\ srv' = srv
  BY <1>0 DEF ServerReply, Committed
<1>4. /\ srv \in Seq(Response) /\ Len(srv) \in Nat /\ Len(srv) <= 1 /\ IsId(f.rid)
      /\ \A r \in 1 .. Len(srv) : ~srv[r].gone
  BY <1>1, LenProperties DEF IInv, TypeInv, StateTyped, Single, SingleNet
<1>5. ~(f.rid # 0 /\ ~Stored(f.rid))
  BY <1>4 DEF Stored, IsId
<1>6. ASSUME NEW st \in {"ok", "quota"}, NEW full \in BOOLEAN,
             IF f.rid = 0 THEN CommitCreate(f, full) ELSE CommitUpdate(f, full),
             Replied(st, IF f.rid = 0 THEN Len(srv') ELSE 0)
      PROVE  Single'
  <2>1. /\ Len(srv') = 1 /\ \A r \in DOMAIN srv' : ~srv'[r].gone
        /\ f.rid # 0 => srv # <<>>
    BY <1>1, <1>6, CommitSingle
  <2>2. PICK id, g : id = (IF f.rid = 0 THEN 1 ELSE 0) /\ g = [f EXCEPT !.st = st, !.new = id]
    OBVIOUS
  <2>3. net' = ReplaceAt(net, k, g)
    BY <1>6, <2>1, <2>2
  <2>4. g.rid = f.rid /\ g.rest = f.rest /\ g.st = st /\ g.new = id /\ g.at = f.at
    BY <1>1, <2>2 DEF Frame
  <2>5. \A x : IsId(x) => IsId(x)'
    BY <1>4, <2>1 DEF IsId
  <2>6. OneDb \subseteq OneDb'
    BY <2>5 DEF OneDb, SingleDb
  <2>7. g \in NetFrames
    <3>1. id \in RespIds
      BY <2>2, BoundsAssumption DEF RespIds
    <3>2. g \in Frame /\ g.item = f.item
      BY <1>1, <2>2, <3>1 DEF Frame, Replies
    <3>. QED  BY <1>1, <2>4, <3>2 DEF NetFrames, NetFrame
  <2>8. SingleNet(g)'
    <3>1. IsId(g.rid)' /\ \A e \in g.rest : IsId(e.rid)'
      BY <1>1, <2>4, <2>5 DEF SingleNet
    <3>2. g.rid = 0 => g.new = 1 /\ IsId(g.new)'
      BY <2>1, <2>2, <2>4 DEF IsId
    <3>3. g.st # "404" /\ g.st # "wire"
      BY <2>4
    <3>. QED  BY <3>1, <3>2, <3>3 DEF SingleNet
  <2>9. g \in OneNet'
    BY <2>7, <2>8 DEF OneNet
  <2>10. net' \in Seq(OneNet') /\ net'[1] = g /\ 1 \in DOMAIN net'
    <3>1. net' = [net EXCEPT ![1] = g] /\ DOMAIN net' = {1} /\ net'[1] = g
      BY <1>1, <2>3 DEF ReplaceAt
    <3>2. Len(net') = 1 /\ net' \in Seq(NetFrames)
      BY <1>0, <1>1, <2>3, <2>7, ReplaceAtIsSeq, LenProperties DEF IInv, TypeInv
    <3>3. \A j \in 1 .. Len(net') : net'[j] \in OneNet'
      <4>1. \A j \in 1 .. Len(net') : j = 1
        BY <3>2
      <4>. QED  BY <2>9, <3>1, <4>1
    <3>4. net' \in Seq(OneNet')
      BY <3>2, <3>3, SeqOfSubset
    <3>. QED  BY <3>1, <3>4
  <2>11. rid' = 0 /\ ~Creating(net)' => srv' = <<>>
    <3>1. CASE f.rid = 0
      <4>1. g.rid = 0 /\ Accepted(g)'
        BY <2>4, <3>1 DEF Accepted
      <4>. QED  BY <2>10, <4>1 DEF Creating
    <3>2. CASE f.rid # 0
      BY <1>1, <1>2, <2>1, <3>2
    <3>. QED  BY <3>1, <3>2
  <2>12. IsId(rid)' /\ \A e \in idb' : IsId(e.rid)'
    BY <1>2, <2>5 DEF Single
  <2>13. dbq' \in Seq(OneDb')
    BY <1>1, <1>2, <2>6, SeqMonotonic
  <2>. QED  BY <2>1, <2>10, <2>11, <2>12, <2>13 DEF Single
<1>7. ASSUME NEW st \in {"4xx", "recaptcha", "5xx", "neterr"}, Replied(st, 0), srv' = srv
      PROVE  Single'
  <2>1. PICK g : g = [f EXCEPT !.st = st, !.new = 0]
    OBVIOUS
  <2>2. g.rid = f.rid /\ g.rest = f.rest /\ g.st = st /\ g.at = f.at
    BY <1>1, <2>1 DEF Frame
  <2>3. g \in NetFrames
    <3>1. 0 \in RespIds
      BY BoundsAssumption DEF RespIds
    <3>2. g \in Frame /\ g.item = f.item
      BY <1>1, <2>1, <3>1 DEF Frame, Replies, Refusals
    <3>. QED  BY <1>1, <2>2, <3>2 DEF NetFrames, NetFrame
  <2>4. SingleNet(g)
    BY <1>1, <2>2 DEF SingleNet, Accepted
  <2>5. g \in OneNet
    BY <2>3, <2>4 DEF OneNet
  <2>6. net' \in Seq(OneNet)
    BY <1>1, <1>7, <2>1, <2>5, ReplaceAtIsSeq
  <2>7. IsId(rid') /\ \A e \in idb' : IsId(e.rid)
    BY <1>2 DEF Single
  <2>. QED  BY <1>1, <1>2, <1>7, <2>6, <2>7, SingleStands
<1>. QED  BY <1>3, <1>5, <1>6, <1>7

(* An id that was read from the reply to a create is the first one's.      *)
LEMMA AdoptSingle ==
  ASSUME IInv, Single, NEW f \in OneNet, Accepted(f), Adopt(f),
         ~(f.rid = 0 /\ Accepted(f)) /\ rid = 0 => srv = <<>>
  PROVE  /\ IsId(rid') /\ rid' \in RespIds
         /\ rid' = 0 => srv = <<>>
<1>1. SingleNet(f) /\ f \in Frame
  BY DEF OneNet, NetFrames, NetFrame
<1>2. IsId(rid) /\ rid \in RespIds
  BY DEF Single, IInv, TypeInv, StateTyped
<1>3. CASE f.rid = 0
  <2>1. rid' = f.new /\ f.new = 1 /\ IsId(f.new) /\ f.new \in RespIds
    BY <1>1, <1>3 DEF Adopt, SingleNet, Frame
  <2>. QED  BY <2>1
<1>4. CASE f.rid # 0
  BY <1>2, <1>4 DEF Adopt
<1>. QED  BY <1>3, <1>4

LEMMA PqAcceptedSingle ==
  ASSUME IInv, Single, NEW k \in 1 .. Len(net), PqAccepted(k)
  PROVE  Single'
<1>0. PICK f, i, d : /\ f = net[k] /\ i = f.inst
                     /\ d = [Await("del", i) EXCEPT !.item = f.item]
  OBVIOUS
<1>. DEFINE D == IF f.item \in known THEN Append(dbq, d) ELSE dbq
<1>1. /\ f \in OneNet /\ f.item \in Items /\ i \in Insts /\ RemoveAt(net, k) = <<>>
      /\ ~(f.rid = 0 /\ Accepted(f)) /\ rid = 0 => srv = <<>>
  BY <1>0, SingleRequest, NetFrameTyped
<1>2. /\ Accepted(f) /\ Adopt(f) /\ queue' = [queue EXCEPT ![i] = Shift(@)]
      /\ ProcessQueue(i, queue', FALSE, syncing, D, <<>>, FALSE)
      /\ UNCHANGED <<idb, srv>>
  BY <1>0, <1>1 DEF PqAccepted, remote
<1>3. IsId(rid') /\ rid' \in RespIds /\ (rid' = 0 => srv = <<>>)
  BY <1>1, <1>2, AdoptSingle
<1>4. d \in DbFrames /\ d.at = "del" /\ d.rest = {}
  <2>1. d.rest = {}
    BY <1>0 DEF Await
  <2>. QED  BY <1>0, <1>1, <2>1, AwaitIsDbFrame DEF DbAwaits
<1>5. d \in OneDb
  BY <1>4 DEF OneDb, SingleDb
<1>6. D \in Seq(OneDb)
  BY <1>5, AppendProperties DEF Single
<1>. HIDE DEF D
<1>7. queue' \in [Insts -> Seq(Items)]
  <2>1. queue \in [Insts -> Seq(Items)]
    BY DEF IInv, TypeInv, StateTyped
  <2>2. Shift(queue[i]) \in Seq(Items)
    BY <1>1, <2>1, HeadTailProperties DEF Shift
  <2>. QED  BY <1>2, <2>1, <2>2
<1>8. <<>> \in Seq(OneNet)
  BY EmptySeq
<1>9. /\ net' \in Seq(OneNet) /\ dbq' \in Seq(OneDb)
      /\ rid' = 0 /\ ~Creating(net') => srv = <<>>
  BY <1>1, <1>2, <1>3, <1>6, <1>7, <1>8, ProcessQueueSingle
<1>10. \A e \in idb' : IsId(e.rid)
  BY <1>2 DEF Single
<1>. QED  BY <1>2, <1>3, <1>9, <1>10, SingleStands

(* A request that failed stored nothing that its page does not know of.    *)
LEMMA PqRefusedSingle ==
  ASSUME IInv, Single, NEW k \in 1 .. Len(net), PqRefused(k)
  PROVE  Single'
<1>0. PICK f, g : f = net[k] /\ g = [f EXCEPT !.st = "timer"]
  OBVIOUS
<1>1. /\ f \in OneNet /\ SingleNet(f) /\ f \in NetFrames /\ f \in Frame
      /\ f.item \in Items /\ RemoveAt(net, k) = <<>>
      /\ ~(f.rid = 0 /\ Accepted(f)) /\ rid = 0 => srv = <<>>
  BY <1>0, SingleRequest
<1>2. net' = <<>> \/ net' = ReplaceAt(net, k, g)
  BY <1>0, <1>1 DEF PqRefused, GiveUp
<1>3. /\ UNCHANGED <<rid, idb, srv, dbq>> /\ ~Accepted(f)
  BY <1>0 DEF PqRefused, local, remote, Accepted
<1>4. g.rid = f.rid /\ g.rest = f.rest /\ g.st = "timer" /\ g.at = f.at /\ g.item = f.item
      /\ g \in Frame
  BY <1>0, <1>1 DEF Frame
<1>5. g \in OneNet
  <2>1. g \in NetFrames
    BY <1>1, <1>4 DEF NetFrames, NetFrame
  <2>. QED  BY <1>1, <1>4, <2>1 DEF OneNet, SingleNet, Accepted
<1>6. net \in Seq(OneNet) /\ <<>> \in Seq(OneNet) /\ dbq \in Seq(OneDb)
      /\ IsId(rid') /\ \A e \in idb' : IsId(e.rid)
  BY <1>3, EmptySeq DEF Single
<1>7. net' \in Seq(OneNet)
  BY <1>2, <1>5, <1>6, ReplaceAtIsSeq
<1>. QED  BY <1>1, <1>3, <1>6, <1>7, SingleStands

LEMMA BackoffEndsSingle ==
  ASSUME IInv, Single, NEW k \in 1 .. Len(net), BackoffEnds(k)
  PROVE  Single'
<1>0. PICK f, a, g : /\ f = net[k] /\ a = [f EXCEPT !.att = @ + 1]
                     /\ g = Sending(a, f.item, rid, disp)
  OBVIOUS
<1>1. /\ f \in OneNet /\ SingleNet(f) /\ f \in NetFrames /\ f \in Frame
      /\ f.item \in Items /\ RemoveAt(net, k) = <<>>
      /\ ~(f.rid = 0 /\ Accepted(f)) /\ rid = 0 => srv = <<>>
  BY <1>0, SingleRequest
<1>2. a \in Frame /\ a.at = f.at /\ a.item = f.item /\ a.rest = f.rest
  BY <1>0, <1>1 DEF Frame
<1>3. net' = <<>> \/ net' = ReplaceAt(net, k, g)
  BY <1>0, <1>1, <1>2 DEF BackoffEnds, GiveUp
<1>4. UNCHANGED <<rid, idb, srv, dbq>> /\ ~Accepted(f)
  BY <1>0 DEF BackoffEnds, local, remote, Accepted
<1>5. rid \in RespIds /\ disp \in {0, Display} /\ acc \subseteq Items /\ IsId(rid)
  BY DEF IInv, TypeInv, StateTyped, Single
<1>6. g \in Frame /\ g.item = f.item /\ g.at = a.at /\ g.rest = a.rest
  <2>1. g = Sending(a, f.item, rid, disp)
    BY <1>0
  <2>. QED  BY <1>1, <1>2, <1>5, <2>1, SendingIsFrame
<1>7. g \in NetFrames
  BY <1>1, <1>2, <1>6 DEF NetFrames, NetFrame
<1>8. g \in OneNet
  <2>1. (rid = 0 => srv = <<>>) /\ \A e \in a.rest : IsId(e.rid)
    BY <1>1, <1>2, <1>4 DEF SingleNet
  <2>. QED  BY <1>0, <1>1, <1>2, <1>5, <1>7, <2>1, SendingIsSingle
<1>9. net \in Seq(OneNet) /\ <<>> \in Seq(OneNet) /\ dbq \in Seq(OneDb)
      /\ IsId(rid') /\ \A e \in idb' : IsId(e.rid)
  BY <1>4, EmptySeq DEF Single
<1>10. net' \in Seq(OneNet)
  BY <1>3, <1>8, <1>9, ReplaceAtIsSeq
<1>. QED  BY <1>1, <1>4, <1>9, <1>10, SingleStands

LEMMA SyncRepliedSingle ==
  ASSUME IInv, Single, NEW k \in 1 .. Len(net), SyncReplied(k)
  PROVE  Single'
<1>0. PICK f, a, b : /\ f = net[k]
                     /\ a = [f EXCEPT !.at = "syncdel", !.st = "none", !.some = TRUE]
                     /\ b = [f EXCEPT !.at = "syncdel", !.st = "none"]
  OBVIOUS
<1>1. /\ f \in OneNet /\ SingleNet(f) /\ f \in NetFrames /\ f \in Frame
      /\ f.item \in Items /\ RemoveAt(net, k) = <<>>
      /\ ~(f.rid = 0 /\ Accepted(f)) /\ rid = 0 => srv = <<>>
  BY <1>0, SingleRequest
<1>2. UNCHANGED <<idb, srv>> /\ net' = <<>>
      /\ \/ Accepted(f) /\ Adopt(f) /\ dbq' = Append(dbq, a)
         \/ ~Accepted(f) /\ rid' = rid /\ dbq' = Append(dbq, b)
         \/ ~Accepted(f) /\ rid' = rid /\ dbq' = dbq
  <2>1. f.st # "404"
    BY <1>1 DEF SingleNet
  <2>2. /\ UNCHANGED <<idb, srv>>
        /\ \/ Accepted(f) /\ Adopt(f) /\ dbq' = Append(dbq, a) /\ net' = <<>>
           \/ f.st \in Refusals /\ rid' = rid /\ dbq' = Append(dbq, b) /\ net' = <<>>
           \/ f.st \in {"5xx", "neterr"} /\ rid' = rid /\ dbq' = dbq /\ net' = <<>>
    BY <1>0, <1>1, <2>1 DEF SyncReplied, remote
  <2>. QED  BY <2>2 DEF Accepted, Refusals
<1>3. IsId(rid') /\ (rid' = 0 => srv = <<>>)
  <2>1. CASE Accepted(f) /\ Adopt(f)
    BY <1>1, <2>1, AdoptSingle
  <2>2. CASE ~Accepted(f) /\ rid' = rid
    BY <1>1, <2>2 DEF Single
  <2>. QED  BY <1>2, <2>1, <2>2
<1>4. /\ a \in DbFrames /\ a.at = "syncdel" /\ a.rest = f.rest
      /\ b \in DbFrames /\ b.at = "syncdel" /\ b.rest = f.rest
  <2>1. /\ a \in Frame /\ a.at = "syncdel" /\ a.item = f.item /\ a.rest = f.rest
        /\ b \in Frame /\ b.at = "syncdel" /\ b.item = f.item /\ b.rest = f.rest
    BY <1>0, <1>1 DEF Frame, DbAwaits, Replies
  <2>2. f.rest \in Chains
    BY <1>0, NetFrameTyped DEF SyncReplied
  <2>. QED  BY <2>1, <2>2 DEF DbFrames, DbFrame, DbAwaits
<1>5. a \in OneDb /\ b \in OneDb
  BY <1>1, <1>4 DEF OneDb, SingleDb, SingleNet
<1>6. dbq' \in Seq(OneDb)
  <2>1. dbq \in Seq(OneDb)
    BY DEF Single
  <2>. QED  BY <1>2, <1>5, <2>1, AppendProperties
<1>7. net' \in Seq(OneNet) /\ \A e \in idb' : IsId(e.rid)
  BY <1>2, EmptySeq DEF Single
<1>. QED  BY <1>2, <1>3, <1>6, <1>7, SingleStands

(* Every step keeps to one response while every reply arrives and no       *)
(* response is deleted.                                                    *)
LEMMA StepSingle ==
  ASSUME ~LostReplies, ~Deletions
  PROVE  IInv /\ IInv' /\ Single /\ [Next]_vars => Single'
<1>. SUFFICES ASSUME IInv, IInv', Single, [Next]_vars PROVE Single'
  OBVIOUS
<1>1. CASE DbStep
  BY <1>1, AddDoneSingle, CountDoneSingle, PendingCountDoneSingle,
     RemoveDoneSingle, GetDoneSingle, SyncRemoveDoneSingle DEF DbStep
<1>2. CASE NetStep
  BY <1>2, ServerReplySingle, PqAcceptedSingle, PqRefusedSingle,
     BackoffEndsSingle, SyncRepliedSingle DEF NetStep
<1>3. CASE UserStep
  BY <1>3, SubmitSingle, UserRetrySingle, BrowserSingle DEF UserStep
<1>4. CASE EnvStep
  BY <1>4, BrowserSingle DEF EnvStep, DeleteResponse
<1>5. CASE UNCHANGED vars
  <2>1. UNCHANGED <<rid, idb, net, srv>> /\ dbq' \in Seq(OneDb)
    BY <1>5 DEF vars, Single
  <2>. QED  BY <2>1, QuietSingle
<1>. QED  BY <1>1, <1>2, <1>3, <1>4, <1>5 DEF Next

(* One page creates one response (response-queue.ts:151-154, 158-161,      *)
(* 227-229, 340-366): processQueue, a sync and recreated queues compete    *)
(* for the first answer, requests are refused and tried again, entries     *)
(* were stored before the id was known, and there may be no display the    *)
(* server could tell a second create by; yet the second create is never    *)
(* sent.  It takes that the reply to a committed request arrives: when it  *)
(* is lost the page does not know the id, and creates again.  After the    *)
(* response is deleted in the dashboard, the code means to create again.   *)
THEOREM OnePage ==
  ASSUME ~LostReplies, ~Deletions
  PROVE  Spec => []OneResponse
<1>1. IInv /\ IInv' /\ Single /\ [Next]_vars => Single'
  BY StepSingle
<1>2. Single => OneResponse
  BY DEF Single, OneResponse
<1>. QED  BY <1>1, <1>2, InitSingle, Invariance, PTL DEF Spec

=============================================================================
