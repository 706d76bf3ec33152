------------------------ MODULE ResponseQueue_proofs ------------------------
(***************************************************************************)
(* Proofs about ResponseQueue, for every value of its constants: the type  *)
(* invariant, that there is one sender per survey, and that what it sends  *)
(* is the head of its queue.                                               *)
(*                                                                         *)
(* The three are proved together, from one inductive invariant IInv.  It   *)
(* states the two lock invariants of the four pieces of state they relate  *)
(* (Locks, Sent), so that a step that calls several functions in turn can  *)
(* follow them from call to call.  Its other addition is to the types: a   *)
(* set of pending entries is a chain, so that the oldest entry of it       *)
(* exists.  Chains are closed under adding an entry and taking subsets,    *)
(* which spares the proof an induction over finite sets.                   *)
(***************************************************************************)
EXTENDS ResponseQueue, SequenceTheorems, TLAPS

\* Every set of entries, of this set, has a least element.
Chains == {S \in SUBSET Entry : \A T \in SUBSET S :
             T # {} => \E e \in T : \A o \in T : e.item <= o.item}

DbFrames  == {f \in DbFrame : f.rest \in Chains}
NetFrames == {f \in NetFrame : f.rest \in Chains}

LEMMA ChainEmpty == {} \in Chains
BY DEF Chains

LEMMA ChainSub ==
  ASSUME NEW S \in Chains, NEW T \in SUBSET S
  PROVE  T \in Chains
BY DEF Chains

(* A stored answer joins a chain: the least of a set with one more         *)
(* element.                                                                *)
LEMMA ChainAdd ==
  ASSUME NEW S \in Chains, NEW e \in Entry
  PROVE  S \cup {e} \in Chains
<1>1. S \cup {e} \in SUBSET Entry
  BY DEF Chains
<1>2. SUFFICES ASSUME NEW T \in SUBSET (S \cup {e}), T # {}
               PROVE  \E m \in T : \A o \in T : m.item <= o.item
  BY <1>1 DEF Chains
<1>3. \A x \in S \cup {e} : x.item \in Nat
  BY <1>1 DEF Entry, Items
<1>4. CASE T \ {e} = {}
  BY <1>2, <1>3, <1>4
<1>5. CASE T \ {e} # {}
  <2>1. PICK m \in T \ {e} : \A o \in T \ {e} : m.item <= o.item
    BY <1>5 DEF Chains
  <2>. QED  BY <2>1, <1>3
<1>. QED  BY <1>4, <1>5

(* A sync always has an entry to send next: Oldest of a chain is one of    *)
(* it.                                                                     *)
LEMMA ChainOldest ==
  ASSUME NEW S \in Chains, S # {}
  PROVE  /\ Oldest(S) \in S
         /\ Oldest(S).item \in Items
         /\ Oldest(S).rid \in RespIds
         /\ Oldest(S).disp \in {0, Display}
<1>1. \E e \in S : \A o \in S : e.item <= o.item
  BY DEF Chains
<1>2. Oldest(S) \in S
  BY <1>1 DEF Oldest
<1>. QED  BY <1>2 DEF Chains, Entry

(* Facts about RemoveAt and ReplaceAt of SequencesExt.                     *)
LEMMA RemoveAtIsSeq ==
  ASSUME NEW S, NEW s \in Seq(S), NEW k \in 1 .. Len(s)
  PROVE  /\ RemoveAt(s, k) \in Seq(S)
         /\ Len(s) <= 1 => RemoveAt(s, k) = <<>>
<1>1. Len(s) \in Nat /\ \A i \in 1 .. Len(s) : s[i] \in S
  BY LenProperties
<1>2. SubSeq(s, 1, k - 1) \in Seq(S) /\ SubSeq(s, k + 1, Len(s)) \in Seq(S)
  BY <1>1, SubSeqProperties
<1>3. ASSUME Len(s) <= 1
      PROVE  SubSeq(s, 1, k - 1) = <<>> /\ SubSeq(s, k + 1, Len(s)) = <<>>
  BY <1>1, <1>3, SubSeqEmpty
<1>. QED  BY <1>2, <1>3, ConcatProperties, ConcatEmptySeq, EmptySeq DEF RemoveAt

LEMMA ReplaceAtIsSeq ==
  ASSUME NEW S, NEW s \in Seq(S), NEW k \in 1 .. Len(s), NEW e \in S
  PROVE  /\ ReplaceAt(s, k, e) \in Seq(S)
         /\ Len(ReplaceAt(s, k, e)) = Len(s)
         /\ Len(s) <= 1 => k = 1 /\ ReplaceAt(s, k, e)[1] = e
BY ExceptSeq, LenProperties DEF ReplaceAt

(* What the operators that build frames return.                            *)
LEMMA AwaitIsFrame ==
  ASSUME NEW at \in DbAwaits \cup NetAwaits, NEW i \in Insts
  PROVE  /\ Await(at, i) \in Frame
         /\ Await(at, i).rest = {}
BY BoundsAssumption DEF Await, Frame, RespIds, Replies

LEMMA SendingIsFrame ==
  ASSUME NEW f \in Frame, NEW x \in Items, NEW r \in RespIds,
         NEW d \in {0, Display}, acc \subseteq Items
  PROVE  /\ Sending(f, x, r, d) \in Frame
         /\ Sending(f, x, r, d).item = x
         /\ Sending(f, x, r, d).at = f.at
         /\ Sending(f, x, r, d).inst = f.inst
         /\ Sending(f, x, r, d).rest = f.rest
<1>. DEFINE D  == IF r = 0 /\ boot THEN acc ELSE {x}
            St == IF online THEN "wire" ELSE "neterr"
<1>1. Sending(f, x, r, d) = [f EXCEPT !.item = x, !.rid = r, !.new = 0, !.disp = d,
                                      !.data = D, !.st = St]
  BY DEF Sending
<1>2. D \in SUBSET Items /\ St \in Replies \cup {"wire", "timer", "none"} /\ 0 \in RespIds
  BY BoundsAssumption DEF Replies, RespIds
<1>. HIDE DEF D, St
<1>3. x \in Items \cup {0}
  OBVIOUS
<1>. HIDE DEF D, St
<1>4. Sending(f, x, r, d) \in Frame
  BY <1>1, <1>2, <1>3 DEF Frame
<1>5. /\ Sending(f, x, r, d).item = x
      /\ Sending(f, x, r, d).at = f.at
      /\ Sending(f, x, r, d).inst = f.inst
      /\ Sending(f, x, r, d).rest = f.rest
  BY <1>1 DEF Frame
<1>. QED  BY <1>4, <1>5
-----------------------------------------------------------------------------
(* OneSenderPerSurvey of the locks s and b and the frames D and T.         *)
Locks(s, b, D, T) ==
  /\ ~(b /\ s)
  /\ Len(T) <= 1
  /\ b <=> \E k \in DOMAIN T : T[k].at = "pq"
  /\ s <=> SyncsIn(T) # {} \/ SyncsIn(D) # {}
  /\ SyncsIn(T) = {} \/ SyncsIn(D) = {}
  /\ \A j, k \in SyncsIn(D) : j = k

(* SentIsHead of the queues q and the frames T.                            *)
Sent(q, T) ==
  \A k \in DOMAIN T : T[k].at = "pq" =>
     q[T[k].inst] # <<>> /\ Head(q[T[k].inst]) = T[k].item

(* TypeOK, with chains for sets of entries.                                *)
TypeInv ==
  /\ StateTyped
  /\ idb \in Chains /\ dbq \in Seq(DbFrames) /\ net \in Seq(NetFrames)

(* The inductive invariant.                                                *)
IInv == TypeInv /\ Locks(syncing, busy, dbq, net) /\ Sent(queue, net)

(* Where the frames of a sync are in a queue after Append and Tail.        *)
LEMMA SyncsAppend ==
  ASSUME NEW S, NEW q \in Seq(S), NEW g \in S
  PROVE  SyncsIn(Append(q, g)) =
           SyncsIn(q) \cup (IF InSync(g) THEN {Len(q) + 1} ELSE {})
<1>1. DOMAIN q = 1 .. Len(q) /\ Len(q) \in Nat
  BY LenProperties
<1>2. DOMAIN Append(q, g) = 1 .. Len(q) + 1
  BY AppendProperties, LenProperties
<1>. QED  BY <1>1, <1>2, AppendProperties DEF SyncsIn

LEMMA SyncsTail ==
  ASSUME NEW S, NEW q \in Seq(S), q # <<>>
  PROVE  \A k \in Nat : k \in SyncsIn(Tail(q)) <=> k >= 1 /\ k + 1 \in SyncsIn(q)
<1>1. DOMAIN q = 1 .. Len(q) /\ Len(q) \in Nat
  BY LenProperties
<1>2. DOMAIN Tail(q) = 1 .. Len(q) - 1 /\ \A k \in 1 .. Len(q) - 1 : Tail(q)[k] = q[k + 1]
  BY HeadTailProperties, LenProperties
<1>. QED  BY <1>1, <1>2 DEF SyncsIn

(* IndexedDB answers the oldest request: if it is the sync's, the sync     *)
(* holds its lock alone and nothing is in net; if not, the locks are       *)
(* accounted for as before.                                                *)
LEMMA LocksTail ==
  ASSUME NEW s \in BOOLEAN, NEW b \in BOOLEAN,
         NEW D \in Seq(DbFrames), NEW T \in Seq(NetFrames), Locks(s, b, D, T), D # <<>>
  PROVE  IF InSync(Head(D)) THEN s /\ ~b /\ T = <<>> /\ Locks(FALSE, FALSE, Tail(D), T)
                            ELSE Locks(s, b, Tail(D), T)
<1>1. DOMAIN D = 1 .. Len(D) /\ Len(D) \in Nat \ {0} /\ Head(D) = D[1]
  BY LenProperties, EmptySeq
<1>2. SyncsIn(Tail(D)) \subseteq Nat /\ SyncsIn(D) \subseteq Nat \ {0}
  BY <1>1, HeadTailProperties, LenProperties DEF SyncsIn
<1>3. \A k \in Nat : k \in SyncsIn(Tail(D)) <=> k >= 1 /\ k + 1 \in SyncsIn(D)
  BY SyncsTail
<1>4. 1 \in SyncsIn(D) <=> InSync(Head(D))
  BY <1>1 DEF SyncsIn
<1>5. CASE InSync(Head(D))
  <2>1. SyncsIn(Tail(D)) = {}
    BY <1>2, <1>3, <1>4, <1>5 DEF Locks
  <2>2. s /\ ~b /\ SyncsIn(T) = {} /\ ~ \E k \in DOMAIN T : T[k].at = "pq"
    BY <1>4, <1>5 DEF Locks
  <2>3. Len(T) = 0
    <3>1. DOMAIN T = 1 .. Len(T) /\ Len(T) \in Nat /\ \A k \in 1 .. Len(T) : T[k] \in NetFrames
      BY LenProperties, ElementOfSeq
    <3>2. \A f \in NetFrames : f.at = "pq" \/ InSync(f)
      BY DEF NetFrames, NetFrame, NetAwaits, InSync
    <3>. QED  BY <2>2, <3>1, <3>2 DEF SyncsIn
  <2>4. T = <<>>
    BY <2>3, EmptySeq
  <2>. QED  BY <1>5, <2>1, <2>2, <2>4 DEF Locks
<1>6. CASE ~ InSync(Head(D))
  <2>1. SyncsIn(Tail(D)) = {} <=> SyncsIn(D) = {}
    <3>1. ASSUME NEW k \in SyncsIn(D)
          PROVE  k - 1 \in SyncsIn(Tail(D))
      <4>1. k \in Nat /\ k # 0 /\ k # 1
        BY <1>2, <1>4, <1>6
      <4>2. k - 1 \in Nat /\ k - 1 >= 1 /\ (k - 1) + 1 = k
        BY <4>1
      <4>. QED  BY <4>2, <1>3
    <3>. QED  BY <3>1, <1>2, <1>3
  <2>2. \A j, k \in SyncsIn(Tail(D)) : j = k
    BY <1>2, <1>3 DEF Locks
  <2>. QED  BY <1>6, <2>1, <2>2 DEF Locks
<1>. QED  BY <1>5, <1>6

(* A new IndexedDB request: of a sync that just took the lock, or of none. *)
LEMMA LocksAppendDb ==
  ASSUME NEW s \in BOOLEAN, NEW b \in BOOLEAN,
         NEW D \in Seq(DbFrames), NEW T \in Seq(NetFrames), Locks(s, b, D, T),
         NEW g \in DbFrames
  PROVE  /\ ~ InSync(g) => Locks(s, b, Append(D, g), T)
         /\ InSync(g) /\ ~s /\ ~b => Locks(TRUE, b, Append(D, g), T)
BY SyncsAppend DEF Locks

(* With both locks free nothing is in net, and one frame may enter it.     *)
LEMMA LocksAppendNet ==
  ASSUME NEW D \in Seq(DbFrames), NEW T \in Seq(NetFrames), Locks(FALSE, FALSE, D, T),
         NEW g \in NetFrames
  PROVE  /\ T = <<>>
         /\ DOMAIN Append(T, g) = {1} /\ Append(T, g)[1] = g
         /\ g.at = "pq" => Locks(FALSE, TRUE, D, Append(T, g))
         /\ g.at = "sync" => Locks(TRUE, FALSE, D, Append(T, g))
<1>1. DOMAIN T = 1 .. Len(T) /\ Len(T) \in Nat /\ \A k \in 1 .. Len(T) : T[k] \in NetFrames
  BY LenProperties, ElementOfSeq
<1>2. \A f \in NetFrames : f.at = "pq" \/ InSync(f)
  BY DEF NetFrames, NetFrame, NetAwaits, InSync
<1>3. T = <<>>
  BY <1>1, <1>2, EmptySeq DEF Locks, SyncsIn
<1>4. DOMAIN Append(T, g) = {1} /\ Append(T, g)[1] = g /\ Len(Append(T, g)) = 1
  BY <1>1, <1>3, AppendProperties, LenProperties, EmptySeq
<1>5. SyncsIn(Append(T, g)) = IF InSync(g) THEN {1} ELSE {}
  BY <1>4 DEF SyncsIn
<1>6. g.at = "pq" => ~ InSync(g)
  BY DEF InSync
<1>7. g.at = "sync" => InSync(g) /\ g.at # "pq"
  BY DEF InSync
<1>. QED  BY <1>3, <1>4, <1>5, <1>6, <1>7 DEF Locks

(* A frame in net is alone there; removing it accounts for a free lock,    *)
(* and replacing it by a frame of the same call changes nothing.           *)
LEMMA OneRequest ==
  ASSUME IInv, NEW k \in 1 .. Len(net)
  PROVE  /\ k = 1 /\ DOMAIN net = {1} /\ Len(net) = 1 /\ net[k] \in NetFrames
         /\ RemoveAt(net, k) = <<>> /\ <<>> \in Seq(NetFrames)
         /\ net[k].at = "pq" => busy /\ ~syncing /\ Locks(FALSE, FALSE, dbq, <<>>)
         /\ net[k].at = "sync" => syncing /\ ~busy /\ Locks(FALSE, FALSE, dbq, <<>>)
         /\ \A g \in NetFrames : g.at = net[k].at =>
              /\ ReplaceAt(net, k, g) \in Seq(NetFrames)
              /\ Locks(syncing, busy, dbq, ReplaceAt(net, k, g))
              /\ DOMAIN ReplaceAt(net, k, g) = {1} /\ ReplaceAt(net, k, g)[1] = g
<1>. USE DEF IInv, TypeInv
<1>0. net \in Seq(NetFrames) /\ Locks(syncing, busy, dbq, net)
  OBVIOUS
<1>1. DOMAIN net = 1 .. Len(net) /\ Len(net) \in Nat /\ net[k] \in NetFrames
  BY LenProperties, ElementOfSeq
<1>2. k = 1 /\ Len(net) = 1 /\ DOMAIN net = {1}
  BY <1>1 DEF Locks
<1>3. RemoveAt(net, k) = <<>> /\ <<>> \in Seq(NetFrames) /\ Len(<<>>) = 0 /\ DOMAIN <<>> = {}
  <2>1. RemoveAt(net, k) = <<>>
    BY Len(net) <= 1, RemoveAtIsSeq, Zenon DEF Locks
  <2>2. <<>> \in Seq(NetFrames) /\ Len(<<>>) = 0
    BY EmptySeq
  <2>3. DOMAIN <<>> = 1 .. 0
    BY <2>2, LenProperties
  <2>. QED  BY <2>1, <2>2, <2>3
<1>4. SyncsIn(<<>>) = {}
  BY <1>3 DEF SyncsIn
<1>5. SyncsIn(net) = IF InSync(net[1]) THEN {1} ELSE {}
  BY <1>2 DEF SyncsIn
<1>6. net[k].at = "pq" => busy /\ ~syncing /\ Locks(FALSE, FALSE, dbq, <<>>)
  BY <1>2, <1>3, <1>4 DEF Locks
<1>7. net[k].at = "sync" => syncing /\ ~busy /\ Locks(FALSE, FALSE, dbq, <<>>)
  BY <1>2, <1>3, <1>4, <1>5 DEF Locks, InSync
<1>8. ASSUME NEW g \in NetFrames, g.at = net[k].at
      PROVE  /\ ReplaceAt(net, k, g) \in Seq(NetFrames)
             /\ Locks(syncing, busy, dbq, ReplaceAt(net, k, g))
             /\ DOMAIN ReplaceAt(net, k, g) = {1} /\ ReplaceAt(net, k, g)[1] = g
  <2>. DEFINE R == ReplaceAt(net, k, g)
  <2>1. R \in Seq(NetFrames) /\ Len(R) = Len(net)
    BY ReplaceAtIsSeq, Zenon
  <2>2. R[1] = g
    BY <1>2 DEF ReplaceAt
  <2>3. DOMAIN R = {1}
    BY <1>2, <2>1, LenProperties
  <2>4. SyncsIn(R) = SyncsIn(net)
    BY <1>2, <1>5, <1>8, <2>2, <2>3 DEF SyncsIn, InSync
  <2>5. (\E j \in DOMAIN R : R[j].at = "pq") <=> (\E j \in DOMAIN net : net[j].at = "pq")
    BY <1>2, <1>8, <2>2, <2>3
  <2>. HIDE DEF R
  <2>6. Locks(syncing, busy, dbq, R)
    BY <1>2, <2>1, <2>4, <2>5 DEF Locks
  <2>. QED  BY <2>1, <2>2, <2>3, <2>6 DEF R
<1>. QED  BY <1>1, <1>2, <1>3, <1>6, <1>7, <1>8

-----------------------------------------------------------------------------
(* The frames that wait for IndexedDB with nothing but a default set.      *)
LEMMA AwaitIsDbFrame ==
  ASSUME NEW at \in DbAwaits, at # "add", NEW i \in Insts
  PROVE  /\ Await(at, i) \in DbFrames
         /\ \A u \in BOOLEAN : [Await(at, i) EXCEPT !.user = u] \in DbFrames
         /\ \A e \in BOOLEAN : [Await(at, i) EXCEPT !.eff = e] \in DbFrames
         /\ \A x \in Items : [Await(at, i) EXCEPT !.item = x] \in DbFrames
         /\ \A u \in BOOLEAN : [Await(at, i) EXCEPT !.user = u].at = at
         /\ \A e \in BOOLEAN : [Await(at, i) EXCEPT !.eff = e].at = at
         /\ \A x \in Items : [Await(at, i) EXCEPT !.item = x].at = at
<1>1. /\ Await(at, i) \in Frame /\ Await(at, i).rest = {} /\ Await(at, i).at = at
      /\ {} \in Chains
  BY AwaitIsFrame, ChainEmpty DEF Await
<1>2. ASSUME NEW f \in Frame, f.rest = {}, f.at = at
      PROVE  f \in DbFrames
  BY <1>1, <1>2 DEF DbFrames, DbFrame
<1>3. ASSUME NEW u \in BOOLEAN
      PROVE  /\ [Await(at, i) EXCEPT !.user = u] \in Frame
             /\ [Await(at, i) EXCEPT !.user = u].rest = {}
             /\ [Await(at, i) EXCEPT !.user = u].at = at
  BY <1>1 DEF Frame
<1>4. ASSUME NEW u \in BOOLEAN
      PROVE  /\ [Await(at, i) EXCEPT !.eff = u] \in Frame
             /\ [Await(at, i) EXCEPT !.eff = u].rest = {}
             /\ [Await(at, i) EXCEPT !.eff = u].at = at
  BY <1>1 DEF Frame
<1>5. ASSUME NEW x \in Items
      PROVE  /\ [Await(at, i) EXCEPT !.item = x] \in Frame
             /\ [Await(at, i) EXCEPT !.item = x].rest = {}
             /\ [Await(at, i) EXCEPT !.item = x].at = at
  BY <1>1 DEF Frame
<1>. QED  BY <1>1, <1>2, <1>3, <1>4, <1>5

(* processQueue keeps the locks accounted for and sends nothing but the    *)
(* head of the queue; during a sync it does nothing.                       *)
LEMMA ProcessQueueEffect ==
  ASSUME StateTyped, rid' \in RespIds,
         NEW i \in Insts, NEW q \in [Insts -> Seq(Items)], NEW b \in BOOLEAN,
         NEW D \in Seq(DbFrames), NEW T \in Seq(NetFrames), NEW u \in BOOLEAN,
         Locks(syncing, b, D, T), Sent(q, T),
         ProcessQueue(i, q, b, syncing, D, T, u)
  PROVE  /\ busy' \in BOOLEAN /\ dbq' \in Seq(DbFrames) /\ net' \in Seq(NetFrames)
         /\ Locks(syncing, busy', dbq', net')
         /\ Sent(q, net')
         /\ syncing => dbq' = D /\ net' = T /\ busy' = b
<1>. DEFINE go == MayProcess(i, q, b, syncing)
<1>0. syncing \in BOOLEAN
  BY DEF StateTyped
<1>1. CASE ~ go
  BY <1>1 DEF ProcessQueue
<1>2. CASE go /\ Persist
  <2>. DEFINE g == [Await("count", i) EXCEPT !.user = u]
  <2>1. g \in DbFrames /\ g.at = "count"
    BY AwaitIsDbFrame DEF DbAwaits
  <2>2. ~ InSync(g)
    BY <2>1 DEF InSync
  <2>3. dbq' = Append(D, g) /\ net' = T /\ busy' = b /\ ~ syncing
    BY <1>2, <1>0 DEF ProcessQueue, MayProcess
  <2>. HIDE DEF g
  <2>. QED  BY <1>0, <2>1, <2>2, <2>3, LocksAppendDb, AppendProperties
<1>3. CASE go /\ ~ Persist
  <2>. DEFINE a == [Await("pq", i) EXCEPT !.user = u]
              g == Sending(a, Head(q[i]), rid', disp)
  <2>1. dbq' = D /\ net' = Append(T, g) /\ busy' = TRUE /\ ~ syncing /\ ~ b /\ q[i] # <<>>
    BY <1>3 DEF ProcessQueue, MayProcess
  <2>2. Head(q[i]) \in Items
    BY <2>1, HeadTailProperties
  <2>3. a \in Frame /\ a.rest = {} /\ a.at = "pq" /\ a.inst = i
    <3>1. Await("pq", i) \in Frame /\ Await("pq", i).rest = {}
      BY AwaitIsFrame DEF NetAwaits
    <3>2. Await("pq", i).at = "pq" /\ Await("pq", i).inst = i
      BY DEF Await
    <3>. QED  BY <3>1, <3>2 DEF Frame
  <2>. HIDE DEF a
  <2>4. g \in Frame /\ g.rest = {} /\ g.at = "pq" /\ g.inst = i /\ g.item = Head(q[i])
    <3>1. disp \in {0, Display} /\ acc \subseteq Items
      BY DEF StateTyped
    <3>2. /\ g \in Frame
          /\ g.item = Head(q[i]) /\ g.at = a.at /\ g.inst = a.inst /\ g.rest = a.rest
      BY <2>2, <2>3, <3>1, SendingIsFrame
    <3>. QED  BY <2>3, <3>2, Zenon
  <2>5. g \in NetFrames
    BY <2>2, <2>4, ChainEmpty DEF NetFrames, NetFrame, NetAwaits
  <2>. HIDE DEF g
  <2>6. /\ Locks(FALSE, TRUE, D, Append(T, g))
        /\ DOMAIN Append(T, g) = {1} /\ Append(T, g)[1] = g
    <3>0. Locks(FALSE, FALSE, D, T)
      BY <2>1 DEF Locks
    <3>1. g.at = "pq" => Locks(FALSE, TRUE, D, Append(T, g))
      BY <3>0, <2>5, LocksAppendNet
    <3>2. DOMAIN Append(T, g) = {1} /\ Append(T, g)[1] = g
      BY <3>0, <2>5, LocksAppendNet
    <3>. QED  BY <2>4, <3>1, <3>2
  <2>7. Sent(q, net')
    BY <2>1, <2>4, <2>6 DEF Sent
  <2>. QED  BY <1>0, <2>1, <2>5, <2>6, <2>7, AppendProperties
<1>. QED  BY <1>1, <1>2, <1>3

(* syncPersistedResponses takes the sync lock only when both are free.     *)
LEMMA StartSyncEffect ==
  ASSUME StateTyped, NEW i \in Insts, NEW D \in Seq(DbFrames), NEW e \in BOOLEAN,
         net \in Seq(NetFrames), Locks(syncing, busy, D, net), StartSync(i, D, e)
  PROVE  /\ syncing' \in BOOLEAN /\ syncRef' \in BOOLEAN /\ dbq' \in Seq(DbFrames)
         /\ Locks(syncing', busy, dbq', net)
<1>. DEFINE g == [Await("get", i) EXCEPT !.eff = e]
<1>1. syncing \in BOOLEAN /\ busy \in BOOLEAN /\ syncRef \in BOOLEAN
  BY DEF StateTyped
<1>2. syncRef' \in BOOLEAN
  BY <1>1 DEF StartSync
<1>3. CASE ~ MayStartSync
  BY <1>1, <1>2, <1>3 DEF StartSync
<1>4. CASE MayStartSync
  <2>1. g \in DbFrames /\ g.at = "get"
    BY AwaitIsDbFrame DEF DbAwaits
  <2>2. InSync(g)
    BY <2>1 DEF InSync
  <2>3. dbq' = Append(D, g) /\ syncing' = TRUE /\ ~ syncing /\ ~ busy
    BY <1>4 DEF StartSync, MayStartSync
  <2>. HIDE DEF g
  <2>. QED  BY <1>1, <1>2, <2>1, <2>2, <2>3, LocksAppendDb, AppendProperties
<1>. QED  BY <1>3, <1>4

(* The effect of survey.tsx asks for a count, which needs no lock.         *)
LEMMA RunEffectEffect ==
  ASSUME StateTyped, online' \in BOOLEAN, NEW i \in Insts, dbq \in Seq(DbFrames),
         net \in Seq(NetFrames), Locks(syncing, busy, dbq, net), RunEffect(i)
  PROVE  /\ syncRef' \in BOOLEAN /\ dbq' \in Seq(DbFrames)
         /\ Locks(syncing, busy, dbq', net)
<1>. DEFINE g == [Await("pcount", i) EXCEPT !.eff = TRUE]
<1>1. syncing \in BOOLEAN /\ busy \in BOOLEAN /\ syncRef \in BOOLEAN
  BY DEF StateTyped
<1>2. syncRef' \in BOOLEAN
  BY <1>1, ModeAssumption DEF RunEffect
<1>3. g \in DbFrames /\ g.at = "pcount"
  BY AwaitIsDbFrame DEF DbAwaits
<1>4. ~ InSync(g)
  BY <1>3 DEF InSync
<1>5. dbq' = dbq \/ dbq' = Append(dbq, g)
  BY DEF RunEffect
<1>. HIDE DEF g
<1>6. Append(dbq, g) \in Seq(DbFrames) /\ Locks(syncing, busy, Append(dbq, g), net)
  BY <1>1, <1>3, <1>4, LocksAppendDb, AppendProperties
<1>. QED  BY <1>2, <1>5, <1>6

(* A sync that got the answer of IndexedDB sends one entry.                *)
LEMMA SendEntryEffect ==
  ASSUME StateTyped, NEW f \in Frame, NEW S \in Chains, S # {},
         NEW D \in Seq(DbFrames), net \in Seq(NetFrames), Locks(FALSE, FALSE, D, net),
         SendEntry(f, S, D)
  PROVE  /\ rid' \in RespIds /\ dbq' = D /\ net' \in Seq(NetFrames)
         /\ Locks(TRUE, FALSE, dbq', net')
         /\ \A q : Sent(q, net')
         /\ UNCHANGED <<queue, known, busy, syncing, syncRef, finished>>
<1>. DEFINE e == Oldest(S)
            a == [f EXCEPT !.at = "sync", !.rest = S]
            g == Sending(a, e.item, rid', disp)
<1>1. e.item \in Items /\ e.rid \in RespIds
  BY ChainOldest
<1>. HIDE DEF e
<1>2. /\ rid' \in RespIds
      /\ disp \in {0, Display} /\ acc \subseteq Items
  BY <1>1 DEF StateTyped, SendEntry, e
<1>3. net' = Append(net, g) /\ dbq' = D
      /\ UNCHANGED <<queue, known, busy, syncing, syncRef, finished>>
  BY DEF SendEntry, e
<1>4. a \in Frame /\ a.at = "sync" /\ a.rest = S
  BY DEF Frame, NetAwaits, Chains
<1>. HIDE DEF a
<1>5. g \in Frame /\ g.item = e.item /\ g.at = a.at /\ g.rest = a.rest
  BY <1>1, <1>2, <1>4, SendingIsFrame
<1>. HIDE DEF g
<1>6. g \in NetFrames /\ g.at = "sync"
  BY <1>1, <1>4, <1>5 DEF NetFrames, NetFrame, NetAwaits
<1>7. /\ DOMAIN Append(net, g) = {1} /\ Append(net, g)[1] = g
      /\ g.at = "sync" => Locks(TRUE, FALSE, D, Append(net, g))
  BY <1>6, LocksAppendNet
<1>8. \A q : Sent(q, net')
  BY <1>3, <1>6, <1>7 DEF Sent
<1>9. net' \in Seq(NetFrames) /\ Locks(TRUE, FALSE, dbq', net')
  BY <1>3, <1>6, <1>7, AppendProperties
<1>. QED  BY <1>2, <1>3, <1>8, <1>9

-----------------------------------------------------------------------------
(* The initial states satisfy the inductive invariant.                     *)
LEMMA InitIInv == Init => IInv
<1>. SUFFICES ASSUME Init PROVE IInv
  OBVIOUS
<1>1. /\ <<>> \in Seq(DbFrames) /\ <<>> \in Seq(NetFrames)
      /\ <<>> \in Seq(Response) /\ <<>> \in Seq(Items) /\ Len(<<>>) = 0
  BY EmptySeq
<1>2. DOMAIN <<>> = {}
  <2>1. DOMAIN <<>> = 1 .. 0
    BY <1>1, LenProperties
  <2>. QED  BY <2>1
<1>3. StateTyped
  <2>1. PICK k \in 0 .. MaxItems - 1 : acc = 1 .. k /\ boot = (k > 0) /\ next = k + 1
    BY DEF Init
  <2>2. acc \subseteq Items /\ boot \in BOOLEAN /\ next \in 1 .. MaxItems + 1
    BY <2>1, BoundsAssumption DEF Items
  <2>3. queue \in [Insts -> Seq(Items)]
    BY <1>1 DEF Init
  <2>4. /\ known \subseteq Items /\ cur \in Insts /\ rid \in RespIds /\ stale \subseteq Items
        /\ srv \in Seq(Response) /\ Len(srv) <= MaxResp
    BY <1>1, BoundsAssumption DEF Init, RespIds, Insts
  <2>. QED  BY <2>2, <2>3, <2>4 DEF Init, StateTyped
<1>4. Locks(syncing, busy, dbq, net)
  BY <1>1, <1>2 DEF Init, Locks, SyncsIn
<1>5. Sent(queue, net)
  BY <1>2 DEF Init, Sent
<1>. QED  BY <1>1, <1>3, <1>4, <1>5, ChainEmpty DEF Init, IInv, TypeInv

(* Each action keeps the inductive invariant, first those of the           *)
(* respondent and of the browser.                                          *)
LEMMA SubmitStep ==
  ASSUME IInv, Submit
  PROVE  IInv'
<1>. USE DEF IInv, TypeInv
<1>1. next \in Items /\ next + 1 \in 1 .. MaxItems + 1
  BY BoundsAssumption DEF Submit, StateTyped, Items
<1>2. /\ queue' \in [Insts -> Seq(Items)]
      /\ \A i \in Insts : queue[i] # <<>> => queue'[i] # <<>> /\ Head(queue'[i]) = Head(queue[i])
  <2>1. cur \in Insts /\ queue \in [Insts -> Seq(Items)]
    BY DEF StateTyped
  <2>2. queue' = [queue EXCEPT ![cur] = Append(queue[cur], next)]
    BY DEF Submit
  <2>3. /\ Append(queue[cur], next) \in Seq(Items) /\ Append(queue[cur], next) # <<>>
        /\ queue[cur] # <<>> => Head(Append(queue[cur], next)) = Head(queue[cur])
    BY <1>1, <2>1, AppendProperties, HeadTailAppend
  <2>. QED  BY <2>1, <2>2, <2>3
<1>3. Sent(queue', net)
  <2>1. \A k \in DOMAIN net : net[k].inst \in Insts
    BY LenProperties, ElementOfSeq DEF NetFrames, NetFrame, Frame
  <2>. QED  BY <1>2, <2>1 DEF Sent
<1>4. StateTyped' /\ dbq' \in Seq(DbFrames) /\ net' \in Seq(NetFrames)
      /\ Locks(syncing', busy', dbq', net') /\ Sent(queue', net')
  <2>1. CASE Persist
    <3>. DEFINE g == [Await("add", cur) EXCEPT !.item = next, !.rid = rid, !.disp = disp]
    <3>1. g \in Frame /\ g.rest = {} /\ g.at = "add" /\ g.item = next
      <4>1. /\ Await("add", cur) \in Frame /\ Await("add", cur).rest = {}
            /\ Await("add", cur).at = "add"
        BY AwaitIsFrame DEF StateTyped, DbAwaits, Await
      <4>. QED  BY <1>1, <4>1 DEF Frame, StateTyped
    <3>2. g \in DbFrames /\ ~ InSync(g)
      BY <1>1, <3>1, ChainEmpty DEF DbFrames, DbFrame, DbAwaits, InSync
    <3>3. dbq' = Append(dbq, g) /\ UNCHANGED <<rid, net, busy>>
      BY <2>1 DEF Submit
    <3>. HIDE DEF g
    <3>4. Locks(syncing, busy, dbq', net) /\ dbq' \in Seq(DbFrames)
      BY <3>2, <3>3, LocksAppendDb, AppendProperties DEF StateTyped
    <3>5. StateTyped'
      BY <1>1, <1>2, <3>3, ModeAssumption DEF StateTyped, Submit, OfflineFinish, remote
    <3>. QED  BY <1>3, <3>3, <3>4, <3>5 DEF Submit
  <2>2. CASE ~ Persist
    <3>1. rid' \in RespIds /\ ProcessQueue(cur, queue', busy, syncing, dbq, net, FALSE)
      BY <2>2 DEF Submit, StateTyped
    <3>2. /\ busy' \in BOOLEAN /\ dbq' \in Seq(DbFrames) /\ net' \in Seq(NetFrames)
          /\ Locks(syncing, busy', dbq', net') /\ Sent(queue', net')
      BY <1>2, <1>3, <3>1, ProcessQueueEffect DEF StateTyped
    <3>3. StateTyped'
      BY <1>1, <1>2, <3>1, <3>2, ModeAssumption
      DEF StateTyped, Submit, OfflineFinish, remote
    <3>. QED  BY <3>2, <3>3 DEF Submit
  <2>. QED  BY <2>1, <2>2
<1>. QED  BY <1>4 DEF Submit, remote

LEMMA UserRetryStep ==
  ASSUME IInv, UserRetry
  PROVE  IInv'
<1>. USE DEF IInv, TypeInv
<1>1. rid' \in RespIds /\ ProcessQueue(cur, queue, busy, syncing, dbq, net, TRUE)
  BY DEF UserRetry, StateTyped
<1>2. /\ busy' \in BOOLEAN /\ dbq' \in Seq(DbFrames) /\ net' \in Seq(NetFrames)
      /\ Locks(syncing, busy', dbq', net') /\ Sent(queue, net')
  BY <1>1, ProcessQueueEffect DEF StateTyped
<1>3. StateTyped'
  BY <1>1, <1>2 DEF UserRetry, StateTyped, ui, remote
<1>. QED  BY <1>2, <1>3 DEF UserRetry, remote

LEMMA DisplayCreatedStep ==
  ASSUME IInv, DisplayCreated
  PROVE  IInv'
<1>1. StateTyped'
  BY DEF IInv, TypeInv, DisplayCreated, StateTyped, locks, ui, remote
<1>. QED  BY <1>1 DEF IInv, TypeInv, DisplayCreated, locks, remote

LEMMA GoOfflineStep ==
  ASSUME IInv, GoOffline
  PROVE  IInv'
<1>1. StateTyped'
  BY ModeAssumption
  DEF IInv, TypeInv, GoOffline, StateTyped, OfflineFinish, local, locks, remote
<1>. QED  BY <1>1 DEF IInv, TypeInv, GoOffline, local, locks, remote

LEMMA GoOnlineStep ==
  ASSUME IInv, GoOnline
  PROVE  IInv'
<1>. USE DEF IInv, TypeInv
<1>1. online' \in BOOLEAN /\ RunEffect(cur) /\ cur \in Insts
  BY DEF GoOnline, StateTyped
<1>2. syncRef' \in BOOLEAN /\ dbq' \in Seq(DbFrames) /\ Locks(syncing, busy, dbq', net)
  BY <1>1, RunEffectEffect
<1>3. StateTyped'
  BY <1>1, <1>2 DEF GoOnline, StateTyped, local, locks, ui, remote
<1>. QED  BY <1>2, <1>3 DEF GoOnline, local, locks, remote

LEMMA RecreateStep ==
  ASSUME IInv, Recreate
  PROVE  IInv'
<1>. USE DEF IInv, TypeInv
<1>1. online' \in BOOLEAN /\ RunEffect(cur') /\ cur' \in Insts
  BY BoundsAssumption DEF Recreate, StateTyped, Insts
<1>2. syncRef' \in BOOLEAN /\ dbq' \in Seq(DbFrames) /\ Locks(syncing, busy, dbq', net)
  BY <1>1, RunEffectEffect
<1>3. StateTyped'
  BY <1>1, <1>2 DEF Recreate, StateTyped, locks, ui, remote
<1>. QED  BY <1>2, <1>3 DEF Recreate, locks, remote

-----------------------------------------------------------------------------
(* What every action that resumes the oldest IndexedDB request knows.      *)
LEMMA DbHead ==
  ASSUME IInv, dbq # <<>>
  PROVE  /\ Head(dbq) \in DbFrames /\ Head(dbq) \in Frame /\ Head(dbq).rest \in Chains
         /\ Head(dbq).inst \in Insts
         /\ Head(dbq).user \in BOOLEAN /\ Head(dbq).eff \in BOOLEAN
         /\ Tail(dbq) \in Seq(DbFrames)
         /\ ~ InSync(Head(dbq)) => Locks(syncing, busy, Tail(dbq), net)
         /\ InSync(Head(dbq)) => /\ syncing /\ ~ busy /\ net = <<>>
                                 /\ Locks(FALSE, FALSE, Tail(dbq), net)
<1>1. Head(dbq) \in DbFrames /\ Tail(dbq) \in Seq(DbFrames)
  BY HeadTailProperties DEF IInv, TypeInv
<1>2. Head(dbq) \in Frame /\ Head(dbq).rest \in Chains
  BY <1>1 DEF DbFrames, DbFrame
<1>3. /\ Head(dbq).inst \in Insts
      /\ Head(dbq).user \in BOOLEAN /\ Head(dbq).eff \in BOOLEAN
  BY <1>2 DEF Frame
<1>4. IF InSync(Head(dbq))
        THEN syncing /\ ~ busy /\ net = <<>> /\ Locks(FALSE, FALSE, Tail(dbq), net)
        ELSE Locks(syncing, busy, Tail(dbq), net)
  BY LocksTail DEF IInv, TypeInv, StateTyped
<1>. QED  BY <1>1, <1>2, <1>3, <1>4

(* Then the actions that resume a call waiting for IndexedDB.              *)
LEMMA AddDoneStep ==
  ASSUME IInv, AddDone
  PROVE  IInv'
<1>. USE DEF IInv, TypeInv
<1>. DEFINE f == Head(dbq)
            e == [item |-> f.item, rid |-> f.rid, disp |-> f.disp]
<1>1. dbq # <<>> /\ f.at = "add"
  BY DEF AddDone, DbAnswers
<1>2. /\ f \in DbFrames /\ f \in Frame /\ f.inst \in Insts /\ Tail(dbq) \in Seq(DbFrames)
      /\ Locks(syncing, busy, Tail(dbq), net)
  BY <1>1, DbHead DEF InSync
<1>3. f.item \in Items /\ e \in Entry
  BY <1>1, <1>2 DEF DbFrames, DbFrame, Frame, Entry
<1>. HIDE DEF e
<1>4. PICK o \in DbOutcomes :
        /\ idb' = IF o = "done" THEN idb \cup {e} ELSE idb
        /\ known' = IF o = "done" THEN known \cup {f.item} ELSE known
        /\ rid' = rid
        /\ IF o = "rejected"
             THEN dbq' = Tail(dbq) /\ UNCHANGED <<net, busy>>
             ELSE ProcessQueue(f.inst, queue, busy, syncing, Tail(dbq), net, FALSE)
  BY DEF AddDone, e
<1>. HIDE DEF f
<1>5. idb' \in Chains /\ known' \subseteq Items
  BY <1>3, <1>4, ChainAdd DEF StateTyped
<1>6. /\ busy' \in BOOLEAN /\ dbq' \in Seq(DbFrames) /\ net' \in Seq(NetFrames)
      /\ Locks(syncing, busy', dbq', net') /\ Sent(queue, net')
  <2>1. CASE o = "rejected"
    BY <1>2, <1>4, <2>1 DEF StateTyped
  <2>2. CASE o # "rejected"
    BY <1>2, <1>4, <2>2, ProcessQueueEffect DEF StateTyped
  <2>. QED  BY <2>1, <2>2
<1>7. StateTyped'
  BY <1>4, <1>5, <1>6 DEF AddDone, StateTyped, ui
<1>. QED  BY <1>5, <1>6, <1>7 DEF AddDone

LEMMA CountDoneStep ==
  ASSUME IInv, CountDone
  PROVE  IInv'
<1>. USE DEF IInv, TypeInv
<1>. DEFINE f == Head(dbq)
            a == [Await("pq", f.inst) EXCEPT !.user = f.user]
            g == Sending(a, Head(queue[f.inst]), rid, disp)
<1>1. dbq # <<>> /\ f.at = "count"
  BY DEF CountDone, DbAnswers
<1>2. /\ f \in Frame /\ f.inst \in Insts /\ f.user \in BOOLEAN
      /\ Tail(dbq) \in Seq(DbFrames) /\ Locks(syncing, busy, Tail(dbq), net)
  BY <1>1, DbHead DEF InSync
<1>3. \/ dbq' = Tail(dbq) /\ UNCHANGED <<busy, syncing, syncRef, net>>
      \/ StartSync(f.inst, Tail(dbq), FALSE) /\ UNCHANGED <<busy, net>>
      \/ /\ ~ Overtaken(f.inst)
         /\ busy' = TRUE /\ net' = Append(net, g) /\ dbq' = Tail(dbq)
         /\ UNCHANGED <<syncing, syncRef>>
  BY DEF CountDone
<1>. HIDE DEF f
<1>4. /\ busy' \in BOOLEAN /\ syncing' \in BOOLEAN /\ syncRef' \in BOOLEAN
      /\ dbq' \in Seq(DbFrames) /\ net' \in Seq(NetFrames)
      /\ Locks(syncing', busy', dbq', net') /\ Sent(queue, net')
  <2>1. CASE dbq' = Tail(dbq) /\ UNCHANGED <<busy, syncing, syncRef, net>>
    BY <1>2, <2>1 DEF StateTyped
  <2>2. CASE StartSync(f.inst, Tail(dbq), FALSE) /\ UNCHANGED <<busy, net>>
    BY <1>2, <2>2, StartSyncEffect DEF StateTyped
  <2>3. CASE /\ ~ Overtaken(f.inst)
             /\ busy' = TRUE /\ net' = Append(net, g) /\ dbq' = Tail(dbq)
             /\ UNCHANGED <<syncing, syncRef>>
    <3>1. ~ syncing /\ ~ busy /\ queue[f.inst] # <<>>
      BY <2>3 DEF Overtaken
    <3>2. Head(queue[f.inst]) \in Items
      BY <1>2, <3>1, HeadTailProperties DEF StateTyped
    <3>3. a \in Frame /\ a.rest = {} /\ a.at = "pq" /\ a.inst = f.inst
      <4>1. Await("pq", f.inst) \in Frame /\ Await("pq", f.inst).rest = {}
        BY <1>2, AwaitIsFrame DEF NetAwaits
      <4>2. Await("pq", f.inst).at = "pq" /\ Await("pq", f.inst).inst = f.inst
        BY DEF Await
      <4>. QED  BY <1>2, <4>1, <4>2 DEF Frame
    <3>. HIDE DEF a
    <3>4. rid \in RespIds /\ disp \in {0, Display} /\ acc \subseteq Items
      BY DEF StateTyped
    <3>5. /\ g \in Frame /\ g.item = Head(queue[f.inst])
          /\ g.at = a.at /\ g.inst = a.inst /\ g.rest = a.rest
      BY <3>2, <3>3, <3>4, SendingIsFrame
    <3>. HIDE DEF g
    <3>6. g \in NetFrames /\ g.at = "pq"
      BY <3>2, <3>3, <3>5, ChainEmpty DEF NetFrames, NetFrame, NetAwaits
    <3>7. Locks(FALSE, FALSE, Tail(dbq), net)
      BY <1>2, <3>1 DEF Locks
    <3>8. /\ DOMAIN Append(net, g) = {1} /\ Append(net, g)[1] = g
          /\ g.at = "pq" => Locks(FALSE, TRUE, Tail(dbq), Append(net, g))
      BY <1>2, <3>6, <3>7, LocksAppendNet
    <3>9. Sent(queue, net')
      BY <2>3, <3>1, <3>3, <3>5, <3>8 DEF Sent
    <3>10. net' \in Seq(NetFrames)
      BY <2>3, <3>6, AppendProperties
    <3>11. syncing' = FALSE /\ busy' = TRUE /\ Locks(FALSE, TRUE, dbq', net')
      BY <2>3, <3>1, <3>6, <3>8 DEF StateTyped
    <3>. QED  BY <1>2, <2>3, <3>9, <3>10, <3>11 DEF StateTyped
  <2>. QED  BY <1>3, <2>1, <2>2, <2>3
<1>5. StateTyped'
  BY <1>4 DEF CountDone, StateTyped, local, ui, remote
<1>. QED  BY <1>4, <1>5 DEF CountDone, local, remote

LEMMA PendingCountDoneStep ==
  ASSUME IInv, PendingCountDone
  PROVE  IInv'
<1>. USE DEF IInv, TypeInv
<1>. DEFINE f == Head(dbq)
<1>1. dbq # <<>> /\ f.at = "pcount"
  BY DEF PendingCountDone, DbAnswers
<1>2. /\ f.inst \in Insts /\ Tail(dbq) \in Seq(DbFrames)
      /\ Locks(syncing, busy, Tail(dbq), net)
  BY <1>1, DbHead DEF InSync
<1>3. \/ StartSync(f.inst, Tail(dbq), TRUE)
      \/ syncRef' = FALSE /\ dbq' = Tail(dbq) /\ UNCHANGED syncing
  BY DEF PendingCountDone
<1>. HIDE DEF f
<1>4. /\ syncing' \in BOOLEAN /\ syncRef' \in BOOLEAN /\ dbq' \in Seq(DbFrames)
      /\ Locks(syncing', busy, dbq', net)
  BY <1>2, <1>3, StartSyncEffect DEF StateTyped
<1>5. StateTyped'
  BY <1>4 DEF PendingCountDone, StateTyped, local, ui, remote
<1>. QED  BY <1>4, <1>5 DEF PendingCountDone, local, remote

LEMMA RemoveDoneStep ==
  ASSUME IInv, RemoveDone
  PROVE  IInv'
<1>. USE DEF IInv, TypeInv
<1>1. dbq # <<>> /\ Head(dbq).at = "del" /\ dbq' = Tail(dbq)
  BY DEF RemoveDone, DbAnswers
<1>2. dbq' \in Seq(DbFrames) /\ Locks(syncing, busy, dbq', net)
  BY <1>1, DbHead DEF InSync
<1>3. idb' \in SUBSET idb
  BY DEF RemoveDone, Without
<1>4. idb' \in Chains
  BY <1>3, ChainSub
<1>5. StateTyped'
  BY DEF RemoveDone, StateTyped, local, locks, ui
<1>. QED  BY <1>2, <1>4, <1>5 DEF RemoveDone, local, locks

LEMMA EndSyncTyped ==
  ASSUME StateTyped, NEW f \in Frame, NEW ok \in BOOLEAN, EndSync(f, ok)
  PROVE  syncing' = FALSE /\ syncRef' \in BOOLEAN /\ finished' \in BOOLEAN
BY DEF StateTyped, EndSync, Frame

LEMMA GetDoneStep ==
  ASSUME IInv, GetDone
  PROVE  IInv'
<1>. USE DEF IInv, TypeInv
<1>. DEFINE f == Head(dbq)
            a == [f EXCEPT !.len = Len(queue[f.inst])]
<1>1. dbq # <<>> /\ f.at = "get"
  BY DEF GetDone, DbAnswers
<1>2. /\ f \in Frame /\ f.inst \in Insts /\ Tail(dbq) \in Seq(DbFrames)
      /\ syncing /\ ~ busy /\ net = <<>>
      /\ Locks(FALSE, FALSE, Tail(dbq), net)
  BY <1>1, DbHead DEF InSync
<1>3. \/ idb # {} /\ SendEntry(a, idb, Tail(dbq))
      \/ /\ \E ok \in BOOLEAN : EndSync(f, ok)
         /\ dbq' = Tail(dbq)
         /\ UNCHANGED <<queue, known, rid, net, busy>>
  BY DEF GetDone
<1>. HIDE DEF f
<1>4. a \in Frame
  <2>1. Len(queue[f.inst]) \in Nat
    BY <1>2, LenProperties DEF StateTyped
  <2>. QED  BY <1>2, <2>1 DEF Frame
<1>. HIDE DEF a
<1>5. CASE idb # {} /\ SendEntry(a, idb, Tail(dbq))
  <2>1. /\ rid' \in RespIds /\ dbq' = Tail(dbq) /\ net' \in Seq(NetFrames)
        /\ Locks(TRUE, FALSE, dbq', net')
        /\ \A q : Sent(q, net')
        /\ UNCHANGED <<queue, known, busy, syncing, syncRef, finished>>
    BY <1>2, <1>4, <1>5, SendEntryEffect
  <2>2. StateTyped'
    BY <2>1 DEF GetDone, StateTyped, remote
  <2>3. Locks(syncing', busy', dbq', net')
    BY <1>2, <2>1 DEF Locks
  <2>4. idb' = idb
    BY DEF GetDone, remote
  <2>. QED  BY <1>2, <2>1, <2>2, <2>3, <2>4
<1>6. CASE /\ \E ok \in BOOLEAN : EndSync(f, ok)
           /\ dbq' = Tail(dbq)
           /\ UNCHANGED <<queue, known, rid, net, busy>>
  <2>1. syncing' = FALSE /\ syncRef' \in BOOLEAN /\ finished' \in BOOLEAN
    BY <1>2, <1>6, EndSyncTyped
  <2>2. StateTyped'
    BY <1>6, <2>1 DEF GetDone, StateTyped, remote
  <2>3. Locks(syncing', busy', dbq', net')
    BY <1>2, <1>6, <2>1 DEF Locks
  <2>. QED  BY <1>2, <1>6, <2>2, <2>3 DEF GetDone, remote
<1>. QED  BY <1>3, <1>5, <1>6

(* The end of a sync cuts the queue; its call of processQueue does         *)
(* nothing, because the sync lock is still held.                           *)
LEMMA CompleteSyncEffect ==
  ASSUME StateTyped, NEW f \in Frame, f.inst \in Insts,
         NEW D \in Seq(DbFrames), net \in Seq(NetFrames), net = <<>>,
         syncing, ~ busy, CompleteSync(f, D)
  PROVE  /\ queue' \in [Insts -> Seq(Items)] /\ known' \subseteq known /\ rid' = rid
         /\ dbq' = D /\ net' = net /\ busy' = busy
         /\ syncing' = FALSE /\ syncRef' \in BOOLEAN /\ finished' \in BOOLEAN
<1>. DEFINE i == f.inst
            s == SubSeq(queue[i], f.len + 1, Len(queue[i]))
<1>1. s \in Seq(Items)
  <2>1. queue[i] \in Seq(Items) /\ f.len \in Nat
    BY DEF StateTyped, Frame
  <2>2. /\ Len(queue[i]) \in Int /\ f.len + 1 \in Int
        /\ \A j \in f.len + 1 .. Len(queue[i]) : queue[i][j] \in Items
    BY <2>1, LenProperties, ElementOfSeq
  <2>. QED  BY <2>2, SubSeqProperties
<1>2. queue' = [queue EXCEPT ![i] = s]
  BY DEF CompleteSync
<1>. HIDE DEF s
<1>3. queue' \in [Insts -> Seq(Items)]
  BY <1>1, <1>2 DEF StateTyped
<1>4. ProcessQueue(i, queue', busy, syncing, D, net, FALSE)
  BY DEF CompleteSync
<1>5. dbq' = D /\ net' = net /\ busy' = busy
  BY <1>4 DEF ProcessQueue, MayProcess, StateTyped
<1>6. syncing' = FALSE /\ syncRef' \in BOOLEAN /\ finished' \in BOOLEAN
  BY EndSyncTyped DEF CompleteSync
<1>. QED  BY <1>3, <1>5, <1>6 DEF CompleteSync

LEMMA SyncRemoveDoneStep ==
  ASSUME IInv, SyncRemoveDone
  PROVE  IInv'
<1>. USE DEF IInv, TypeInv
<1>. DEFINE f == Head(dbq)
            S == {e \in f.rest : e.item # f.item}
<1>1. dbq # <<>> /\ f.at = "syncdel"
  BY DEF SyncRemoveDone, DbAnswers
<1>2. /\ f \in Frame /\ f.inst \in Insts /\ Tail(dbq) \in Seq(DbFrames)
      /\ f.rest \in Chains
      /\ syncing /\ ~ busy /\ net = <<>>
      /\ Locks(FALSE, FALSE, Tail(dbq), net)
  BY <1>1, DbHead DEF InSync
<1>3. \/ /\ EndSync(f, FALSE) /\ dbq' = Tail(dbq)
         /\ UNCHANGED <<queue, known, rid, net, busy>>
      \/ S # {} /\ SendEntry(f, S, Tail(dbq))
      \/ CompleteSync(f, Tail(dbq))
  BY DEF SyncRemoveDone
<1>4. idb' \in SUBSET idb
  BY DEF SyncRemoveDone, Without
<1>. HIDE DEF f
<1>5. idb' \in Chains /\ S \in Chains
  BY <1>2, <1>4, ChainSub
<1>. HIDE DEF S
<1>6. CASE /\ EndSync(f, FALSE) /\ dbq' = Tail(dbq)
           /\ UNCHANGED <<queue, known, rid, net, busy>>
  <2>1. syncing' = FALSE /\ syncRef' \in BOOLEAN /\ finished' \in BOOLEAN
    BY <1>2, <1>6, EndSyncTyped
  <2>2. StateTyped'
    BY <1>6, <2>1 DEF SyncRemoveDone, StateTyped
  <2>3. Locks(syncing', busy', dbq', net')
    BY <1>2, <1>6, <2>1 DEF Locks
  <2>. QED  BY <1>2, <1>5, <1>6, <2>2, <2>3
<1>7. CASE S # {} /\ SendEntry(f, S, Tail(dbq))
  <2>1. /\ rid' \in RespIds /\ dbq' = Tail(dbq) /\ net' \in Seq(NetFrames)
        /\ Locks(TRUE, FALSE, dbq', net')
        /\ \A q : Sent(q, net')
        /\ UNCHANGED <<queue, known, busy, syncing, syncRef, finished>>
    BY <1>2, <1>5, <1>7, SendEntryEffect
  <2>2. StateTyped'
    BY <2>1 DEF SyncRemoveDone, StateTyped
  <2>3. Locks(syncing', busy', dbq', net')
    BY <1>2, <2>1 DEF Locks
  <2>. QED  BY <1>2, <1>5, <2>1, <2>2, <2>3
<1>8. CASE CompleteSync(f, Tail(dbq))
  <2>1. /\ queue' \in [Insts -> Seq(Items)] /\ known' \subseteq known /\ rid' = rid
        /\ dbq' = Tail(dbq) /\ net' = net /\ busy' = busy
        /\ syncing' = FALSE /\ syncRef' \in BOOLEAN /\ finished' \in BOOLEAN
    BY <1>2, <1>8, CompleteSyncEffect
  <2>2. StateTyped'
    BY <2>1 DEF SyncRemoveDone, StateTyped
  <2>3. Locks(syncing', busy', dbq', net')
    BY <1>2, <2>1 DEF Locks
  <2>4. Sent(queue', net')
    <3>1. DOMAIN net = {}
      <4>1. DOMAIN net = 1 .. 0
        BY <1>2, LenProperties, EmptySeq
      <4>. QED  BY <4>1
    <3>. QED  BY <2>1, <3>1 DEF Sent
  <2>. QED  BY <1>2, <1>5, <2>1, <2>2, <2>3, <2>4
<1>. QED  BY <1>3, <1>6, <1>7, <1>8

-----------------------------------------------------------------------------
(* Then the actions that resume a call waiting for the network or a timer. *)
LEMMA NetFrameTyped ==
  ASSUME IInv, NEW k \in 1 .. Len(net)
  PROVE  /\ net[k] \in NetFrames /\ net[k] \in Frame
         /\ net[k].item \in Items /\ net[k].inst \in Insts
         /\ net[k].at = "pq" \/ net[k].at = "sync"
         /\ net[k].rest \in Chains /\ (net[k].at = "sync" => net[k].rest # {})
         /\ net[k].new \in RespIds /\ net[k].rid \in RespIds /\ net[k].att \in Nat
         /\ net[k].data \in SUBSET Items /\ net[k].disp \in {0, Display}
BY ElementOfSeq DEF IInv, TypeInv, NetFrames, NetFrame, NetAwaits, Frame

(* A frame in net may be replaced by one of the same call and answer.      *)
LEMMA Resend ==
  ASSUME IInv, NEW k \in 1 .. Len(net), NEW g \in NetFrames,
         g.at = net[k].at, g.inst = net[k].inst, g.item = net[k].item,
         net' = ReplaceAt(net, k, g)
  PROVE  /\ net' \in Seq(NetFrames) /\ Locks(syncing, busy, dbq, net')
         /\ Sent(queue, net')
<1>1. /\ k = 1 /\ DOMAIN net = {1}
      /\ net' \in Seq(NetFrames) /\ Locks(syncing, busy, dbq, net')
      /\ DOMAIN net' = {1} /\ net'[1] = g
  BY OneRequest
<1>. QED  BY <1>1 DEF IInv, Sent

LEMMA ServerReplyStep ==
  ASSUME IInv, NEW k \in 1 .. Len(net), ServerReply(k)
  PROVE  IInv'
<1>. DEFINE f == net[k]
<1>0. /\ f \in NetFrames /\ f \in Frame /\ f.rid \in RespIds /\ f.disp \in {0, Display}
      /\ f.data \in SUBSET Items /\ f.item \in Items /\ f.rest \in Chains
      /\ f.at = "sync" => f.rest # {}
      /\ f.at = "pq" \/ f.at = "sync"
  BY NetFrameTyped
<1>1. srv \in Seq(Response) /\ Len(srv) <= MaxResp /\ Len(srv) \in Nat /\ MaxResp \in Nat
  BY BoundsAssumption, LenProperties DEF IInv, TypeInv, StateTyped
<1>2. ASSUME NEW full \in BOOLEAN, f.rid = 0, CommitCreate(f, full)
      PROVE  srv' \in Seq(Response) /\ Len(srv') \in RespIds
  <2>. DEFINE r == [disp |-> f.disp, got |-> f.data,
                    fin |-> full \/ Finishes(f), gone |-> FALSE]
  <2>1. r \in Response
    BY <1>0 DEF Response, Finishes
  <2>2. srv' = Append(srv, r) /\ Len(srv) < MaxResp
    BY <1>2 DEF CommitCreate
  <2>. HIDE DEF r
  <2>3. Append(srv, r) \in Seq(Response) /\ Len(Append(srv, r)) = Len(srv) + 1
    BY <1>1, <2>1, AppendProperties
  <2>. QED  BY <1>1, <2>2, <2>3 DEF RespIds
<1>3. ASSUME NEW full \in BOOLEAN, CommitUpdate(f, full)
      PROVE  srv' \in Seq(Response) /\ Len(srv') \in RespIds
  <2>1. /\ f.rid \in 1 .. Len(srv)
        /\ srv' = [srv EXCEPT ![f.rid].got = @ \cup f.data,
                                ![f.rid].fin = full \/ Finishes(f)]
    BY <1>3 DEF CommitUpdate, Stored
  <2>2. srv[f.rid] \in Response
    BY <1>1, <2>1, ElementOfSeq
  <2>. DEFINE r == [srv[f.rid] EXCEPT !.got = @ \cup f.data, !.fin = full \/ Finishes(f)]
  <2>3. r \in Response
    BY <1>0, <2>2 DEF Response, Finishes
  <2>4. srv' = [srv EXCEPT ![f.rid] = r]
    BY <1>1, <2>1, <2>2, LenProperties DEF Response
  <2>. HIDE DEF r
  <2>5. srv' \in Seq(Response) /\ Len(srv') = Len(srv)
    BY <1>1, <2>1, <2>3, <2>4, ExceptSeq
  <2>. QED  BY <1>1, <2>5 DEF RespIds
<1>4. srv' \in Seq(Response) /\ Len(srv') \in RespIds
  <2>1. srv' = srv \/ \E full \in BOOLEAN : \/ f.rid = 0 /\ CommitCreate(f, full)
                                           \/ CommitUpdate(f, full)
    BY DEF ServerReply
  <2>. QED  BY <1>1, <1>2, <1>3, <2>1 DEF RespIds
<1>5. PICK st \in Replies, id \in RespIds :
        net' = ReplaceAt(net, k, [f EXCEPT !.st = st, !.new = id])
  <2>. DEFINE Reply(st, id) == net' = ReplaceAt(net, k, [f EXCEPT !.st = st, !.new = id])
  <2>1. \/ \E st \in Committed :
             Reply(st, IF f.rid = 0 /\ st \in {"ok", "quota"} THEN Len(srv') ELSE 0)
        \/ \E st \in {"404", "4xx", "recaptcha", "5xx", "neterr"} : Reply(st, 0)
    BY DEF ServerReply
  <2>2. 0 \in RespIds
    BY <1>1 DEF RespIds
  <2>3. /\ Committed \subseteq Replies
        /\ {"404", "4xx", "recaptcha", "5xx", "neterr"} \subseteq Replies
    BY DEF Committed, Replies, Refusals
  <2>. HIDE DEF Reply
  <2>4. \E st \in Replies, id \in RespIds : Reply(st, id)
    BY <1>4, <2>1, <2>2, <2>3
  <2>. QED  BY <2>4 DEF Reply
<1>. DEFINE g == [f EXCEPT !.st = st, !.new = id]
<1>6. g \in Frame /\ g.at = f.at /\ g.inst = f.inst /\ g.item = f.item /\ g.rest = f.rest
  BY <1>0 DEF Frame
<1>. HIDE DEF g
<1>7. g \in NetFrames
  BY <1>0, <1>6 DEF NetFrames, NetFrame, NetAwaits
<1>8. net' \in Seq(NetFrames) /\ Locks(syncing, busy, dbq, net') /\ Sent(queue, net')
  BY <1>5, <1>6, <1>7, Resend DEF g
<1>9. srv' \in Seq(Response) /\ Len(srv') <= MaxResp
  BY <1>1, <1>4 DEF RespIds
<1>10. StateTyped'
  BY <1>9 DEF IInv, TypeInv, ServerReply, StateTyped, local, locks, ui
<1>. QED  BY <1>8, <1>10 DEF IInv, TypeInv, ServerReply, local, locks

LEMMA DeleteResponseStep ==
  ASSUME IInv, DeleteResponse
  PROVE  IInv'
<1>1. PICK r \in 1 .. Len(srv) : srv' = [srv EXCEPT ![r].gone = TRUE]
  BY DEF DeleteResponse
<1>2. srv \in Seq(Response) /\ Len(srv) <= MaxResp
  BY DEF IInv, TypeInv, StateTyped
<1>3. srv[r] \in Response
  BY <1>2, ElementOfSeq
<1>. DEFINE e == [srv[r] EXCEPT !.gone = TRUE]
<1>4. e \in Response
  BY <1>3 DEF Response
<1>5. srv' = [srv EXCEPT ![r] = e]
  BY <1>1
<1>. HIDE DEF e
<1>6. srv' \in Seq(Response) /\ Len(srv') = Len(srv)
  BY <1>2, <1>4, <1>5, ExceptSeq
<1>7. StateTyped'
  BY <1>2, <1>6 DEF IInv, TypeInv, DeleteResponse, StateTyped, local, locks, ui
<1>. QED  BY <1>7 DEF IInv, TypeInv, DeleteResponse, local, locks

LEMMA PqAcceptedStep ==
  ASSUME IInv, NEW k \in 1 .. Len(net), PqAccepted(k)
  PROVE  IInv'
<1>. USE DEF IInv, TypeInv
<1>. DEFINE f == net[k]
            i == f.inst
            d == [Await("del", i) EXCEPT !.item = f.item]
            D == IF f.item \in known THEN Append(dbq, d) ELSE dbq
<1>1. f.item \in Items /\ i \in Insts /\ f.new \in RespIds
  BY NetFrameTyped
<1>2. f.at = "pq"
  BY DEF PqAccepted
<1>3. /\ RemoveAt(net, k) = <<>> /\ <<>> \in Seq(NetFrames)
      /\ busy /\ ~ syncing /\ Locks(FALSE, FALSE, dbq, <<>>)
  BY <1>2, OneRequest
<1>4. D \in Seq(DbFrames) /\ Locks(FALSE, FALSE, D, <<>>)
  <2>1. d \in DbFrames /\ d.at = "del"
    BY <1>1, AwaitIsDbFrame DEF DbAwaits
  <2>2. ~ InSync(d)
    BY <2>1 DEF InSync
  <2>. HIDE DEF d
  <2>. QED  BY <1>3, <2>1, <2>2, LocksAppendDb, AppendProperties
<1>5. queue' \in [Insts -> Seq(Items)]
  <2>1. queue[i] \in Seq(Items)
    BY <1>1 DEF StateTyped
  <2>2. Shift(queue[i]) \in Seq(Items)
    BY <2>1, HeadTailProperties DEF Shift
  <2>. QED  BY <2>2 DEF PqAccepted, StateTyped
<1>6. rid' \in RespIds /\ boot' \in BOOLEAN
  BY <1>1 DEF PqAccepted, Adopt, StateTyped
<1>7. ProcessQueue(i, queue', FALSE, syncing, D, <<>>, FALSE)
  BY <1>3 DEF PqAccepted
<1>8. Sent(queue', <<>>)
  <2>1. DOMAIN <<>> = 1 .. 0
    BY <1>3, LenProperties, EmptySeq
  <2>. QED  BY <2>1 DEF Sent
<1>9. Locks(syncing, FALSE, D, <<>>)
  BY <1>3, <1>4 DEF StateTyped
<1>. HIDE DEF D, i
<1>10. /\ busy' \in BOOLEAN /\ dbq' \in Seq(DbFrames) /\ net' \in Seq(NetFrames)
       /\ Locks(syncing, busy', dbq', net') /\ Sent(queue', net')
  <2>1. i \in Insts
    BY <1>1 DEF i
  <2>2. D \in Seq(DbFrames) /\ <<>> \in Seq(NetFrames)
    BY <1>3, <1>4
  <2>. QED  BY <1>5, <1>6, <1>7, <1>8, <1>9, <2>1, <2>2, ProcessQueueEffect
<1>11. StateTyped'
  BY <1>5, <1>6, <1>10 DEF PqAccepted, StateTyped, remote, Finishing
<1>. QED  BY <1>10, <1>11 DEF PqAccepted, remote

(* After giving up on an answer, nothing is being sent.                    *)
LEMMA NothingSent ==
  ASSUME IInv, NEW k \in 1 .. Len(net), net' = RemoveAt(net, k)
  PROVE  /\ net' \in Seq(NetFrames) /\ \A q : Sent(q, net')
         /\ Locks(FALSE, FALSE, dbq, net')
<1>1. net' = <<>> /\ <<>> \in Seq(NetFrames)
  BY OneRequest
<1>2. Locks(FALSE, FALSE, dbq, net')
  BY <1>1, OneRequest, NetFrameTyped
<1>3. DOMAIN net' = {}
  <2>1. DOMAIN <<>> = 1 .. 0
    BY <1>1, LenProperties, EmptySeq
  <2>. QED  BY <1>1, <2>1
<1>. QED  BY <1>1, <1>2, <1>3 DEF Sent

LEMMA GiveUpEffect ==
  ASSUME IInv, NEW k \in 1 .. Len(net), net[k].at = "pq",
         NEW e \in {"send", "recaptcha"}, GiveUp(k, e)
  PROVE  /\ busy' = FALSE /\ err' \in {"none", "send", "recaptcha"}
         /\ net' \in Seq(NetFrames) /\ Locks(syncing, FALSE, dbq, net')
         /\ Sent(queue, net')
<1>1. net' \in Seq(NetFrames) /\ Sent(queue, net') /\ Locks(FALSE, FALSE, dbq, net')
  BY NothingSent DEF GiveUp
<1>2. syncing = FALSE
  BY OneRequest DEF IInv, TypeInv, StateTyped
<1>. QED  BY <1>1, <1>2 DEF GiveUp, IInv, TypeInv, StateTyped

LEMMA PqRefusedStep ==
  ASSUME IInv, NEW k \in 1 .. Len(net), PqRefused(k)
  PROVE  IInv'
<1>. DEFINE g == [net[k] EXCEPT !.st = "timer"]
<1>1. net[k].at = "pq"
  BY DEF PqRefused
<1>2. /\ busy' \in BOOLEAN /\ err' \in {"none", "send", "recaptcha"}
      /\ net' \in Seq(NetFrames) /\ Locks(syncing, busy', dbq, net') /\ Sent(queue, net')
  <2>1. CASE GiveUp(k, "recaptcha")
    BY <1>1, <2>1, GiveUpEffect
  <2>2. CASE net' = ReplaceAt(net, k, g) /\ UNCHANGED <<busy, err>>
    <3>1. /\ g \in Frame /\ g.at = "pq" /\ g.inst = net[k].inst
          /\ g.item = net[k].item /\ g.rest = net[k].rest
      BY <1>1, NetFrameTyped DEF Frame
    <3>. HIDE DEF g
    <3>2. g \in NetFrames
      BY <1>1, <3>1, NetFrameTyped DEF NetFrames, NetFrame, NetAwaits
    <3>3. /\ net' \in Seq(NetFrames) /\ Locks(syncing, busy, dbq, net')
          /\ Sent(queue, net')
      BY <1>1, <2>2, <3>1, <3>2, Resend
    <3>. QED  BY <2>2, <3>3 DEF IInv, TypeInv, StateTyped
  <2>. QED  BY <2>1, <2>2 DEF PqRefused
<1>3. StateTyped'
  BY <1>2 DEF IInv, TypeInv, PqRefused, StateTyped, local, remote
<1>. QED  BY <1>2, <1>3 DEF IInv, TypeInv, PqRefused, local, remote

(* Sending a frame of net again leaves it a frame of the same call.        *)
LEMMA SendAgain ==
  ASSUME IInv, NEW k \in 1 .. Len(net), NEW f \in Frame,
         f.at = net[k].at, f.inst = net[k].inst, f.rest = net[k].rest,
         NEW r \in RespIds, NEW d \in {0, Display},
         net' = ReplaceAt(net, k, Sending(f, net[k].item, r, d))
  PROVE  /\ net' \in Seq(NetFrames) /\ Locks(syncing, busy, dbq, net')
         /\ Sent(queue, net')
<1>. DEFINE g == Sending(f, net[k].item, r, d)
<1>1. acc \subseteq Items /\ net[k].item \in Items
  BY NetFrameTyped DEF IInv, TypeInv, StateTyped
<1>2. /\ g \in Frame /\ g.item = net[k].item
      /\ g.at = f.at /\ g.inst = f.inst /\ g.rest = f.rest
  BY <1>1, SendingIsFrame
<1>. HIDE DEF g
<1>3. g \in NetFrames
  BY <1>1, <1>2, NetFrameTyped DEF NetFrames, NetFrame, NetAwaits
<1>. QED  BY <1>2, <1>3, Resend DEF g

LEMMA BackoffEndsStep ==
  ASSUME IInv, NEW k \in 1 .. Len(net), BackoffEnds(k)
  PROVE  IInv'
<1>. DEFINE f == [net[k] EXCEPT !.att = @ + 1]
<1>1. net[k].at = "pq"
  BY DEF BackoffEnds
<1>2. /\ f \in Frame /\ f.at = net[k].at /\ f.inst = net[k].inst
      /\ f.item = net[k].item /\ f.rest = net[k].rest
  BY NetFrameTyped DEF Frame
<1>3. \/ /\ net' = ReplaceAt(net, k, Sending(f, f.item, rid, disp))
         /\ UNCHANGED <<busy, err>>
      \/ GiveUp(k, "send")
  BY DEF BackoffEnds
<1>. HIDE DEF f
<1>4. /\ busy' \in BOOLEAN /\ err' \in {"none", "send", "recaptcha"}
      /\ net' \in Seq(NetFrames) /\ Locks(syncing, busy', dbq, net') /\ Sent(queue, net')
  <2>1. CASE GiveUp(k, "send")
    BY <1>1, <2>1, GiveUpEffect
  <2>2. CASE /\ net' = ReplaceAt(net, k, Sending(f, f.item, rid, disp))
             /\ UNCHANGED <<busy, err>>
    <3>1. rid \in RespIds /\ disp \in {0, Display} /\ busy \in BOOLEAN
          /\ err \in {"none", "send", "recaptcha"}
      BY DEF IInv, TypeInv, StateTyped
    <3>2. /\ net' \in Seq(NetFrames) /\ Locks(syncing, busy, dbq, net')
          /\ Sent(queue, net')
      BY <1>2, <2>2, <3>1, SendAgain
    <3>. QED  BY <2>2, <3>1, <3>2
  <2>. QED  BY <1>3, <2>1, <2>2
<1>5. StateTyped'
  BY <1>4 DEF IInv, TypeInv, BackoffEnds, StateTyped, local, remote
<1>. QED  BY <1>4, <1>5 DEF IInv, TypeInv, BackoffEnds, local, remote

LEMMA SyncRepliedStep ==
  ASSUME IInv, NEW k \in 1 .. Len(net), SyncReplied(k)
  PROVE  IInv'
<1>. DEFINE f == net[k]
            e == Oldest(f.rest)
            a == [f EXCEPT !.at = "syncdel", !.st = "none", !.some = TRUE]
            b == [f EXCEPT !.at = "syncdel", !.st = "none"]
<1>1. f.at = "sync"
  BY DEF SyncReplied
<1>2. /\ f \in Frame /\ f.item \in Items /\ f.rest \in Chains /\ f.rest # {}
      /\ f.new \in RespIds
  BY <1>1, NetFrameTyped
<1>3. e.disp \in {0, Display}
  BY <1>2, ChainOldest
<1>4. syncing = TRUE /\ busy = FALSE /\ Locks(FALSE, FALSE, dbq, <<>>)
      /\ RemoveAt(net, k) = <<>> /\ dbq \in Seq(DbFrames)
  BY <1>1, OneRequest DEF IInv, TypeInv, StateTyped
<1>5. /\ a \in DbFrames /\ InSync(a) /\ b \in DbFrames /\ InSync(b)
  <2>1. /\ a \in Frame /\ a.at = "syncdel" /\ a.rest = f.rest
        /\ b \in Frame /\ b.at = "syncdel" /\ b.rest = f.rest
    BY <1>2 DEF Frame, DbAwaits, Replies
  <2>. HIDE DEF a, b
  <2>. QED  BY <1>2, <2>1 DEF DbFrames, DbFrame, DbAwaits, InSync
<1>6. \/ /\ Adopt(f) /\ dbq' = Append(dbq, a) /\ net' = RemoveAt(net, k)
         /\ UNCHANGED <<disp, syncing, syncRef, finished, stale>>
      \/ /\ rid' = 0
         /\ disp' = (IF e.disp # 0 THEN e.disp ELSE disp)
         /\ net' = ReplaceAt(net, k, Sending(f, f.item, 0, disp'))
         /\ UNCHANGED <<boot, dbq, syncing, syncRef, finished, stale>>
      \/ /\ stale' = stale \cup {f.item}
         /\ dbq' = Append(dbq, b) /\ net' = RemoveAt(net, k)
         /\ UNCHANGED <<rid, boot, disp, syncing, syncRef, finished>>
      \/ /\ EndSync(f, FALSE) /\ net' = RemoveAt(net, k)
         /\ UNCHANGED <<rid, boot, disp, dbq, stale>>
  BY DEF SyncReplied
<1>. HIDE DEF f, e, a, b
<1>7. /\ rid' \in RespIds /\ boot' \in BOOLEAN /\ disp' \in {0, Display}
      /\ syncing' \in BOOLEAN /\ syncRef' \in BOOLEAN /\ finished' \in BOOLEAN
      /\ stale' \subseteq Items
      /\ dbq' \in Seq(DbFrames) /\ net' \in Seq(NetFrames)
      /\ Locks(syncing', busy, dbq', net') /\ Sent(queue, net')
  <2>0. /\ rid \in RespIds /\ boot \in BOOLEAN /\ disp \in {0, Display}
        /\ syncRef \in BOOLEAN /\ finished \in BOOLEAN /\ stale \subseteq Items
        /\ 0 \in RespIds
    BY BoundsAssumption DEF IInv, TypeInv, StateTyped, RespIds
  <2>1. CASE /\ Adopt(f) /\ dbq' = Append(dbq, a) /\ net' = RemoveAt(net, k)
             /\ UNCHANGED <<disp, syncing, syncRef, finished, stale>>
    <3>1. net' \in Seq(NetFrames) /\ Sent(queue, net') /\ Locks(FALSE, FALSE, dbq, net')
      BY <2>1, NothingSent
    <3>2. dbq' \in Seq(DbFrames) /\ Locks(TRUE, FALSE, dbq', net')
      BY <1>4, <1>5, <2>1, <3>1, LocksAppendDb, AppendProperties
    <3>3. rid' \in RespIds /\ boot' \in BOOLEAN
      BY <1>2, <2>0, <2>1 DEF Adopt
    <3>. QED  BY <1>4, <2>0, <2>1, <3>1, <3>2, <3>3
  <2>2. CASE /\ rid' = 0
             /\ disp' = (IF e.disp # 0 THEN e.disp ELSE disp)
             /\ net' = ReplaceAt(net, k, Sending(f, f.item, 0, disp'))
             /\ UNCHANGED <<boot, dbq, syncing, syncRef, finished, stale>>
    <3>1. disp' \in {0, Display}
      BY <1>3, <2>0, <2>2
    <3>2. /\ net' \in Seq(NetFrames) /\ Locks(syncing, busy, dbq, net')
          /\ Sent(queue, net')
      BY <1>2, <2>0, <2>2, <3>1, SendAgain DEF f
    <3>. QED  BY <1>4, <2>0, <2>2, <3>1, <3>2
  <2>3. CASE /\ stale' = stale \cup {f.item}
             /\ dbq' = Append(dbq, b) /\ net' = RemoveAt(net, k)
             /\ UNCHANGED <<rid, boot, disp, syncing, syncRef, finished>>
    <3>1. net' \in Seq(NetFrames) /\ Sent(queue, net') /\ Locks(FALSE, FALSE, dbq, net')
      BY <2>3, NothingSent
    <3>2. dbq' \in Seq(DbFrames) /\ Locks(TRUE, FALSE, dbq', net')
      BY <1>4, <1>5, <2>3, <3>1, LocksAppendDb, AppendProperties
    <3>. QED  BY <1>2, <1>4, <2>0, <2>3, <3>1, <3>2
  <2>4. CASE /\ EndSync(f, FALSE) /\ net' = RemoveAt(net, k)
             /\ UNCHANGED <<rid, boot, disp, dbq, stale>>
    <3>1. net' \in Seq(NetFrames) /\ Sent(queue, net') /\ Locks(FALSE, FALSE, dbq, net')
      BY <2>4, NothingSent
    <3>2. syncing' = FALSE /\ syncRef' \in BOOLEAN /\ finished' \in BOOLEAN
      BY <1>2, <2>4, EndSyncTyped DEF IInv, TypeInv
    <3>. QED  BY <1>4, <2>0, <2>4, <3>1, <3>2
  <2>. QED  BY <1>6, <2>1, <2>2, <2>3, <2>4
<1>8. StateTyped'
  BY <1>7 DEF IInv, TypeInv, SyncReplied, StateTyped, remote
<1>. QED  BY <1>7, <1>8 DEF IInv, TypeInv, SyncReplied, remote

-----------------------------------------------------------------------------
(* The invariant is inductive: every step is one of the above or a         *)
(* stutter.                                                                *)
LEMMA StepIInv == IInv /\ [Next]_vars => IInv'
<1>. SUFFICES ASSUME IInv, [Next]_vars PROVE IInv'
  OBVIOUS
<1>1. CASE DbStep
  BY <1>1, AddDoneStep, CountDoneStep, PendingCountDoneStep, RemoveDoneStep,
     GetDoneStep, SyncRemoveDoneStep DEF DbStep
<1>2. CASE NetStep
  BY <1>2, ServerReplyStep, PqAcceptedStep, PqRefusedStep, BackoffEndsStep,
     SyncRepliedStep DEF NetStep
<1>3. CASE UserStep
  BY <1>3, SubmitStep, UserRetryStep, RecreateStep DEF UserStep
<1>4. CASE EnvStep
  BY <1>4, DisplayCreatedStep, GoOfflineStep, GoOnlineStep, DeleteResponseStep
  DEF EnvStep
<1>5. CASE UNCHANGED vars
  BY <1>5 DEF vars, IInv, TypeInv, StateTyped, Locks, Sent, SyncsIn
<1>. QED  BY <1>1, <1>2, <1>3, <1>4, <1>5 DEF Next

(* It implies the three invariants of the component.                       *)
LEMMA IInvImplies == IInv => TypeOK /\ OneSenderPerSurvey /\ SentIsHead
<1>. SUFFICES ASSUME IInv PROVE TypeOK /\ OneSenderPerSurvey /\ SentIsHead
  OBVIOUS
<1>1. dbq \in Seq(DbFrame) /\ net \in Seq(NetFrame)
  <2>1. DbFrames \subseteq DbFrame /\ NetFrames \subseteq NetFrame
    BY DEF DbFrames, NetFrames
  <2>. QED  BY <2>1, SeqMonotonic DEF IInv, TypeInv
<1>2. TypeOK
  BY <1>1 DEF IInv, TypeInv, TypeOK, Chains
<1>3. OneSenderPerSurvey /\ SentIsHead
  BY DEF IInv, Locks, Sent, OneSenderPerSurvey, SentIsHead
<1>. QED  BY <1>2, <1>3

LEMMA Invariance == Spec => []IInv
BY InitIInv, StepIInv, PTL DEF Spec

(* For any number of answers, instances and attempts, with or without      *)
(* persistence and IndexedDB faults, every suspended call of the response  *)
(* queue finds what it needs when it resumes: an answer to store or send,  *)
(* and an entry to sync.                                                   *)
THEOREM TypeCorrect == Spec => []TypeOK
BY Invariance, IInvImplies, PTL

(* The two module-level locks exclude each other and account for every     *)
(* suspended sender (response-queue.ts:36-52, 158-161, 224-231, 293-295):  *)
(* per survey there is never more than one request out, whichever instance *)
(* or path sends it.                                                       *)
THEOREM OneSender == Spec => []OneSenderPerSurvey
BY Invariance, IInvImplies, PTL

(* sendResponseWithRetry may shift the queue without looking (line 310):   *)
(* the answer it has sent is its head throughout.                          *)
THEOREM HeadIsSent == Spec => []SentIsHead
BY Invariance, IInvImplies, PTL
=============================================================================
