-------------------------- MODULE Aggregator_proofs --------------------------
(***************************************************************************)
(* Proofs about Aggregator, for any finite set of channels, any capacity   *)
(* of the queue, any batch size and any number of records.                 *)
(***************************************************************************)
EXTENDS Aggregator, SequenceFacts, FiniteSetTheorems, TLAPS

-----------------------------------------------------------------------------
(* A channel has accepted at most the records it was called for, *)
CallsAgree ==
  \A c \in Channels : IF caller[c] = "out" THEN accepted[c] <= calls[c] ELSE accepted[c] < calls[c]

(* a record is dequeued and not counted off only where the loops say so,   *)
(* and how long the batch is follows from where the consumer is.           *)
ConsumerAgrees ==
  /\ taken => consumer \in {"more", "drain"}
  /\ consumer \in {"loop", "wait"} => Len(batch) < BatchSize
  /\ consumer \in {"more", "test"} => Len(batch) <= BatchSize
  /\ consumer \in {"drain", "ended"} => stop

(* Once the consumer has ended it holds nothing, and nothing that was      *)
(* accepted before Stop is in the queue.                                   *)
StopAgrees ==
  /\ stop <=> app # "running"
  /\ app = "stopped" => consumer = "ended"
  /\ \A c \in Channels : settled[c] <= accepted[c]
  /\ consumer = "ended" =>
       /\ batch = <<>>
       /\ \A r \in queue : settled[r[1]] < r[2]

IInv ==
  /\ AggregatorTypeOK
  /\ CallsAgree
  /\ CapacityKept
  /\ ChannelOrderKept
  /\ ConsumerAgrees
  /\ StopAgrees

-----------------------------------------------------------------------------
(* The queue and the reservations can be counted. *)
LEMMA FiniteQueue ==
  ASSUME AggregatorTypeOK
  PROVE  /\ IsFiniteSet(queue) /\ Cardinality(queue) \in Nat
         /\ IsFiniteSet(Reserved) /\ Cardinality(Reserved) \in Nat
<1>1. IsFiniteSet(Record)
  <2>1. 1 \in Int /\ MaxRecords \in Int
    BY AggregatorAssumption
  <2>2. IsFiniteSet(1 .. MaxRecords)
    BY <2>1, FS_Interval
  <2> QED  BY <2>2, FS_Product, AggregatorAssumption DEF Record
<1>2. IsFiniteSet(Reserved)
  BY FS_Subset, AggregatorAssumption DEF Reserved
<1> QED  BY <1>1, <1>2, FS_Subset, FS_CardinalityType DEF AggregatorTypeOK

(* What is in a sequence of batches. *)
Contents(bs) == UNION {Range(bs[d]) : d \in 1 .. Len(bs)}

(* One more batch adds its records. *)
LEMMA ContentsAppend ==
  ASSUME NEW bs \in Seq(Seq(Record)), NEW b \in Seq(Record)
  PROVE  Contents(Append(bs, b)) = Contents(bs) \cup Range(b)
<1>1. Len(bs) \in Nat
  OBVIOUS
<1> DEFINE cs == Append(bs, b)
<1>2. /\ 1 .. Len(cs) = (1 .. Len(bs)) \cup {Len(bs) + 1}
      /\ \A d \in 1 .. Len(bs) : cs[d] = bs[d]
      /\ cs[Len(bs) + 1] = b
  BY <1>1, AppendElements
<1> HIDE DEF cs
<1>3. ASSUME NEW d \in 1 .. Len(cs) PROVE Range(cs[d]) \subseteq Contents(bs) \cup Range(b)
  BY <1>2 DEF Contents
<1>4. ASSUME NEW d \in 1 .. Len(bs) PROVE Range(bs[d]) \subseteq Contents(cs)
  BY <1>2 DEF Contents
<1>5. Range(b) \subseteq Contents(cs)
  BY <1>2, <1>1 DEF Contents
<1>6. Contents(cs) = Contents(bs) \cup Range(b)
  BY <1>3, <1>4, <1>5 DEF Contents
<1> QED  BY <1>6 DEF cs

(* An empty batch after the others changes no order. *)
LEMMA OrderedEmpty ==
  ASSUME NEW bs \in Seq(Seq(Record)), AllInOrder(bs)
  PROVE  AllInOrder(Append(bs, <<>>))
<1> DEFINE cs == Append(bs, <<>>)
<1>1. Len(bs) \in Nat /\ <<>> \in Seq(Record)
  OBVIOUS
<1>2. \A b \in 1 .. Len(cs) : (b \in 1 .. Len(bs) /\ cs[b] = bs[b]) \/ cs[b] = <<>>
  BY <1>1, AppendElements
<1> HIDE DEF cs
<1>3. \A b \in 1 .. Len(cs) : \A i \in 1 .. Len(cs[b]) : b \in 1 .. Len(bs) /\ cs[b] = bs[b]
  BY <1>2
<1>4. AllInOrder(cs)
  BY <1>3 DEF AllInOrder
<1> QED  BY <1>4 DEF cs

(* Nor does a record appended to the last batch, if it is later than all   *)
(* the others of its channel.                                              *)
LEMMA OrderedAppend ==
  ASSUME NEW bs \in Seq(Seq(Record)), NEW b \in Seq(Record), NEW r \in Record,
         AllInOrder(Append(bs, b)),
         \A x \in Contents(bs) \cup Range(b) : InOrder(x, r)
  PROVE  AllInOrder(Append(bs, Append(b, r)))
<1> DEFINE cs == Append(bs, b)
           ds == Append(bs, Append(b, r))
           n == Len(bs)
<1>1. /\ Len(cs) = n + 1 /\ Len(ds) = n + 1 /\ n \in Nat
      /\ \A d \in 1 .. n : cs[d] = bs[d] /\ ds[d] = bs[d]
      /\ cs[n + 1] = b /\ ds[n + 1] = Append(b, r)
  BY AppendElements
<1>2. /\ Len(b) \in Nat
      /\ Len(Append(b, r)) = Len(b) + 1
      /\ \A k \in 1 .. Len(b) : Append(b, r)[k] = b[k]
      /\ Append(b, r)[Len(b) + 1] = r
  BY AppendElements
<1>3. ASSUME NEW d \in 1 .. n, NEW i \in 1 .. Len(bs[d]) PROVE InOrder(bs[d][i], r)
  <2>1. bs[d] \in Seq(Record)
    OBVIOUS
  <2>2. bs[d][i] \in Range(bs[d])
    BY <2>1 DEF Range
  <2> QED  BY <2>2 DEF Contents
<1>4. ASSUME NEW i \in 1 .. Len(b) PROVE InOrder(b[i], r)
  <2>1. b[i] \in Range(b)
    BY DEF Range
  <2> QED  BY <2>1
<1> HIDE DEF cs, ds, n
<1> SUFFICES AllInOrder(ds)
  BY DEF ds
<1>5. SUFFICES ASSUME NEW x \in 1 .. n + 1, NEW y \in 1 .. n + 1,
                      NEW i \in 1 .. Len(ds[x]), NEW j \in 1 .. Len(ds[y]),
                      x < y \/ (x = y /\ i < j)
               PROVE  InOrder(ds[x][i], ds[y][j])
  BY <1>1 DEF AllInOrder
<1>6. x \in 1 .. n \/ x = n + 1
  BY <1>1
<1>7. y \in 1 .. n \/ y = n + 1
  BY <1>1
<1>8. CASE y = n + 1 /\ j = Len(b) + 1
  <2>1. ds[y][j] = r
    BY <1>8, <1>1, <1>2
  <2>2. CASE x \in 1 .. n
    BY <2>1, <2>2, <1>1, <1>3
  <2>3. CASE x = n + 1
    <3>1. i \in 1 .. Len(b) /\ ds[x] = Append(b, r)
      BY <2>3, <1>1, <1>2, <1>5, <1>8
    <3> QED  BY <3>1, <2>1, <1>2, <1>4
  <2> QED  BY <2>2, <2>3, <1>6
<1>9. CASE ~ (y = n + 1 /\ j = Len(b) + 1)
  <2>1. j \in 1 .. Len(cs[y]) /\ cs[y][j] = ds[y][j]
    <3>1. CASE y \in 1 .. n
      BY <3>1, <1>1
    <3>2. CASE y = n + 1
      <4>1. j \in 1 .. Len(b) + 1 /\ j # Len(b) + 1
        BY <1>9, <3>2, <1>1, <1>2
      <4>2. j \in 1 .. Len(b)
        BY <4>1, <1>2
      <4> QED  BY <4>2, <3>2, <1>1, <1>2
    <3> QED  BY <3>1, <3>2, <1>7
  <2>2. i \in 1 .. Len(cs[x]) /\ cs[x][i] = ds[x][i]
    <3>1. CASE x \in 1 .. n
      BY <3>1, <1>1
    <3>2. CASE x = n + 1
      <4>1. y = n + 1 /\ i < j
        BY <3>2, <1>1, <1>5
      <4> QED  BY <4>1, <3>2, <2>1, <1>1, <1>2
    <3> QED  BY <3>1, <3>2, <1>6
  <2> QED  BY <2>1, <2>2, <1>1, <1>5 DEF AllInOrder, cs
<1> QED  BY <1>8, <1>9

-----------------------------------------------------------------------------
(* What each kind of step does to the order and to the count. *)

Sent == Published \cup Range(batch)

(* Steps that move no record. *)
LEMMA QuietOrder ==
  ASSUME ChannelOrderKept, UNCHANGED <<batches, batch, queue, accepted>>
  PROVE  ChannelOrderKept'
  BY DEF ChannelOrderKept, Published, AllInOrder, InOrder

(* Take: the record dequeued is the next of its channel. *)
LEMMA TakeOrder ==
  ASSUME AggregatorTypeOK, ChannelOrderKept, Take, UNCHANGED <<batches, accepted>>
  PROVE  ChannelOrderKept'
<1> USE DEF AggregatorTypeOK
<1>1. PICK r \in queue : IsNext(r) /\ queue' = queue \ {r} /\ batch' = Append(batch, r)
  BY DEF Take
<1>2. r \in Record
  OBVIOUS
<1>3. Sent' = Sent \cup {r}
  BY <1>1, <1>2, RangeAppend DEF Sent, Published
<1>4. AllInOrder(Append(batches, batch))' 
  <2>1. \A x \in Contents(batches) \cup Range(batch) : InOrder(x, r)
    BY DEF ChannelOrderKept, Contents, Published
  <2>2. AllInOrder(Append(batches, Append(batch, r)))
    BY <2>1, <1>2, OrderedAppend DEF ChannelOrderKept
  <2> QED  BY <2>2, <1>1
<1>5. ASSUME NEW q \in queue' PROVE InOrder(r, q)
  <2>1. q \in queue /\ q # r /\ q \in Record
    BY <1>1, <1>5
  <2>2. q[1] = r[1] => q[2] >= r[2]
    BY <1>1, <2>1 DEF IsNext
  <2>3. q[1] = r[1] => q[2] # r[2]
    <3>1. q = <<q[1], q[2]>> /\ r = <<r[1], r[2]>>
      BY <2>1, <1>2 DEF Record
    <3> QED  BY <2>1, <3>1
  <2>4. q[2] \in Int /\ r[2] \in Int
    BY <2>1, <1>2 DEF Record
  <2> QED  BY <2>2, <2>3, <2>4 DEF InOrder
<1>6. \A x \in Sent', q \in queue' : InOrder(x, q)
  BY <1>1, <1>3, <1>5 DEF ChannelOrderKept, Sent
<1>7. Sent' \cup queue' = Sent \cup queue
  BY <1>1, <1>3
<1> QED  BY <1>4, <1>6, <1>7 DEF ChannelOrderKept, Sent

(* PublishBatch: the batch becomes the last of the batches. *)
LEMMA PublishOrder ==
  ASSUME AggregatorTypeOK, ChannelOrderKept, PublishBatch, UNCHANGED <<queue, accepted>>
  PROVE  ChannelOrderKept'
<1> USE DEF AggregatorTypeOK, PublishBatch
<1>1. Published' = Published \cup Range(batch)
  BY ContentsAppend DEF Published, Contents
<1>2. Range(batch') = {}
  BY DEF Range
<1>3. Sent' = Sent
  BY <1>1, <1>2 DEF Sent
<1>4. AllInOrder(Append(batches', batch'))
  <2>1. Append(batches, batch) \in Seq(Seq(Record))
    BY AppendElements
  <2>2. AllInOrder(Append(Append(batches, batch), <<>>))
    BY <2>1, OrderedEmpty DEF ChannelOrderKept
  <2> QED  BY <2>2
<1>5. AllInOrder(Append(batches, batch))'
  BY <1>4
<1> QED  BY <1>3, <1>5 DEF ChannelOrderKept, Sent

(* Enqueue: the record is later than all the channel sent before. *)
LEMMA EnqueueOrder ==
  ASSUME AggregatorTypeOK, ChannelOrderKept, NEW c \in Channels, Enqueue(c)
  PROVE  /\ ChannelOrderKept'
         /\ <<c, accepted[c] + 1>> \notin queue
<1> USE DEF AggregatorTypeOK
<1> DEFINE new == <<c, accepted[c] + 1>>
<1>1. /\ queue' = queue \cup {new}
      /\ accepted' = [accepted EXCEPT ![c] = accepted[c] + 1]
      /\ UNCHANGED <<batch, batches>>
      /\ accepted[c] \in Nat
  BY AggregatorAssumption DEF Enqueue, consumerVars
<1>2. Sent' = Sent
  BY <1>1 DEF Sent, Published
<1>3. \A d \in Channels : {r \in Sent \cup queue : r[1] = d} = {d} \X (1 .. accepted[d])
  BY DEF ChannelOrderKept, Sent
<1>4. \A r \in Sent \cup queue : r[1] = c => r[2] \in 1 .. accepted[c]
  BY <1>3
<1>5. \A r \in Sent \cup queue : InOrder(r, new)
  BY <1>1, <1>4 DEF InOrder
<1>6. new \notin queue
  <2>1. new[1] = c /\ new[2] \notin 1 .. accepted[c]
    BY <1>1
  <2> QED  BY <2>1, <1>4
<1>7. \A x \in Sent', q \in queue' : InOrder(x, q)
  BY <1>1, <1>2, <1>5 DEF ChannelOrderKept, Sent
<1>8. ASSUME NEW d \in Channels
      PROVE  {r \in Sent' \cup queue' : r[1] = d} = {d} \X (1 .. accepted'[d])
  <2>1. CASE d = c
    <3>1. 1 .. accepted'[c] = (1 .. accepted[c]) \cup {accepted[c] + 1}
      BY <1>1
    <3>2. {r \in Sent' \cup queue' : r[1] = c} = {r \in Sent \cup queue : r[1] = c} \cup {new}
      BY <1>1, <1>2
    <3> QED  BY <3>1, <3>2, <2>1, <1>3
  <2>2. CASE d # c
    <3>1. {r \in Sent' \cup queue' : r[1] = d} = {r \in Sent \cup queue : r[1] = d}
      BY <1>1, <1>2, <2>2
    <3> QED  BY <3>1, <2>2, <1>1, <1>3
  <2> QED  BY <2>1, <2>2
<1>9. AllInOrder(Append(batches', batch'))
  BY <1>1 DEF ChannelOrderKept
<1>10. AllInOrder(Append(batches, batch))'
  BY <1>9
<1> QED  BY <1>6, <1>7, <1>8, <1>10 DEF ChannelOrderKept, Sent

(* The count is exact: neither the queue nor the reservations change, *)
LEMMA QuietCapacity ==
  ASSUME CapacityKept, Reserved' = Reserved, UNCHANGED <<queue, size, taken>>
  PROVE  CapacityKept'
  BY DEF CapacityKept

(* or a record leaves the queue and is not counted off yet. *)
LEMMA TakeCapacity ==
  ASSUME AggregatorTypeOK, CapacityKept, Take, Reserved' = Reserved, UNCHANGED size
  PROVE  CapacityKept'
<1>1. PICK r \in queue : queue' = queue \ {r}
  BY DEF Take
<1>2. Cardinality(queue') = Cardinality(queue) - 1
  BY <1>1, FiniteQueue, FS_RemoveElement
<1>3. ~ taken /\ taken' /\ taken' = TRUE
  BY DEF Take
<1>4. size = Cardinality(queue) + Cardinality(Reserved)
  BY <1>3, FiniteQueue DEF CapacityKept
<1>5. size = Cardinality(queue') + Cardinality(Reserved') + 1
  BY <1>2, <1>4, FiniteQueue
<1> QED  BY <1>3, <1>5 DEF CapacityKept

-----------------------------------------------------------------------------
(* The appsink callback of a channel. *)
LEMMA CallbackInv ==
  ASSUME IInv, NEW c \in Channels, NewSample(c) \/ Refused(c) \/ Reserve(c) \/ Enqueue(c)
  PROVE  IInv'
<1> USE DEF IInv, consumerVars, appVars
<1>1. CASE NewSample(c) \/ Refused(c)
  <2> USE <1>1 DEF NewSample, Refused
  <2>1. Reserved' = Reserved
    BY DEF Reserved, AggregatorTypeOK
  <2>2. UNCHANGED <<queue, size, taken, batches, batch, accepted>>
    OBVIOUS
  <2>3. CapacityKept' /\ ChannelOrderKept'
    BY <2>1, <2>2, QuietCapacity, QuietOrder
  <2>4. AggregatorTypeOK' /\ CallsAgree'
    <3>1. \A d \in Channels : accepted[d] \in Nat /\ calls[d] \in Nat
      BY AggregatorAssumption DEF AggregatorTypeOK
    <3>2. CASE NewSample(c)
      <4>1. calls[c] + 1 \in 0 .. MaxRecords
        BY <3>1, <3>2, AggregatorAssumption
      <4>2. AggregatorTypeOK'
        BY <3>2, <4>1 DEF AggregatorTypeOK
      <4>3. CallsAgree'
        BY <3>1, <3>2 DEF AggregatorTypeOK, CallsAgree
      <4> QED  BY <4>2, <4>3
    <3>3. CASE Refused(c)
      <4>1. AggregatorTypeOK'
        BY <3>3 DEF AggregatorTypeOK
      <4>2. CallsAgree'
        BY <3>1, <3>3 DEF AggregatorTypeOK, CallsAgree
      <4> QED  BY <4>1, <4>2
    <3> QED  BY <3>2, <3>3
  <2>5. ConsumerAgrees' /\ StopAgrees'
    BY DEF ConsumerAgrees, StopAgrees
  <2> QED  BY <2>3, <2>4, <2>5
<1>2. CASE Reserve(c)
  <2> USE <1>2 DEF Reserve
  <2>1. c \notin Reserved /\ Reserved' = Reserved \cup {c}
    BY DEF Reserved, AggregatorTypeOK
  <2>2. Cardinality(Reserved') = Cardinality(Reserved) + 1
    BY <2>1, FiniteQueue, FS_AddElement
  <2>3. UNCHANGED <<queue, taken, batches, batch, accepted>> /\ size' = size + 1 /\ size + 1 <= QueueCapacity
    BY AggregatorAssumption DEF AggregatorTypeOK
  <2>4. size' = Cardinality(queue') + Cardinality(Reserved') + (IF taken' THEN 1 ELSE 0)
    <3>1. size = Cardinality(queue) + Cardinality(Reserved) + (IF taken THEN 1 ELSE 0)
      BY DEF CapacityKept
    <3> QED  BY <3>1, <2>2, <2>3, FiniteQueue
  <2>5. CapacityKept'
    BY <2>3, <2>4 DEF CapacityKept
  <2>6. ChannelOrderKept'
    BY <2>3, QuietOrder
  <2>7. AggregatorTypeOK' /\ CallsAgree'
    BY AggregatorAssumption DEF AggregatorTypeOK, CallsAgree
  <2>8. ConsumerAgrees' /\ StopAgrees'
    BY DEF ConsumerAgrees, StopAgrees
  <2> QED  BY <2>5, <2>6, <2>7, <2>8
<1>3. CASE Enqueue(c)
  <2> USE <1>3 DEF Enqueue
  <2>1. c \in Reserved /\ Reserved' = Reserved \ {c}
    BY DEF Reserved, AggregatorTypeOK
  <2>2. Cardinality(Reserved') = Cardinality(Reserved) - 1
    BY <2>1, FiniteQueue, FS_RemoveElement
  <2>3. /\ accepted' = [accepted EXCEPT ![c] = accepted[c] + 1]
        /\ queue' = queue \cup {<<c, accepted[c] + 1>>}
        /\ caller' = [caller EXCEPT ![c] = "out"]
        /\ UNCHANGED <<calls, size, taken, settled, consumer, batch, stop, app, connected, batches>>
    BY DEF AggregatorTypeOK
  <2>4. ChannelOrderKept' /\ <<c, accepted[c] + 1>> \notin queue
    BY EnqueueOrder
  <2>5. Cardinality(queue') = Cardinality(queue) + 1
    BY <2>3, <2>4, FiniteQueue, FS_AddElement
  <2>6. size' = Cardinality(queue') + Cardinality(Reserved') + (IF taken' THEN 1 ELSE 0)
    <3>1. size = Cardinality(queue) + Cardinality(Reserved) + (IF taken THEN 1 ELSE 0)
      BY DEF CapacityKept
    <3> QED  BY <3>1, <2>2, <2>3, <2>5, FiniteQueue
  <2>7. CapacityKept'
    BY <2>3, <2>6 DEF CapacityKept
  <2>8. accepted[c] \in Nat /\ accepted[c] < calls[c] /\ calls[c] \in 0 .. MaxRecords
    BY AggregatorAssumption DEF CallsAgree, AggregatorTypeOK
  <2>9. accepted[c] + 1 \in 0 .. MaxRecords /\ <<c, accepted[c] + 1>> \in Record
    BY <2>8, AggregatorAssumption DEF Record
  <2>10. AggregatorTypeOK'
    BY <2>3, <2>9 DEF AggregatorTypeOK
  <2>11. CallsAgree'
    BY <2>3, <2>8, AggregatorAssumption DEF AggregatorTypeOK, CallsAgree
  <2>12. ConsumerAgrees'
    BY <2>3 DEF ConsumerAgrees
  <2>13. StopAgrees'
    <3>1. \A d \in Channels : settled[d] <= accepted'[d]
      BY <2>3, AggregatorAssumption DEF StopAgrees, AggregatorTypeOK
    <3>2. settled[c] < accepted[c] + 1
      BY <2>8, AggregatorAssumption DEF StopAgrees, AggregatorTypeOK
    <3> QED  BY <2>3, <3>1, <3>2 DEF StopAgrees
  <2> QED  BY <2>4, <2>7, <2>10, <2>11, <2>12, <2>13
<1> QED  BY <1>1, <1>2, <1>3

(* Dequeue, at any of the three places that do. *)
LEMMA TakeInv ==
  ASSUME IInv, WaitFinds \/ TakeMore \/ Drain
  PROVE  IInv'
<1> USE DEF IInv, WaitFinds, TakeMore, Drain, channelVars, appVars
<1>1. Take /\ UNCHANGED <<size, batches, caller, calls, accepted, connected, stop, app, settled>>
  BY DEF Take
<1>2. PICK r \in queue : queue' = queue \ {r} /\ batch' = Append(batch, r)
  BY <1>1 DEF Take
<1>3. ~ taken /\ taken' = TRUE
  BY <1>1 DEF Take
<1>4. Reserved' = Reserved
  BY <1>1 DEF Reserved
<1>5. CapacityKept' /\ ChannelOrderKept'
  BY <1>1, <1>4, TakeCapacity, TakeOrder
<1>6. batch' \in Seq(Record) /\ Len(batch') = Len(batch) + 1 /\ Len(batch) \in Nat
  BY <1>2, AppendElements DEF AggregatorTypeOK
<1>7. consumer' \in {"more", "drain"} /\ (consumer' = "drain" <=> consumer = "drain")
  BY DEF Goto
<1>8. AggregatorTypeOK' /\ CallsAgree'
  BY <1>1, <1>2, <1>3, <1>6, <1>7 DEF AggregatorTypeOK, CallsAgree
<1>9. ConsumerAgrees'
  <2>1. consumer' = "more" => Len(batch) < BatchSize
    BY DEF ConsumerAgrees, Goto
  <2>2. consumer' = "more" => Len(batch') <= BatchSize
    BY <2>1, <1>6, AggregatorAssumption
  <2> QED  BY <1>1, <1>7, <2>2 DEF ConsumerAgrees
<1>10. StopAgrees'
  <2>1. consumer # "ended"
    OBVIOUS
  <2> QED  BY <1>1, <1>7, <2>1 DEF StopAgrees
<1> QED  BY <1>5, <1>8, <1>9, <1>10

(* fetch_sub: the record dequeued is no longer counted. *)
LEMMA CountOffInv ==
  ASSUME IInv, CountOff
  PROVE  IInv'
<1> USE DEF IInv, CountOff, channelVars, appVars
<1>1. Reserved' = Reserved
  BY DEF Reserved
<1>2. size = Cardinality(queue) + Cardinality(Reserved) + 1 /\ size <= QueueCapacity
  BY DEF CapacityKept
<1>3. size' = Cardinality(queue') + Cardinality(Reserved') /\ size' <= QueueCapacity /\ size' \in Nat
  BY <1>1, <1>2, FiniteQueue, AggregatorAssumption
<1>4. CapacityKept'
  <2>1. Cardinality(queue') + Cardinality(Reserved') + 0 = Cardinality(queue') + Cardinality(Reserved')
    BY <1>1, FiniteQueue
  <2> QED  BY <1>3, <2>1 DEF CapacityKept
<1>5. ChannelOrderKept'
  BY QuietOrder
<1>6. AggregatorTypeOK' /\ CallsAgree'
  BY <1>3 DEF AggregatorTypeOK, CallsAgree
<1>7. ConsumerAgrees' /\ StopAgrees'
  BY DEF ConsumerAgrees, StopAgrees
<1> QED  BY <1>4, <1>5, <1>6, <1>7

(* The consumer's other steps. *)
LEMMA LoopInv ==
  ASSUME IInv, WaitTimesOut \/ NoMore \/ PublishIfDue \/ LoopTest \/ DrainEnds
  PROVE  IInv'
<1> USE DEF IInv, WaitTimesOut, NoMore, PublishIfDue, LoopTest, DrainEnds, channelVars, appVars, KeepBatch, Goto
<1>1. UNCHANGED <<queue, size, taken, caller, calls, accepted, connected, stop, app, settled>>
  OBVIOUS
<1>2. PublishBatch \/ UNCHANGED <<batch, batches>>
  OBVIOUS
<1>3. Reserved' = Reserved
  BY <1>1 DEF Reserved
<1>4. CapacityKept'
  BY <1>1, <1>3, QuietCapacity
<1>5. ChannelOrderKept'
  BY <1>1, <1>2, QuietOrder, PublishOrder
<1>6. batch' \in Seq(Record) /\ batches' \in Seq(Seq(Record))
  <2>1. batch \in Seq(Record) /\ batches \in Seq(Seq(Record))
    BY DEF AggregatorTypeOK
  <2>2. Append(batches, batch) \in Seq(Seq(Record)) /\ <<>> \in Seq(Record)
    BY <2>1, AppendElements
  <2> QED  BY <1>2, <2>1, <2>2 DEF PublishBatch
<1>7. consumer' \in {"test", "loop", "drain", "wait", "ended"}
  OBVIOUS
<1>8. AggregatorTypeOK' /\ CallsAgree'
  BY <1>1, <1>6, <1>7 DEF AggregatorTypeOK, CallsAgree
<1>9. Len(batch) \in Nat /\ Len(<<>>) = 0 /\ BatchSize \in Nat \ {0}
  BY AggregatorAssumption DEF AggregatorTypeOK
<1>10. ConsumerAgrees'
  <2>1. taken' => consumer' \in {"more", "drain"}
    BY DEF ConsumerAgrees
  <2>2. consumer' \in {"drain", "ended"} => stop'
    BY DEF ConsumerAgrees
  <2>3. consumer' = "test" => Len(batch') <= BatchSize
    BY <1>9 DEF ConsumerAgrees
  <2>4. consumer' \in {"loop", "wait"} => Len(batch') < BatchSize
    BY <1>9 DEF ConsumerAgrees, PublishBatch
  <2> QED  BY <1>7, <2>1, <2>2, <2>3, <2>4 DEF ConsumerAgrees
<1>11. StopAgrees'
  <2>1. CASE DrainEnds
    BY <2>1, <1>1 DEF StopAgrees, PublishBatch
  <2>2. CASE ~ DrainEnds
    <3>1. consumer # "ended" /\ consumer' # "ended"
      BY <2>2
    <3> QED  BY <3>1, <1>1 DEF StopAgrees
  <2> QED  BY <2>1, <2>2
<1> QED  BY <1>4, <1>5, <1>8, <1>10, <1>11

(* The thread that stops the pipeline. *)
LEMMA StopInv ==
  ASSUME IInv, (\E c \in Channels : Disconnect(c)) \/ Stop \/ Joined
  PROVE  IInv'
<1> USE DEF IInv, Disconnect, Stop, Joined, channelVars, consumerVars
<1>1. UNCHANGED <<queue, size, taken, caller, calls, accepted, consumer, batch, batches>>
  OBVIOUS
<1>2. Reserved' = Reserved
  BY <1>1 DEF Reserved
<1>3. CapacityKept' /\ ChannelOrderKept'
  BY <1>1, <1>2, QuietCapacity, QuietOrder
<1>4. AggregatorTypeOK' /\ CallsAgree'
  BY <1>1 DEF AggregatorTypeOK, CallsAgree
<1>5. ConsumerAgrees'
  BY <1>1 DEF ConsumerAgrees
<1>6. StopAgrees'
  <2>1. CASE Stop
    <3>1. consumer # "ended"
      BY <2>1 DEF ConsumerAgrees, StopAgrees
    <3>2. \A c \in Channels : settled'[c] <= accepted'[c]
      BY <2>1, AggregatorAssumption DEF AggregatorTypeOK
    <3> QED  BY <2>1, <3>1, <3>2 DEF StopAgrees
  <2>2. CASE Joined
    BY <2>2 DEF StopAgrees
  <2>3. CASE \E c \in Channels : Disconnect(c)
    BY <2>3 DEF StopAgrees
  <2> QED  BY <2>1, <2>2, <2>3
<1> QED  BY <1>3, <1>4, <1>5, <1>6

(* IInv is inductive. *)
LEMMA NextInv == IInv /\ [Next]_vars => IInv'
<1> SUFFICES ASSUME IInv, [Next]_vars PROVE IInv'
  OBVIOUS
<1>1. ASSUME NEW c \in Channels, NewSample(c) \/ Refused(c) \/ Reserve(c) \/ Enqueue(c) PROVE IInv'
  BY <1>1, CallbackInv
<1>2. CASE ConsumerStep
  BY <1>2, TakeInv, CountOffInv, LoopInv DEF ConsumerStep
<1>3. CASE (\E c \in Channels : Disconnect(c)) \/ Stop \/ Joined
  BY <1>3, StopInv
<1>4. CASE UNCHANGED vars
  <2> USE <1>4 DEF vars, channelVars, consumerVars, appVars, IInv
  <2>1. Reserved' = Reserved
    BY DEF Reserved
  <2>2. CapacityKept' /\ ChannelOrderKept'
    BY <2>1, QuietCapacity, QuietOrder
  <2>3. AggregatorTypeOK' /\ CallsAgree' /\ ConsumerAgrees' /\ StopAgrees'
    BY DEF AggregatorTypeOK, CallsAgree, ConsumerAgrees, StopAgrees
  <2> QED  BY <2>2, <2>3
<1> QED  BY <1>1, <1>2, <1>3, <1>4 DEF Next

(* Nothing has been accepted, reserved or taken. *)
LEMMA InitInv == Init => IInv
<1> SUFFICES ASSUME Init PROVE IInv
  OBVIOUS
<1> USE DEF Init
<1>1. Len(batch) = 0 /\ Len(batches) = 0 /\ batch \in Seq(Record) /\ batches \in Seq(Seq(Record))
  OBVIOUS
<1>2. AggregatorTypeOK
  <2>1. 0 \in 0 .. MaxRecords
    BY AggregatorAssumption
  <2>2. /\ calls \in [Channels -> 0 .. MaxRecords]
        /\ accepted \in [Channels -> 0 .. MaxRecords]
        /\ settled \in [Channels -> 0 .. MaxRecords]
    BY <2>1
  <2>3. caller \in [Channels -> {"out", "in", "reserved"}]
    OBVIOUS
  <2> QED  BY <1>1, <2>2, <2>3 DEF AggregatorTypeOK
<1>3. CallsAgree
  BY DEF CallsAgree
<1>4. CapacityKept
  <2>1. Reserved = {}
    BY DEF Reserved
  <2>2. Cardinality(queue) = 0 /\ Cardinality(Reserved) = 0
    BY <2>1, FS_EmptySet
  <2> QED  BY <2>2, AggregatorAssumption DEF CapacityKept
<1>5. ChannelOrderKept
  <2>1. Published = {} /\ Range(batch) = {}
    BY <1>1 DEF Published, Range
  <2>2. Append(batches, batch) = <<<<>>>>
    OBVIOUS
  <2>3. AllInOrder(<<<<>>>>)
    BY DEF AllInOrder
  <2>4. \A c \in Channels : {c} \X (1 .. accepted[c]) = {}
    OBVIOUS
  <2> QED  BY <2>1, <2>2, <2>3, <2>4 DEF ChannelOrderKept
<1>6. ConsumerAgrees /\ StopAgrees
  BY <1>1, AggregatorAssumption DEF ConsumerAgrees, StopAgrees
<1> QED  BY <1>2, <1>3, <1>4, <1>5, <1>6 DEF IInv

LEMMA InvAlways == Spec => []IInv
  BY InitInv, NextInv, PTL DEF Spec

-----------------------------------------------------------------------------
(* Type correctness: current_size_, which is unsigned, is never counted    *)
(* below zero, by whatever thread.                                         *)
THEOREM AggregatorTypeCorrect == Spec => []AggregatorTypeOK
<1>1. IInv => AggregatorTypeOK
  BY DEF IInv
<1> QED  BY <1>1, InvAlways, PTL

(* The counter of TryEnqueue is exact, and the queue with all that is on   *)
(* its way into it never exceeds its capacity, for any number of callbacks *)
(* that race for the last place.                                           *)
THEOREM CapacityAlwaysKept == Spec => []CapacityKept
<1>1. IInv => CapacityKept
  BY DEF IInv
<1> QED  BY <1>1, InvAlways, PTL

(* A channel's records are published in the order its callback offered     *)
(* them, each once, and none is left out between two that are.             *)
THEOREM ChannelOrderAlwaysKept == Spec => []ChannelOrderKept
<1>1. IInv => ChannelOrderKept
  BY DEF IInv
<1> QED  BY <1>1, InvAlways, PTL

(* When Stop has joined the consumer, all that was accepted before Stop    *)
(* set stop_requested_ has been published.                                 *)
THEOREM StopAlwaysDrains == Spec => []StopDrains
<1>1. IInv => StopDrains
  <2> SUFFICES ASSUME IInv, app = "stopped", NEW c \in Channels, NEW k \in 1 .. settled[c]
               PROVE  <<c, k>> \in Published
    BY DEF StopDrains
  <2> USE DEF IInv
  <2>1. batch = <<>> /\ \A r \in queue : settled[r[1]] < r[2]
    BY DEF StopAgrees
  <2>2. settled[c] \in Nat /\ accepted[c] \in Nat /\ settled[c] <= accepted[c]
    BY AggregatorAssumption DEF StopAgrees, AggregatorTypeOK
  <2>3. <<c, k>> \notin queue
    BY <2>1, <2>2
  <2>4. <<c, k>> \in {c} \X (1 .. accepted[c])
    BY <2>2
  <2>5. <<c, k>> \in Published \cup Range(batch) \cup queue
    BY <2>4 DEF ChannelOrderKept
  <2>6. Range(batch) = {}
    BY <2>1 DEF Range
  <2> QED  BY <2>3, <2>5, <2>6
<1> QED  BY <1>1, InvAlways, PTL

(* While the aggregator runs, whatever timeouts and bursts came before,    *)
(* PublishBatch gets exactly batch_size records.                           *)
THEOREM OnlyFullBatches == Spec => PartialOnlyOnStop
<1>1. IInv /\ [Next]_vars => [batches' # batches /\ ~ stop => Len(batches'[Len(batches')]) = BatchSize]_vars
  <2> SUFFICES ASSUME IInv, Next, batches' # batches, ~ stop
               PROVE  Len(batches'[Len(batches')]) = BatchSize
    OBVIOUS
  <2> USE DEF IInv
  <2>1. PublishIfDue \/ DrainEnds
    BY DEF Next, NewSample, Refused, Reserve, Enqueue, Disconnect, Stop, Joined, ConsumerStep, CountOff,
           WaitFinds, WaitTimesOut, TakeMore, NoMore, LoopTest, Drain, Take, consumerVars
  <2>2. consumer = "test" /\ PublishBatch /\ Len(batch) >= BatchSize
    BY <2>1 DEF PublishIfDue, DrainEnds, KeepBatch, ConsumerAgrees
  <2>3. Len(batch) = BatchSize
    BY <2>2, AggregatorAssumption DEF ConsumerAgrees, AggregatorTypeOK
  <2>4. batches' = Append(batches, batch) /\ batches \in Seq(Seq(Record)) /\ batch \in Seq(Record)
    BY <2>2 DEF PublishBatch, AggregatorTypeOK
  <2>5. batches'[Len(batches')] = batch
    BY <2>4, AppendElements
  <2> QED  BY <2>3, <2>5
<1> QED  BY <1>1, InvAlways, PTL DEF Spec, PartialOnlyOnStop

=============================================================================
