---------------------- MODULE BatchProcessing_proofs ----------------------
(***************************************************************************)
(* Proofs about BatchProcessing for any batch and any number of workers.   *)
(***************************************************************************)
EXTENDS BatchProcessing, DataLemmas

\* How many policies the workers have taken.
taken == fed - Len(policyChannel)

\* The policies that wait are the last ones sent, in order.
Waiting ==
    /\ Len(policyChannel) <= fed
    /\ \A i \in 1..Len(policyChannel) : policyChannel[i] = taken + i

\* The policies that workers hold or have dropped are all different, and were
\* taken before those that wait.
Held ==
    /\ dropped \subseteq 1..taken
    /\ \A w \in Busy : hand[w] \in 1..taken /\ hand[w] \notin dropped
    /\ \A v, w \in Busy : hand[v] = hand[w] => v = w

\* What the ends of the goroutines tell.
Ends ==
    /\ policyClosed => fed = BatchSize \/ ctxDone
    /\ \A w \in Workers :
          worker[w] = "exited" => (policyClosed /\ policyChannel = <<>>) \/ ctxDone
    /\ resultClosed => \A w \in Workers : worker[w] = "exited"
    /\ dropped # {} => ctxDone
    /\ caller = "done" => (resultClosed /\ resultChannel = <<>>) \/ ctxDone

Hands == {hand[w] : w \in Busy}

Places == 1..fed = Range(policyChannel) \cup Hands \cup Range(resultChannel)
                     \cup Range(results) \cup dropped

Tally == fed = Len(policyChannel) + Cardinality(Busy) + Len(resultChannel)
                 + Len(results) + Cardinality(dropped)

Inv == TypeOK /\ Waiting /\ Held /\ Ends /\ Places /\ Tally

LEMMA Sizes == BatchSize \in Nat /\ 0 < BatchSize /\ MaxConcurrency \in Nat /\ 0 < MaxConcurrency
BY BatchAssumption DEF BatchAssumption

LEMMA Lengths ==
    ASSUME TypeOK
    PROVE  /\ Len(policyChannel) \in Nat /\ Len(resultChannel) \in Nat
           /\ Len(results) \in Nat /\ fed \in Nat /\ fed <= BatchSize
           /\ policyChannel \in Seq(Positions) /\ resultChannel \in Seq(Positions)
           /\ results \in Seq(Positions)
<1>1. fed \in Nat /\ fed <= BatchSize
  BY Sizes DEF TypeOK
<1>2. /\ policyChannel \in Seq(Positions) /\ resultChannel \in Seq(Positions)
      /\ results \in Seq(Positions)
  BY DEF TypeOK
<1>3. /\ Len(policyChannel) \in Nat /\ Len(resultChannel) \in Nat /\ Len(results) \in Nat
  BY <1>2
<1> QED BY <1>1, <1>2, <1>3

LEMMA InitInv == Init => Inv
<1> SUFFICES ASSUME Init  PROVE Inv
  OBVIOUS
<1>1. <<>> \in Seq(Positions) /\ Len(<<>>) = 0
  BY EmptySeq
<1>2. TypeOK
  <2>1. 0 \in 0..BatchSize /\ 0 <= BatchSize
    BY Sizes
  <2>2. withContext \in BOOLEAN
    BY DEF Init
  <2> QED BY <1>1, <2>1, <2>2 DEF Init, TypeOK, WorkerPC
<1>3. Busy = {} /\ Hands = {}
  BY DEF Init, Busy, Hands
<1>4. Waiting
  BY <1>1 DEF Init, Waiting
<1>5. Held /\ Ends
  BY <1>3 DEF Init, Held, Ends
<1>6. Places
  BY <1>3, RangeEmpty DEF Init, Places
<1>7. Cardinality({}) = 0
  BY FS_EmptySet
<1>8. Tally
  BY <1>1, <1>3, <1>7 DEF Init, Tally
<1> QED BY <1>2, <1>4, <1>5, <1>6, <1>8 DEF Inv

LEMMA NextTypeOK ==
    ASSUME Inv, [Next]_vars
    PROVE  TypeOK'
<1> USE DEF Inv
<1>1. CASE Cancel \/ FeedEnd \/ CloseResults \/ CollectEnd
  BY <1>1 DEF Cancel, FeedEnd, CloseResults, CollectEnd, TypeOK, contextVars, feedVars,
              workerVars, resultVars, callerVars
<1>2. CASE Feed
  <2>1. fed + 1 \in Positions /\ fed + 1 \in 0..BatchSize /\ fed < BatchSize
    BY <1>2, Lengths, Sizes DEF Feed, Positions
  <2>2. policyChannel' \in Seq(Positions) /\ Len(policyChannel') = Len(policyChannel) + 1
    BY <1>2, <2>1, Lengths, RangeAppend DEF Feed
  <2>3. Len(policyChannel') <= BatchSize
    BY <2>1, <2>2, Lengths, Sizes DEF Waiting
  <2> QED BY <1>2, <2>1, <2>2, <2>3 DEF Feed, TypeOK, contextVars, workerVars, resultVars,
                                        callerVars
<1>3. ASSUME NEW w \in Workers, WorkerTake(w)  PROVE TypeOK'
  <2>1. policyChannel # <<>> /\ policyChannel' = Tail(policyChannel)
    BY <1>3 DEF WorkerTake
  <2>2. /\ Head(policyChannel) \in Positions /\ policyChannel' \in Seq(Positions)
        /\ Len(policyChannel') = Len(policyChannel) - 1
    BY <2>1, Lengths, RangeTail
  <2>3. Len(policyChannel') <= BatchSize
    BY <2>2, Lengths, Sizes DEF TypeOK
  <2>4. hand' \in [Workers -> Positions \cup {Nothing}] /\ worker' \in [Workers -> WorkerPC]
    BY <1>3, <2>2 DEF WorkerTake, TypeOK, WorkerPC
  <2> QED BY <1>3, <2>2, <2>3, <2>4 DEF WorkerTake, TypeOK, contextVars, resultVars, callerVars
<1>4. ASSUME NEW w \in Workers, WorkerExit(w) \/ WorkerProcess(w)  PROVE TypeOK'
  BY <1>4 DEF WorkerExit, WorkerProcess, TypeOK, WorkerPC, contextVars, feedVars, resultVars,
              callerVars
<1>5. ASSUME NEW w \in Workers, WorkerSend(w)  PROVE TypeOK'
  <2>1. w \in Busy
    BY <1>5 DEF WorkerSend, Busy
  <2>2. hand[w] \in Positions
    BY <2>1, Lengths, Sizes DEF Held, taken, Positions
  <2>3. /\ resultChannel' = Append(resultChannel, hand[w])
        /\ Len(resultChannel) < BatchSize
    BY <1>5 DEF WorkerSend, ResultCap
  <2>4. resultChannel' \in Seq(Positions) /\ Len(resultChannel') = Len(resultChannel) + 1
    BY <2>2, <2>3, Lengths, RangeAppend
  <2>5. Len(resultChannel') <= BatchSize
    BY <2>3, <2>4, Lengths, Sizes
  <2>6. hand' \in [Workers -> Positions \cup {Nothing}] /\ worker' \in [Workers -> WorkerPC]
    BY <1>5 DEF WorkerSend, TypeOK, WorkerPC
  <2> QED BY <1>5, <2>4, <2>5, <2>6 DEF WorkerSend, TypeOK, contextVars, feedVars, callerVars
<1>6. ASSUME NEW w \in Workers, WorkerDrop(w)  PROVE TypeOK'
  <2>1. w \in Busy
    BY <1>6 DEF WorkerDrop, Busy
  <2>2. hand[w] \in Positions
    BY <2>1, Lengths, Sizes DEF Held, taken, Positions
  <2> QED BY <1>6, <2>2 DEF WorkerDrop, TypeOK, WorkerPC, contextVars, feedVars, resultVars,
                            callerVars
<1>7. CASE Collect
  <2>1. /\ resultChannel # <<>> /\ resultChannel' = Tail(resultChannel)
        /\ results' = Append(results, Head(resultChannel))
    BY <1>7 DEF Collect
  <2>2. /\ Head(resultChannel) \in Positions /\ resultChannel' \in Seq(Positions)
        /\ Len(resultChannel') = Len(resultChannel) - 1
    BY <2>1, Lengths, RangeTail
  <2>3. Len(resultChannel') <= BatchSize
    BY <2>2, Lengths, Sizes DEF TypeOK
  <2>4. results' \in Seq(Positions)
    BY <2>1, <2>2, Lengths, RangeAppend
  <2> QED BY <1>7, <2>2, <2>3, <2>4 DEF Collect, TypeOK, contextVars, feedVars, workerVars
<1>8. CASE UNCHANGED vars
  BY <1>8 DEF vars, TypeOK, contextVars, feedVars, workerVars, resultVars, callerVars
<1> QED BY <1>1, <1>2, <1>3, <1>4, <1>5, <1>6, <1>7, <1>8 DEF Next, WorkerStep

-----------------------------------------------------------------------------
\* The channel of policies after a worker has taken one.
LEMMA TakeFacts ==
    ASSUME TypeOK, Waiting, policyChannel # <<>>
    PROVE  /\ Head(policyChannel) = taken + 1
           /\ Tail(policyChannel) \in Seq(Positions)
           /\ Len(Tail(policyChannel)) = Len(policyChannel) - 1
           /\ \A i \in 1..(Len(policyChannel) - 1) :
                 Tail(policyChannel)[i] = policyChannel[i + 1]
           /\ Range(policyChannel) = Range(Tail(policyChannel)) \cup {Head(policyChannel)}
           /\ Len(policyChannel) > 0 /\ taken \in Nat
<1>1. Len(policyChannel) \in Nat \ {0}
  BY Lengths, EmptySeq
<1>2. /\ Head(policyChannel) = policyChannel[1]
      /\ Tail(policyChannel) \in Seq(Positions)
      /\ Len(Tail(policyChannel)) = Len(policyChannel) - 1
      /\ \A i \in 1..(Len(policyChannel) - 1) :
            Tail(policyChannel)[i] = policyChannel[i + 1]
  BY Lengths, HeadTailProperties
<1>3. policyChannel[1] = taken + 1 /\ taken \in Nat
  BY <1>1, Lengths DEF Waiting, taken
<1>4. Range(policyChannel) = Range(Tail(policyChannel)) \cup {Head(policyChannel)}
  BY Lengths, RangeHeadTail
<1> QED BY <1>1, <1>2, <1>3, <1>4

LEMMA NextWaiting ==
    ASSUME Inv, [Next]_vars
    PROVE  Waiting'
<1> USE DEF Inv
<1>1. CASE Feed
  <2>1. /\ policyChannel' = Append(policyChannel, fed + 1) /\ fed' = fed + 1
        /\ fed + 1 \in Positions
    BY <1>1, Lengths, Sizes DEF Feed, Positions
  <2>2. /\ Len(policyChannel') = Len(policyChannel) + 1
        /\ \A i \in 1..Len(policyChannel) : policyChannel'[i] = policyChannel[i]
        /\ policyChannel'[Len(policyChannel) + 1] = fed + 1
    BY <2>1, Lengths, AppendProperties
  <2>3. taken' = taken /\ taken \in Int
    BY <2>1, <2>2, Lengths DEF taken
  <2>4. ASSUME NEW i \in 1..Len(policyChannel') PROVE policyChannel'[i] = taken' + i
    <3>1. CASE i \in 1..Len(policyChannel)
      BY <2>2, <2>3, <3>1 DEF Waiting
    <3>2. CASE i = Len(policyChannel) + 1
      <4>1. fed + 1 = taken + i
        BY <3>2, Lengths DEF taken
      <4> QED BY <2>2, <2>3, <3>2, <4>1
    <3> QED BY <2>2, <3>1, <3>2, Lengths
  <2>5. Len(policyChannel') <= fed'
    BY <2>1, <2>2, Lengths DEF Waiting
  <2> QED BY <2>4, <2>5 DEF Waiting
<1>2. ASSUME NEW w \in Workers, WorkerTake(w)  PROVE Waiting'
  <2>1. policyChannel # <<>> /\ policyChannel' = Tail(policyChannel) /\ fed' = fed
    BY <1>2 DEF WorkerTake
  <2>2. /\ Len(policyChannel') = Len(policyChannel) - 1
        /\ \A i \in 1..(Len(policyChannel) - 1) : policyChannel'[i] = policyChannel[i + 1]
    BY <2>1, TakeFacts
  <2>3. taken' = taken + 1 /\ taken \in Int
    BY <2>1, <2>2, Lengths DEF taken
  <2>4. ASSUME NEW i \in 1..Len(policyChannel') PROVE policyChannel'[i] = taken' + i
    <3>1. i \in 1..(Len(policyChannel) - 1) /\ i + 1 \in 1..Len(policyChannel)
      BY <2>2, Lengths
    <3>2. policyChannel'[i] = taken + (i + 1)
      BY <2>2, <3>1 DEF Waiting
    <3> QED BY <2>3, <3>1, <3>2
  <2>5. Len(policyChannel') <= fed'
    BY <2>1, <2>2, Lengths DEF Waiting
  <2> QED BY <2>4, <2>5 DEF Waiting
<1>3. ASSUME UNCHANGED <<policyChannel, fed>>  PROVE Waiting'
  BY <1>3 DEF Waiting, taken
<1>4. ASSUME NEW w \in Workers,
             WorkerExit(w) \/ WorkerProcess(w) \/ WorkerSend(w) \/ WorkerDrop(w)
      PROVE  UNCHANGED <<policyChannel, fed>>
  BY <1>4 DEF WorkerExit, WorkerProcess, WorkerSend, WorkerDrop, feedVars
<1>5. CASE Cancel \/ FeedEnd \/ CloseResults \/ Collect \/ CollectEnd \/ UNCHANGED vars
  <2>1. UNCHANGED <<policyChannel, fed>>
    BY <1>5 DEF Cancel, FeedEnd, CloseResults, Collect, CollectEnd, vars, feedVars
  <2> QED BY <2>1, <1>3
<1> QED BY <1>1, <1>2, <1>3, <1>4, <1>5 DEF Next, WorkerStep

\* What a step of a worker does to the busy workers and their hands.
LEMMA WorkerFacts ==
    ASSUME TypeOK, NEW w \in Workers
    PROVE  /\ WorkerTake(w) => /\ w \notin Busy /\ Busy' = Busy \cup {w}
                               /\ hand'[w] = Head(policyChannel)
                               /\ \A v \in Workers \ {w} : hand'[v] = hand[v]
           /\ WorkerExit(w) \/ WorkerProcess(w) => Busy' = Busy /\ hand' = hand
           /\ WorkerSend(w) \/ WorkerDrop(w)
                => /\ w \in Busy /\ Busy' = Busy \ {w}
                   /\ \A v \in Workers \ {w} : hand'[v] = hand[v]
<1>1. ASSUME WorkerTake(w)
      PROVE  /\ w \notin Busy /\ Busy' = Busy \cup {w}
             /\ hand'[w] = Head(policyChannel)
             /\ \A v \in Workers \ {w} : hand'[v] = hand[v]
  BY <1>1 DEF WorkerTake, Busy, TypeOK
<1>2. ASSUME WorkerExit(w) \/ WorkerProcess(w)  PROVE Busy' = Busy /\ hand' = hand
  BY <1>2 DEF WorkerExit, WorkerProcess, Busy, TypeOK
<1>3. ASSUME WorkerSend(w) \/ WorkerDrop(w)
      PROVE  /\ w \in Busy /\ Busy' = Busy \ {w}
             /\ \A v \in Workers \ {w} : hand'[v] = hand[v]
  BY <1>3 DEF WorkerSend, WorkerDrop, Busy, TypeOK
<1> QED BY <1>1, <1>2, <1>3

LEMMA NextHeld ==
    ASSUME Inv, [Next]_vars
    PROVE  Held'
<1> USE DEF Inv
<1>0. Busy \subseteq Workers
  BY DEF Busy
<1>1. CASE Feed
  <2>1. taken' = taken
    <3>1. Len(policyChannel') = Len(policyChannel) + 1 /\ fed' = fed + 1
      BY <1>1, Lengths, Sizes, RangeAppend DEF Feed, Positions
    <3> QED BY <3>1, Lengths DEF taken
  <2>2. UNCHANGED <<worker, hand, dropped>>
    BY <1>1 DEF Feed, workerVars
  <2> QED BY <2>1, <2>2 DEF Held, Busy
<1>2. ASSUME NEW w \in Workers, WorkerTake(w)  PROVE Held'
  <2>1. /\ policyChannel # <<>> /\ policyChannel' = Tail(policyChannel)
        /\ fed' = fed /\ dropped' = dropped
    BY <1>2 DEF WorkerTake
  <2>2. taken' = taken + 1 /\ taken \in Nat
    BY <2>1, TakeFacts, Lengths DEF taken
  <2>3. /\ w \notin Busy /\ Busy' = Busy \cup {w} /\ hand'[w] = taken + 1
        /\ \A v \in Busy : hand'[v] = hand[v]
    BY <1>0, <1>2, <2>1, WorkerFacts, TakeFacts
  <2>4. taken + 1 \in 1..taken' /\ taken + 1 \notin 1..taken /\ 1..taken \subseteq 1..taken'
    BY <2>2
  <2> QED BY <2>1, <2>3, <2>4 DEF Held
<1>3. ASSUME NEW w \in Workers, WorkerExit(w) \/ WorkerProcess(w)  PROVE Held'
  <2>1. UNCHANGED <<policyChannel, fed, dropped>>
    BY <1>3 DEF WorkerExit, WorkerProcess, feedVars
  <2>2. Busy' = Busy /\ hand' = hand
    BY <1>3, WorkerFacts
  <2> QED BY <2>1, <2>2 DEF Held, taken
<1>4. ASSUME NEW w \in Workers, WorkerSend(w)  PROVE Held'
  <2>1. UNCHANGED <<policyChannel, fed, dropped>>
    BY <1>4 DEF WorkerSend, feedVars
  <2>2. Busy' = Busy \ {w} /\ \A v \in Busy' : hand'[v] = hand[v]
    BY <1>0, <1>4, WorkerFacts
  <2> QED BY <2>1, <2>2 DEF Held, taken
<1>5. ASSUME NEW w \in Workers, WorkerDrop(w)  PROVE Held'
  <2>1. UNCHANGED <<policyChannel, fed>> /\ dropped' = dropped \cup {hand[w]}
    BY <1>5 DEF WorkerDrop, feedVars
  <2>2. w \in Busy /\ Busy' = Busy \ {w} /\ \A v \in Busy' : hand'[v] = hand[v]
    BY <1>0, <1>5, WorkerFacts
  <2> QED BY <2>1, <2>2 DEF Held, taken
<1>6. CASE Cancel \/ FeedEnd \/ CloseResults \/ Collect \/ CollectEnd \/ UNCHANGED vars
  <2>1. UNCHANGED <<policyChannel, fed, worker, hand, dropped>>
    BY <1>6 DEF Cancel, FeedEnd, CloseResults, Collect, CollectEnd, vars, feedVars, workerVars
  <2> QED BY <2>1 DEF Held, taken, Busy
<1> QED BY <1>1, <1>2, <1>3, <1>4, <1>5, <1>6 DEF Next, WorkerStep

LEMMA NextPlaces ==
    ASSUME Inv, [Next]_vars
    PROVE  Places'
<1> USE DEF Inv
<1>0. Busy \subseteq Workers /\ Hands = {hand[v] : v \in Busy}
  BY DEF Busy, Hands
<1>1. CASE Feed
  <2>1. Range(policyChannel') = Range(policyChannel) \cup {fed + 1} /\ fed' = fed + 1
    BY <1>1, Lengths, Sizes, RangeAppend DEF Feed, Positions
  <2>2. 1..fed' = 1..fed \cup {fed + 1}
    BY <2>1, Lengths
  <2>3. UNCHANGED <<resultChannel, results, dropped, worker, hand>>
    BY <1>1 DEF Feed, workerVars, resultVars, callerVars
  <2> QED BY <2>1, <2>2, <2>3 DEF Places, Hands, Busy
<1>2. ASSUME NEW w \in Workers, WorkerTake(w)  PROVE Places'
  <2>1. /\ policyChannel # <<>> /\ policyChannel' = Tail(policyChannel)
        /\ UNCHANGED <<fed, dropped, resultChannel, results>>
    BY <1>2 DEF WorkerTake, resultVars, callerVars
  <2>2. Hands' = Hands \cup {Head(policyChannel)}
    BY <1>0, <1>2, WorkerFacts DEF Hands
  <2> QED BY <2>1, <2>2, TakeFacts DEF Places
<1>3. ASSUME NEW w \in Workers, WorkerExit(w) \/ WorkerProcess(w)  PROVE Places'
  <2>1. UNCHANGED <<policyChannel, fed, dropped, resultChannel, results>>
    BY <1>3 DEF WorkerExit, WorkerProcess, feedVars, resultVars, callerVars
  <2>2. Busy' = Busy /\ hand' = hand
    BY <1>3, WorkerFacts
  <2> QED BY <2>1, <2>2 DEF Places, Hands
<1>4. ASSUME NEW w \in Workers, WorkerSend(w) \/ WorkerDrop(w)
      PROVE  Hands = Hands' \cup {hand[w]} /\ hand[w] \in Positions
  <2>1. hand[w] \in Positions
    BY <1>4, WorkerFacts, Lengths, Sizes DEF Held, taken, Positions
  <2> QED BY <2>1, <1>0, <1>4, WorkerFacts DEF Hands
<1>5. ASSUME NEW w \in Workers, WorkerSend(w)  PROVE Places'
  <2>1. /\ UNCHANGED <<policyChannel, fed, dropped, results>>
        /\ resultChannel' = Append(resultChannel, hand[w])
    BY <1>5 DEF WorkerSend, feedVars, callerVars
  <2>2. Range(resultChannel') = Range(resultChannel) \cup {hand[w]}
    BY <1>4, <1>5, <2>1, Lengths, RangeAppend
  <2> QED BY <1>4, <1>5, <2>1, <2>2 DEF Places
<1>6. ASSUME NEW w \in Workers, WorkerDrop(w)  PROVE Places'
  <2>1. /\ UNCHANGED <<policyChannel, fed, resultChannel, results>>
        /\ dropped' = dropped \cup {hand[w]}
    BY <1>6 DEF WorkerDrop, feedVars, resultVars, callerVars
  <2> QED BY <1>4, <1>6, <2>1 DEF Places
<1>7. CASE Collect
  <2>1. /\ resultChannel # <<>> /\ resultChannel' = Tail(resultChannel)
        /\ results' = Append(results, Head(resultChannel))
        /\ UNCHANGED <<policyChannel, fed, dropped, worker, hand>>
    BY <1>7 DEF Collect, feedVars, workerVars
  <2>2. /\ Range(results') = Range(results) \cup {Head(resultChannel)}
        /\ Range(resultChannel) = Range(resultChannel') \cup {Head(resultChannel)}
    BY <2>1, Lengths, RangeTail, RangeHeadTail, RangeAppend
  <2> QED BY <2>1, <2>2 DEF Places, Hands, Busy
<1>8. CASE Cancel \/ FeedEnd \/ CloseResults \/ CollectEnd \/ UNCHANGED vars
  <2>1. UNCHANGED <<policyChannel, fed, worker, hand, dropped, resultChannel, results>>
    BY <1>8 DEF Cancel, FeedEnd, CloseResults, CollectEnd, vars, feedVars, workerVars,
                resultVars, callerVars
  <2> QED BY <2>1 DEF Places, Hands, Busy
<1> QED BY <1>1, <1>2, <1>3, <1>5, <1>6, <1>7, <1>8 DEF Next, WorkerStep

LEMMA NextTally ==
    ASSUME Inv, [Next]_vars
    PROVE  Tally'
<1> USE DEF Inv
<1>1. /\ IsFiniteSet(Busy) /\ Cardinality(Busy) \in Nat
      /\ \A w : w \notin Busy => Cardinality(Busy \cup {w}) = Cardinality(Busy) + 1
      /\ \A w \in Busy : Cardinality(Busy \ {w}) = Cardinality(Busy) - 1
  <2>1. IsFiniteSet(Workers)
    BY Sizes, FS_Interval DEF Workers
  <2>2. IsFiniteSet(Busy)
    BY <2>1, FS_Subset DEF Busy
  <2> QED BY <2>2, FS_CardinalityType, FS_AddElement, FS_RemoveElement
<1>2. /\ Cardinality(dropped) \in Nat
      /\ \A r : r \notin dropped => Cardinality(dropped \cup {r}) = Cardinality(dropped) + 1
  <2>1. IsFiniteSet(Positions)
    BY Sizes, FS_Interval DEF Positions
  <2>2. IsFiniteSet(dropped)
    BY <2>1, FS_Subset DEF TypeOK
  <2> QED BY <2>2, FS_CardinalityType, FS_AddElement
<1>3. CASE Feed
  <2>1. Len(policyChannel') = Len(policyChannel) + 1 /\ fed' = fed + 1
    BY <1>3, Lengths, Sizes, RangeAppend DEF Feed, Positions
  <2>2. UNCHANGED <<resultChannel, results, dropped, worker>>
    BY <1>3 DEF Feed, workerVars, resultVars, callerVars
  <2>3. Busy' = Busy
    BY <2>2 DEF Busy
  <2> QED BY <1>1, <1>2, <2>1, <2>2, <2>3, Lengths, SMTT(20) DEF Tally
<1>4. ASSUME NEW w \in Workers, WorkerTake(w)  PROVE Tally'
  <2>1. /\ policyChannel # <<>> /\ policyChannel' = Tail(policyChannel)
        /\ UNCHANGED <<fed, dropped, resultChannel, results>>
    BY <1>4 DEF WorkerTake, resultVars, callerVars
  <2>2. Len(policyChannel') = Len(policyChannel) - 1
    BY <2>1, TakeFacts
  <2>3. Cardinality(Busy') = Cardinality(Busy) + 1
    BY <1>1, <1>4, WorkerFacts
  <2> QED BY <1>1, <1>2, <2>1, <2>2, <2>3, Lengths, SMTT(20) DEF Tally
<1>5. ASSUME NEW w \in Workers, WorkerExit(w) \/ WorkerProcess(w)  PROVE Tally'
  <2>1. UNCHANGED <<policyChannel, fed, dropped, resultChannel, results>>
    BY <1>5 DEF WorkerExit, WorkerProcess, feedVars, resultVars, callerVars
  <2>2. Busy' = Busy
    BY <1>5, WorkerFacts
  <2> QED BY <2>1, <2>2 DEF Tally
<1>6. ASSUME NEW w \in Workers, WorkerSend(w)  PROVE Tally'
  <2>1. /\ UNCHANGED <<policyChannel, fed, dropped, results>>
        /\ resultChannel' = Append(resultChannel, hand[w])
    BY <1>6 DEF WorkerSend, feedVars, callerVars
  <2>2. w \in Busy /\ Cardinality(Busy') = Cardinality(Busy) - 1
    BY <1>1, <1>6, WorkerFacts
  <2>3. hand[w] \in Positions
    BY <2>2, Lengths, Sizes DEF Held, taken, Positions
  <2>4. Len(resultChannel') = Len(resultChannel) + 1
    BY <2>1, <2>3, Lengths, RangeAppend
  <2> QED BY <1>1, <1>2, <2>1, <2>2, <2>4, Lengths, SMTT(20) DEF Tally
<1>7. ASSUME NEW w \in Workers, WorkerDrop(w)  PROVE Tally'
  <2>1. /\ UNCHANGED <<policyChannel, fed, resultChannel, results>>
        /\ dropped' = dropped \cup {hand[w]}
    BY <1>7 DEF WorkerDrop, feedVars, resultVars, callerVars
  <2>2. w \in Busy /\ Cardinality(Busy') = Cardinality(Busy) - 1
    BY <1>1, <1>7, WorkerFacts
  <2>3. Cardinality(dropped') = Cardinality(dropped) + 1
    BY <1>2, <2>1, <2>2 DEF Held
  <2> QED BY <1>1, <1>2, <2>1, <2>2, <2>3, Lengths, SMTT(20) DEF Tally
<1>8. CASE Collect
  <2>1. /\ resultChannel # <<>> /\ resultChannel' = Tail(resultChannel)
        /\ results' = Append(results, Head(resultChannel))
        /\ UNCHANGED <<policyChannel, fed, dropped, worker>>
    BY <1>8 DEF Collect, feedVars, workerVars
  <2>2. Len(results') = Len(results) + 1 /\ Len(resultChannel') = Len(resultChannel) - 1
    BY <2>1, Lengths, RangeTail, RangeAppend
  <2>3. /\ Cardinality(Busy') = Cardinality(Busy) /\ fed' = fed
        /\ Cardinality(dropped') = Cardinality(dropped)
        /\ Len(policyChannel') = Len(policyChannel)
    BY <2>1 DEF Busy
  <2>4. Len(resultChannel') + Len(results') = Len(resultChannel) + Len(results)
    BY <2>2, Lengths
  <2>5. /\ Len(resultChannel') \in Int /\ Len(results') \in Int
        /\ Cardinality(Busy) \in Int /\ Cardinality(dropped) \in Int
        /\ Len(policyChannel) \in Int /\ Len(resultChannel) \in Int /\ Len(results) \in Int
    BY <1>1, <1>2, <2>2, Lengths
  <2>6. fed = Len(policyChannel) + Cardinality(Busy) + Len(resultChannel')
                + Len(results') + Cardinality(dropped)
    <3> DEFINE rest == Len(policyChannel) + Cardinality(Busy) + Cardinality(dropped)
    <3>1. rest \in Int /\ fed = rest + (Len(resultChannel) + Len(results))
      BY <2>5 DEF Tally
    <3>2. fed = rest + (Len(resultChannel') + Len(results'))
      BY <3>1, <2>4
    <3> QED BY <2>5, <3>2
  <2>7. fed' = Len(policyChannel') + Cardinality(Busy') + Len(resultChannel')
                 + Len(results') + Cardinality(dropped')
    BY <2>3, <2>6
  <2> QED BY <2>7 DEF Tally
<1>9. CASE Cancel \/ FeedEnd \/ CloseResults \/ CollectEnd \/ UNCHANGED vars
  <2>1. UNCHANGED <<policyChannel, fed, worker, dropped, resultChannel, results>>
    BY <1>9 DEF Cancel, FeedEnd, CloseResults, CollectEnd, vars, feedVars, workerVars,
                resultVars, callerVars
  <2> QED BY <2>1 DEF Tally, Busy
<1> QED BY <1>3, <1>4, <1>5, <1>6, <1>7, <1>8, <1>9 DEF Next, WorkerStep

LEMMA NextEnds ==
    ASSUME Inv, [Next]_vars
    PROVE  Ends'
<1> USE DEF Inv
<1>1. CASE Cancel
  BY <1>1 DEF Cancel, Ends, feedVars, workerVars, resultVars, callerVars
<1>2. CASE Feed
  <2>1. ~policyClosed /\ UNCHANGED <<policyClosed, contextVars, workerVars, resultVars, callerVars>>
    BY <1>2 DEF Feed
  <2> QED BY <2>1 DEF Ends, contextVars, workerVars, resultVars, callerVars
<1>3. CASE FeedEnd
  BY <1>3 DEF FeedEnd, Ends, contextVars, workerVars, resultVars, callerVars
<1>4. ASSUME NEW w \in Workers, WorkerStep(w)
      PROVE  /\ UNCHANGED <<policyClosed, fed, resultClosed, ctxDone, caller>>
             /\ worker[w] # "exited" /\ ~resultClosed
             /\ \A v \in Workers \ {w} : worker'[v] = worker[v]
             /\ policyChannel = <<>> => policyChannel' = <<>>
  <2>1. /\ UNCHANGED <<policyClosed, fed, resultClosed, ctxDone, caller>>
        /\ worker[w] # "exited"
        /\ \A v \in Workers \ {w} : worker'[v] = worker[v]
        /\ policyChannel = <<>> => policyChannel' = <<>>
    BY <1>4 DEF WorkerStep, WorkerTake, WorkerExit, WorkerProcess, WorkerSend, WorkerDrop,
                contextVars, feedVars, resultVars, callerVars, TypeOK
  <2> QED BY <2>1 DEF Ends
<1>5. ASSUME NEW w \in Workers, WorkerTake(w) \/ WorkerProcess(w) \/ WorkerSend(w)
      PROVE  Ends'
  <2>1. worker'[w] # "exited" /\ dropped' = dropped
    BY <1>5 DEF WorkerTake, WorkerProcess, WorkerSend, TypeOK
  <2>2. WorkerStep(w)
    BY <1>5 DEF WorkerStep
  <2>3. caller = "done" => ctxDone
    BY <1>4, <2>2 DEF Ends
  <2> QED BY <1>4, <2>1, <2>2, <2>3 DEF Ends
<1>6. ASSUME NEW w \in Workers, WorkerExit(w) \/ WorkerDrop(w)
      PROVE  Ends'
  <2>1. /\ (policyClosed /\ policyChannel = <<>>) \/ ctxDone
        /\ dropped' # {} => dropped # {} \/ ctxDone
    BY <1>6 DEF WorkerExit, WorkerDrop
  <2>2. WorkerStep(w)
    BY <1>6 DEF WorkerStep
  <2>3. caller = "done" => ctxDone
    BY <1>4, <2>2 DEF Ends
  <2> QED BY <1>4, <2>1, <2>2, <2>3 DEF Ends
<1>7. CASE CloseResults
  <2>1. /\ ~resultClosed /\ \A w \in Workers : worker[w] = "exited"
        /\ UNCHANGED <<contextVars, feedVars, workerVars, callerVars>>
    BY <1>7 DEF CloseResults
  <2> QED BY <2>1 DEF Ends, contextVars, feedVars, workerVars, callerVars
<1>8. CASE Collect
  <2>1. /\ resultChannel # <<>> /\ UNCHANGED <<resultClosed, caller>>
        /\ UNCHANGED <<contextVars, feedVars, workerVars>>
    BY <1>8 DEF Collect
  <2> QED BY <2>1 DEF Ends, contextVars, feedVars, workerVars
<1>9. CASE CollectEnd
  <2>1. /\ (resultClosed /\ resultChannel = <<>>) \/ ctxDone
        /\ UNCHANGED <<contextVars, feedVars, workerVars, resultVars>>
    BY <1>9 DEF CollectEnd
  <2> QED BY <2>1 DEF Ends, contextVars, feedVars, workerVars, resultVars
<1>10. CASE UNCHANGED vars
  BY <1>10 DEF vars, Ends, contextVars, feedVars, workerVars, resultVars, callerVars
<1> QED BY <1>1, <1>2, <1>3, <1>5, <1>6, <1>7, <1>8, <1>9, <1>10 DEF Next, WorkerStep

LEMMA Invariance == Spec => []Inv
<1>1. Inv /\ [Next]_vars => Inv'
  BY NextTypeOK, NextWaiting, NextHeld, NextPlaces, NextTally, NextEnds DEF Inv
<1> QED BY <1>1, InitInv, PTL DEF Spec

-----------------------------------------------------------------------------
\* Every variable keeps its type, and the channels their capacities.
THEOREM TypeCorrect == Spec => []TypeOK
<1>1. Inv => TypeOK
  BY DEF Inv
<1> QED BY <1>1, Invariance, PTL

\* No policy is lost or duplicated between the caller and the workers, for any
\* batch and any number of workers, cancelled or not.
THEOREM ConservedCorrect == Spec => []Conserved
<1>1. Inv => Conserved
  BY DEF Inv, Places, Tally, Hands, Conserved
<1> QED BY <1>1, Invariance, PTL

\* A call that was not cancelled returns exactly one result for each policy.
THEOREM OneResultEachCorrect == Spec => []OneResultEach
<1>1. ASSUME Inv, caller = "done", ~ctxDone
      PROVE  Range(results) = Positions /\ Len(results) = BatchSize
  <2>1. /\ resultClosed /\ resultChannel = <<>> /\ dropped = {}
        /\ \A w \in Workers : worker[w] = "exited"
    BY <1>1 DEF Inv, Ends
  <2>2. 1 \in Workers
    BY Sizes DEF Workers
  <2>3. policyClosed /\ policyChannel = <<>> /\ fed = BatchSize
    BY <1>1, <2>1, <2>2 DEF Inv, Ends
  <2>4. Busy = {} /\ Hands = {}
    BY <2>1 DEF Busy, Hands
  <2>5. Range(<<>>) = {} /\ Len(<<>>) = 0 /\ Cardinality({}) = 0
    BY RangeEmpty, FS_EmptySet, EmptySeq
  <2>6. Range(results) = Positions
    BY <1>1, <2>1, <2>3, <2>4, <2>5 DEF Inv, Places, Positions
  <2>7. Len(results) = BatchSize
    <3>1. BatchSize = 0 + 0 + 0 + Len(results) + 0
      BY <1>1, <2>1, <2>3, <2>4, <2>5 DEF Inv, Tally
    <3> QED BY <1>1, <3>1, Lengths DEF Inv
  <2> QED BY <2>6, <2>7
<1>2. Inv => OneResultEach
  BY <1>1 DEF OneResultEach
<1> QED BY <1>2, Invariance, PTL

\* Sends never block and never panic: the results channel is open and has room
\* whenever a worker has a result, even after the caller has left.
THEOREM SendsAtOnceCorrect == Spec => []SendsAtOnce
<1>1. ASSUME Inv, NEW w \in Workers, worker[w] = "send"
      PROVE  ~resultClosed /\ Len(resultChannel) < ResultCap
  <2>1. w \in Busy /\ ~resultClosed
    BY <1>1 DEF Inv, Ends, Busy
  <2>2. IsFiniteSet(Busy) /\ IsFiniteSet(dropped)
    <3>1. IsFiniteSet(Workers) /\ IsFiniteSet(Positions)
      BY Sizes, FS_Interval DEF Workers, Positions
    <3>2. Busy \subseteq Workers /\ dropped \subseteq Positions
      BY <1>1 DEF Busy, Inv, TypeOK
    <3> QED BY <3>1, <3>2, FS_Subset
  <2>3. Cardinality(Busy) \in Nat /\ Cardinality(Busy) # 0 /\ Cardinality(dropped) \in Nat
    BY <2>1, <2>2, FS_CardinalityType, FS_EmptySet
  <2>4. fed = Len(policyChannel) + Cardinality(Busy) + Len(resultChannel)
                + Len(results) + Cardinality(dropped)
    BY <1>1 DEF Inv, Tally
  <2>5. Len(resultChannel) < BatchSize
    BY <1>1, <2>3, <2>4, Lengths, Sizes DEF Inv
  <2> QED BY <2>1, <2>5 DEF ResultCap
<1>2. Inv => SendsAtOnce
  BY <1>1 DEF SendsAtOnce
<1> QED BY <1>2, Invariance, PTL
=============================================================================
