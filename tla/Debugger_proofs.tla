-------------------------- MODULE Debugger_proofs --------------------------
(***************************************************************************)
(* Theorems about the breakpoint table, the keyboard queue and the runs of *)
(* the debugger, for every size of the arrays and every length of a frame. *)
(***************************************************************************)
EXTENDS Debugger, FunctionTheorems, FiniteSetTheorems, SequenceTheorems, TLAPS

(***************************************************************************)
(* The keyboard ring.                                                      *)
(***************************************************************************)
KeyInv == KeyTypeOK /\ RingConsistent

LEMMA EncodedIsEvent ==
  ASSUME NEW s \in Scans, NEW p \in BOOLEAN PROVE Encoded(s, p) \in Events
BY DEF Events

LEMMA KeyInvInit == KeyInit => KeyInv
<1> SUFFICES ASSUME KeyInit PROVE KeyInv
  OBVIOUS
<1>1. ring \in [Slots -> Events \cup {0}]
  BY DEF KeyInit
<1>2. top \in Slots /\ bottom \in Slots /\ count \in 0..QueueSize
  BY QueueAssumption DEF KeyInit, Slots
<1>3. keyFlag \in BOOLEAN
  BY DEF KeyInit
<1>4. RingConsistent
  BY QueueAssumption DEF KeyInit, RingConsistent
<1> QED
  BY <1>1, <1>2, <1>3, <1>4 DEF KeyInv, KeyTypeOK

LEMMA KeyInvEvent ==
  ASSUME KeyInv, NEW s \in Scans, NEW p \in BOOLEAN, KeyEvent(s, p), UNCHANGED keyFlag
  PROVE  KeyInv'
<1> USE QueueAssumption DEF KeyInv, KeyTypeOK, RingConsistent, Slots
<1>1. CASE count = QueueSize
  BY <1>1 DEF KeyEvent, queueVars
<1>2. CASE count # QueueSize
  <2>1. Encoded(s, p) \in Events
    BY EncodedIsEvent
  <2> QED
    BY <1>2, <2>1 DEF KeyEvent, After
<1> QED
  BY <1>1, <1>2

LEMMA KeyInvProcess == ASSUME KeyInv, ProcessKeyEvent PROVE KeyInv'
<1> USE QueueAssumption DEF KeyInv, KeyTypeOK, RingConsistent, Slots
<1>1. CASE count = 0
  BY <1>1 DEF ProcessKeyEvent, keyVars, queueVars
<1>2. CASE count # 0
  <2>1. keyFlag' = keyFlag \/ keyFlag' = (ring[bottom] >= Pressed)
    BY <1>2, Zenon DEF ProcessKeyEvent
  <2>3. ring[bottom] \in Nat
    BY ScanAssumption DEF Events, Encoded, Pressed
  <2>4. (ring[bottom] >= Pressed) \in BOOLEAN
    BY <2>3 DEF Pressed
  <2>2. keyFlag' \in BOOLEAN
    BY <2>1, <2>4, Zenon
  <2> QED
    BY <1>2, <2>2 DEF ProcessKeyEvent, GetKeyEventFromQueue, After
<1> QED
  BY <1>1, <1>2

LEMMA KeyInvNext == KeyInv /\ [KeyNext]_keyVars => KeyInv'
<1> SUFFICES ASSUME KeyInv, [KeyNext]_keyVars PROVE KeyInv'
  OBVIOUS
<1>1. CASE UNCHANGED keyVars
  BY <1>1 DEF KeyInv, KeyTypeOK, RingConsistent, keyVars, queueVars
<1> QED
  BY <1>1, KeyInvEvent, KeyInvProcess DEF KeyNext

(* The ring's numbers stay in range and agree with each other. *)
THEOREM RingCorrect == KeySpec => []KeyQueueOK
<1>1. KeyInv => KeyQueueOK
  BY DEF KeyInv, KeyQueueOK
<1> QED
  BY <1>1, KeyInvInit, KeyInvNext, PTL DEF KeySpec

(* Counted from any cell the wrapped index is one of the ring's. *)
LEMMA SlotInRing ==
  \A b \in 0..(QueueSize - 1), c \in 0..QueueSize : \A k \in 1..c :
    (IF b + k - 1 >= QueueSize THEN b + k - 1 - QueueSize ELSE b + k - 1) \in Slots
BY QueueAssumption DEF Slots

(* What waits in the ring is a sequence of events. *)
LEMMA WaitingIsSequence ==
  ASSUME KeyInv
  PROVE  /\ Waiting \in Seq(Events \cup {0})
         /\ Len(Waiting) = count
         /\ \A k \in 1..count : Waiting[k] = ring[SlotOf(k)]
<1>1. \A k \in 1..count : SlotOf(k) \in Slots
  BY QueueAssumption DEF KeyInv, KeyTypeOK, Slots, SlotOf
<1>2. Waiting \in [1..count -> Events \cup {0}] /\ count \in Nat
  BY <1>1, QueueAssumption DEF KeyInv, KeyTypeOK, Waiting
<1>3. Waiting \in Seq(Events \cup {0}) /\ Len(Waiting) = count
  BY <1>2
<1> QED
  BY <1>3 DEF Waiting

LEMMA WaitingIsSequencePrime ==
  ASSUME KeyInv'
  PROVE  /\ Waiting' \in Seq(Events \cup {0})
         /\ Len(Waiting') = count'
         /\ \A k \in 1..count' : Waiting'[k] = ring'[SlotOf(k)']
<1>1. \A k \in 1..count' : SlotOf(k)' \in Slots
  <2>1. bottom' \in 0..(QueueSize - 1) /\ count' \in 0..QueueSize
    BY DEF KeyInv, KeyTypeOK, Slots
  <2> QED
    BY <2>1, SlotInRing DEF SlotOf
<1>2. Waiting' \in [1..count' -> Events \cup {0}] /\ count' \in Nat
  BY <1>1, QueueAssumption DEF KeyInv, KeyTypeOK, Waiting
<1>3. Waiting' \in Seq(Events \cup {0}) /\ Len(Waiting') = count'
  BY <1>2
<1> QED
  BY <1>3 DEF Waiting

LEMMA EventIsAccepted ==
  ASSUME KeyInv, KeyInv', NEW s \in Scans, NEW p \in BOOLEAN, KeyEvent(s, p),
         UNCHANGED keyFlag, count # QueueSize
  PROVE  Fifo!Accept(Encoded(s, p))
<1> DEFINE e == Encoded(s, p)
           S == Events \cup {0}
           u == Append(Waiting, e)
           w == Waiting'
<1>1. e \in S
  BY EncodedIsEvent
<1>2. /\ count' = count + 1 /\ bottom' = bottom
      /\ ring' = [ring EXCEPT ![top] = e]
  BY DEF KeyEvent
<1>3. count \in 0..(QueueSize - 1) /\ bottom \in Slots /\ top \in Slots /\ ring \in [Slots -> S]
  BY QueueAssumption DEF KeyInv, KeyTypeOK
<1>4. /\ Waiting \in Seq(S) /\ Len(Waiting) = count
      /\ \A k \in 1..count : Waiting[k] = ring[SlotOf(k)]
  BY WaitingIsSequence
<1>5. /\ w \in Seq(S) /\ Len(w) = count + 1
      /\ \A k \in 1..(count + 1) : w[k] = ring'[SlotOf(k)]
  BY <1>2, WaitingIsSequencePrime DEF SlotOf
<1>6. /\ u \in Seq(S) /\ Len(u) = count + 1 /\ u[count + 1] = e
      /\ \A k \in 1..count : u[k] = Waiting[k]
  BY <1>1, <1>4, AppendProperties
<1>7. \A k \in 1..count : SlotOf(k) # top /\ SlotOf(k) \in Slots
  BY <1>3, QueueAssumption DEF SlotOf, Slots, KeyInv, RingConsistent
<1>8. SlotOf(count + 1) = top
  BY <1>3, QueueAssumption DEF SlotOf, Slots, KeyInv, RingConsistent
<1>9. \A k \in 1..(count + 1) : w[k] = u[k]
  <2> TAKE k \in 1..(count + 1)
  <2>1. CASE k = count + 1
    BY <1>2, <1>3, <1>5, <1>6, <1>8, <2>1
  <2>2. CASE k # count + 1
    <3>1. k \in 1..count
      BY <2>2, <1>3
    <3> QED
      BY <3>1, <1>2, <1>3, <1>4, <1>5, <1>6, <1>7
  <2> QED
    BY <2>1, <2>2
<1>10. w = u
  <2> HIDE DEF w, u, S
  <2> QED
    BY <1>5, <1>6, <1>9, SeqEqual
<1> QED
  BY <1>3, <1>4, <1>10, QueueAssumption DEF Fifo!Accept

LEMMA EventIsDelivered ==
  ASSUME KeyInv, KeyInv', ProcessKeyEvent, count # 0
  PROVE  Fifo!Deliver
<1> DEFINE S == Events \cup {0}
           u == Tail(Waiting)
           w == Waiting'
<1>1. count' = count - 1 /\ bottom' = After(bottom) /\ ring' = ring
  BY DEF ProcessKeyEvent, GetKeyEventFromQueue
<1>2. count \in 1..QueueSize /\ bottom \in Slots
  BY QueueAssumption DEF KeyInv, KeyTypeOK
<1>3. /\ Waiting \in Seq(S) /\ Len(Waiting) = count
      /\ \A k \in 1..count : Waiting[k] = ring[SlotOf(k)]
  BY WaitingIsSequence
<1>4. /\ w \in Seq(S) /\ Len(w) = count - 1
      /\ \A k \in 1..(count - 1) : w[k] = ring[SlotOf(k)']
  BY <1>1, WaitingIsSequencePrime
<1>5. Waiting # << >>
  BY <1>2, <1>3
<1>6. u \in Seq(S) /\ Len(u) = count - 1 /\ \A k \in 1..(count - 1) : u[k] = Waiting[k + 1]
  BY <1>2, <1>3, <1>5
<1>7. \A k \in 1..(count - 1) : SlotOf(k)' = SlotOf(k + 1)
  BY <1>1, <1>2, QueueAssumption DEF SlotOf, After, Slots
<1>8. \A k \in 1..(count - 1) : w[k] = u[k]
  BY <1>2, <1>3, <1>4, <1>6, <1>7
<1>9. w = u
  <2> HIDE DEF w, u, S
  <2> QED
    BY <1>4, <1>6, <1>8, SeqEqual
<1>10. Head(Waiting) = ring[bottom] /\ ring[bottom] \in S
  <2>1. SlotOf(1) = bottom
    BY <1>2, QueueAssumption DEF SlotOf, Slots
  <2>2. Head(Waiting) = Waiting[1] /\ 1 \in 1..count
    BY <1>2, <1>3, <1>5
  <2>3. ring[bottom] \in S
    BY <1>2 DEF KeyInv, KeyTypeOK
  <2> QED
    BY <1>3, <2>1, <2>2, <2>3
<1>11. keyFlag' = IF Head(Waiting) = 0 THEN keyFlag
                  ELSE Head(Waiting) \in {e \in Events : e >= Pressed}
  <2>1. keyFlag' = IF ring[bottom] = 0 THEN keyFlag ELSE ring[bottom] >= Pressed
    BY DEF ProcessKeyEvent
  <2>2. CASE ring[bottom] = 0
    BY <1>10, <2>1, <2>2
  <2>3. CASE ring[bottom] # 0
    <3>1. Head(Waiting) \in Events /\ Head(Waiting) # 0 /\ Head(Waiting) = ring[bottom]
      BY <1>10, <2>3
    <3>2. keyFlag' = (Head(Waiting) >= Pressed)
      BY <2>1, <2>3, <3>1
    <3> QED
      BY <3>1, <3>2
  <2> QED
    BY <2>2, <2>3
<1> QED
  BY <1>5, <1>9, <1>11 DEF Fifo!Deliver

(* Events leave the ring in the order in which they came, only an event     *)
(* that finds QueueSize others is not put in, and each one that leaves      *)
(* presses or releases the board's key, but for the silent one, coded 0.    *)
THEOREM QueueIsFifo == KeySpec => FifoSpec
<1>1. KeyInit => Fifo!EqInit
  <2> SUFFICES ASSUME KeyInit PROVE Waiting = << >>
    BY DEF Fifo!EqInit, KeyInit
  <2>1. Waiting \in Seq(Events \cup {0}) /\ Len(Waiting) = 0
    BY KeyInvInit, WaitingIsSequence DEF KeyInit
  <2> QED
    BY <2>1
<1>2. KeyInv /\ KeyInv' /\ [KeyNext]_keyVars => [Fifo!EqNext]_<<Waiting, keyFlag>>
  <2> SUFFICES ASSUME KeyInv, KeyInv', [KeyNext]_keyVars
               PROVE  [Fifo!EqNext]_<<Waiting, keyFlag>>
    OBVIOUS
  <2>1. ASSUME UNCHANGED queueVars PROVE UNCHANGED Waiting
    BY <2>1 DEF Waiting, SlotOf, queueVars
  <2>2. ASSUME NEW s \in Scans, NEW p \in BOOLEAN, KeyEvent(s, p), UNCHANGED keyFlag
        PROVE  [Fifo!EqNext]_<<Waiting, keyFlag>>
    <3>1. CASE count = QueueSize
      BY <2>1, <2>2, <3>1 DEF KeyEvent
    <3>2. CASE count # QueueSize
      BY <2>2, <3>2, EventIsAccepted, EncodedIsEvent DEF Fifo!EqNext
    <3> QED
      BY <3>1, <3>2
  <2>3. CASE ProcessKeyEvent
    <3>1. CASE count = 0
      BY <2>1, <2>3, <3>1 DEF ProcessKeyEvent, keyVars
    <3>2. CASE count # 0
      BY <2>3, <3>2, EventIsDelivered DEF Fifo!EqNext
    <3> QED
      BY <3>1, <3>2
  <2>4. CASE UNCHANGED keyVars
    BY <2>1, <2>4 DEF keyVars
  <2> QED
    BY <2>2, <2>3, <2>4 DEF KeyNext
<1>3. KeySpec => []KeyInv
  BY KeyInvInit, KeyInvNext, PTL DEF KeySpec
<1> QED
  BY <1>1, <1>2, <1>3, PTL DEF KeySpec, FifoSpec, Fifo!EqSpec
(***************************************************************************)
(* The breakpoint table.                                                   *)
(***************************************************************************)
BpInv == BpTypeOK /\ Compact /\ Distinct /\ TempInTable /\ RoomForTemp

(* A table in order: what BpInv says of the array and its count. *)
InOrder(c, n) ==
  /\ c \in [Cells -> Addresses \cup {NoAddress}]
  /\ n \in 0..MaxCount
  /\ \A i \in Cells : c[i] # NoAddress <=> i < n
  /\ \A i, j \in Cells : i < n /\ j < n /\ c[i] = c[j] => i = j

LEMMA BpInvInOrder == BpTypeOK /\ Compact /\ Distinct <=>
  InOrder(bps, bpsCount) /\ temp \in Addresses \cup {NoAddress} /\ running \in BOOLEAN
BY DEF BpTypeOK, Compact, Distinct, InOrder, UsedCells

(* Removing an address leaves the table in order, takes that address out    *)
(* and no other, and counts it.                                             *)
LEMMA RemovedInOrder ==
  ASSUME NEW c, NEW n, InOrder(c, n), NEW a \in Addresses,
         NEW r, r = Removed([cells |-> c, count |-> n], a)
  PROVE  /\ InOrder(r.cells, r.count)
         /\ \A b \in Addresses : (\E i \in Cells : i < MaxCount /\ r.cells[i] = b)
                                 <=> b # a /\ \E i \in Cells : i < MaxCount /\ c[i] = b
         /\ r.count = IF \E i \in Cells : i < MaxCount /\ c[i] = a THEN n - 1 ELSE n
<1> DEFINE Found == \E i \in Cells : i < MaxCount /\ c[i] = a
<1>1. CASE ~Found
  <2>1. r = [cells |-> c, count |-> n]
    BY <1>1 DEF Removed
  <2> QED
    BY <1>1, <2>1
<1>2. CASE Found
  <2> DEFINE i == CHOOSE i \in Cells : i < MaxCount /\ c[i] = a
             last == n - 1
  <2>1. i \in Cells /\ i < MaxCount /\ c[i] = a
    BY <1>2
  <2>2. i < n /\ n \in 1..MaxCount /\ last \in Cells
    BY <2>1, AddressAssumption, MaxCountAssumption DEF InOrder, Cells
  <2> DEFINE d == IF last > i THEN [c EXCEPT ![i] = c[last], ![last] = NoAddress]
                               ELSE [c EXCEPT ![i] = NoAddress]
  <2>3. r = [cells |-> d, count |-> last]
    BY <1>2, <2>2, AddressAssumption DEF Removed
  <2>7. r.cells = d /\ r.count = last
    <3> HIDE DEF d, last
    <3> QED
      BY <2>3
  <2> HIDE DEF i
  <2>4. /\ r.count = last
        /\ r.cells \in [Cells -> Addresses \cup {NoAddress}]
        /\ \A j \in Cells : r.cells[j] = IF j = last THEN NoAddress
                                         ELSE IF j = i THEN c[last] ELSE c[j]
    <3>1. CASE last > i
      <4>1. r.cells = [c EXCEPT ![i] = c[last], ![last] = NoAddress] /\ r.count = last
        BY <2>7, <3>1, Zenon
      <4> QED
        BY <2>1, <2>2, <3>1, <4>1 DEF InOrder
    <3>2. CASE ~(last > i)
      <4>1. r.cells = [c EXCEPT ![i] = NoAddress] /\ r.count = last
        BY <2>7, <3>2, Zenon
      <4>2. i = last
        BY <2>1, <2>2, <3>2 DEF Cells
      <4> QED
        BY <2>1, <2>2, <4>1, <4>2 DEF InOrder
    <3> QED
      BY <3>1, <3>2
  <2>5. InOrder(r.cells, r.count)
    BY <2>1, <2>2, <2>4, MaxCountAssumption DEF InOrder, Cells
  <2>6. ASSUME NEW b \in Addresses
        PROVE  (\E k \in Cells : k < MaxCount /\ r.cells[k] = b)
               <=> b # a /\ \E k \in Cells : k < MaxCount /\ c[k] = b
    <3>1. ASSUME NEW k \in Cells, k < MaxCount, r.cells[k] = b
          PROVE  b # a /\ \E m \in Cells : m < MaxCount /\ c[m] = b
      <4>1. k # last /\ b = IF k = i THEN c[last] ELSE c[k]
        BY <2>4, <3>1, AddressAssumption
      <4>2. k < last
        BY <2>2, <2>4, <2>5, <3>1, AddressAssumption DEF InOrder, Cells
      <4>3. CASE k = i
        BY <2>1, <2>2, <4>1, <4>2, <4>3, MaxCountAssumption DEF InOrder, Cells
      <4>4. CASE k # i
        BY <2>1, <2>2, <3>1, <4>1, <4>2, <4>4, MaxCountAssumption DEF InOrder, Cells
      <4> QED
        BY <4>3, <4>4
    <3>2. ASSUME b # a, NEW k \in Cells, k < MaxCount, c[k] = b
          PROVE  \E m \in Cells : m < MaxCount /\ r.cells[m] = b
      <4>1. k # i /\ k < n
        BY <2>1, <3>2, AddressAssumption DEF InOrder
      <4>2. CASE k = last
        BY <2>1, <2>2, <2>4, <3>2, <4>1, <4>2
      <4>3. CASE k # last
        BY <2>4, <3>2, <4>1, <4>3
      <4> QED
        BY <4>2, <4>3
    <3> QED
      BY <3>1, <3>2
  <2> QED
    BY <1>2, <2>4, <2>5, <2>6
<1> QED
  BY <1>1, <1>2

LEMMA BpInvInit == BpInit => BpInv
<1> SUFFICES ASSUME BpInit PROVE BpInv
  OBVIOUS
<1>1. bps \in [Cells -> Addresses \cup {NoAddress}] /\ \A i \in Cells : bps[i] = NoAddress
  BY DEF BpInit
<1>2. bpsCount = 0 /\ temp = NoAddress /\ running = FALSE
  BY DEF BpInit
<1>3. BpTypeOK
  <2>1. bpsCount \in 0..MaxCount
    BY <1>2, MaxCountAssumption
  <2>2. running \in BOOLEAN /\ temp \in Addresses \cup {NoAddress}
    BY <1>2, Zenon
  <2> QED
    BY <1>1, <2>1, <2>2, Zenon DEF BpTypeOK
<1>4. Compact /\ Distinct /\ TempInTable /\ RoomForTemp
  BY <1>1, <1>2, MaxCountAssumption
     DEF Compact, Distinct, TempInTable, RoomForTemp, Cells, UsedCells
<1> QED
  BY <1>3, <1>4 DEF BpInv

(* A breakpoint goes into the cell that the count names. *)
LEMMA PlacedInOrder ==
  ASSUME NEW c, NEW n, InOrder(c, n), n < MaxCount, NEW a \in Addresses,
         \A i \in Cells : i < n => c[i] # a
  PROVE  InOrder([c EXCEPT ![n] = a], n + 1)
BY AddressAssumption, MaxCountAssumption DEF InOrder, Cells

LEMMA BpInvAdd ==
  ASSUME BpInv, NEW a \in Addresses, AddCPUBreakpoint(a)
  PROVE  BpInv' /\ bps' = [bps EXCEPT ![bpsCount] = a]
<1>1. ~running /\ temp = NoAddress /\ InOrder(bps, bpsCount)
  BY BpInvInOrder DEF BpInv, TempInTable, AddCPUBreakpoint
<1>2. bpsCount < MaxCount - 1
  BY <1>1, MaxCountAssumption DEF BpInv, RoomForTemp, AddCPUBreakpoint, InOrder
<1>3. ASSUME NEW i \in Cells, FirstEmpty(i) PROVE i = bpsCount
  BY <1>1, <1>2, <1>3, MaxCountAssumption DEF FirstEmpty, InOrder, Cells
<1>4. bps' = [bps EXCEPT ![bpsCount] = a] /\ bpsCount' = bpsCount + 1
  BY <1>3 DEF AddCPUBreakpoint
<1>5. InOrder(bps', bpsCount')
  <2>1. \A i \in Cells : i < bpsCount => bps[i] # a
    BY DEF AddCPUBreakpoint, UsedCells
  <2>2. bpsCount < MaxCount
    BY <1>1, <1>2, MaxCountAssumption DEF InOrder
  <2>3. InOrder([bps EXCEPT ![bpsCount] = a], bpsCount + 1)
    BY <1>1, <2>1, <2>2, PlacedInOrder
  <2> QED
    BY <1>4, <2>3
<1>6. temp' = temp /\ running' = running
  BY DEF AddCPUBreakpoint
<1> QED
  BY <1>1, <1>2, <1>4, <1>5, <1>6, MaxCountAssumption
     DEF BpInv, BpTypeOK, Compact, Distinct, TempInTable, RoomForTemp, InOrder, UsedCells
LEMMA BpInvRemove ==
  ASSUME BpInv, NEW a \in Addresses, RemoveCPUBreakpoint(a)
  PROVE  /\ BpInv'
         /\ temp = NoAddress
         /\ \A b \in Addresses : Listed(b)' <=> b # a /\ Listed(b)
<1> DEFINE r == Removed(Table, a)
<1>1. ~running /\ temp = NoAddress /\ InOrder(bps, bpsCount) /\ bpsCount < MaxCount
  BY BpInvInOrder DEF BpInv, TempInTable, RoomForTemp, RemoveCPUBreakpoint
<1>2. bps' = r.cells /\ bpsCount' = r.count /\ temp' = temp /\ running' = running
  BY DEF RemoveCPUBreakpoint, Becomes
<1>3. /\ InOrder(r.cells, r.count)
      /\ \A b \in Addresses : (\E i \in Cells : i < MaxCount /\ r.cells[i] = b)
                              <=> b # a /\ Listed(b)
      /\ r.count \in {bpsCount, bpsCount - 1}
  BY <1>1, RemovedInOrder DEF Table, Listed
<1> HIDE DEF r
<1>4. InOrder(bps', bpsCount') /\ bpsCount' < MaxCount
  BY <1>1, <1>2, <1>3, MaxCountAssumption DEF InOrder
<1> QED
  BY <1>1, <1>2, <1>3, <1>4
     DEF BpInv, BpTypeOK, Compact, Distinct, TempInTable, RoomForTemp, InOrder, UsedCells, Listed

LEMMA BpInvRemoveAll ==
  ASSUME BpInv, RemoveAllBreakpoints PROVE BpInv' /\ temp = NoAddress
<1>1. ~running /\ temp = NoAddress /\ temp' = temp /\ running' = running /\ running \in BOOLEAN
  BY DEF BpInv, BpTypeOK, TempInTable, RemoveAllBreakpoints
<1>2. /\ bps' \in [Cells -> Addresses \cup {NoAddress}]
      /\ \A i \in Cells : bps'[i] = NoAddress
      /\ bpsCount' = 0
  BY DEF RemoveAllBreakpoints
<1> QED
  BY <1>1, <1>2, MaxCountAssumption
     DEF BpInv, BpTypeOK, Compact, Distinct, TempInTable, RoomForTemp, Cells, UsedCells

(* A run begins with no temporary breakpoint, so that nothing is removed;   *)
(* the new one goes behind the others, where a cell is kept for it.         *)
LEMMA BpInvRunTo ==
  ASSUME BpInv, NEW a \in Addresses, RunTo(a)
  PROVE  /\ BpInv'
         /\ temp = NoAddress
         /\ \/ Listed(a) /\ UNCHANGED <<bps, bpsCount, temp>>
            \/ /\ ~Listed(a) /\ temp' = a
               /\ \A b \in Addresses : Listed(b)' <=> b = a \/ Listed(b)
<1>1. ~running /\ temp = NoAddress /\ InOrder(bps, bpsCount) /\ bpsCount < MaxCount
  BY BpInvInOrder DEF BpInv, TempInTable, RoomForTemp, RunTo
<1>2. Removed(Table, temp) = Table
  BY <1>1 DEF Removed
<1>3. running' = TRUE
  BY DEF RunTo
<1>4. CASE Listed(a)
  <2>1. UNCHANGED <<bps, bpsCount, temp>>
    BY <1>2, <1>4 DEF RunTo, SetTempCPUBreakpoint, Table, Becomes, Listed
  <2> QED
    BY <1>1, <1>3, <1>4, <2>1
       DEF BpInv, BpTypeOK, Compact, Distinct, TempInTable, RoomForTemp, UsedCells, IsBreakpoint
<1>5. CASE ~Listed(a)
  <2>1. bps' = [bps EXCEPT ![bpsCount] = a] /\ bpsCount' = bpsCount + 1 /\ temp' = a
    BY <1>2, <1>5 DEF RunTo, SetTempCPUBreakpoint, Table, Becomes, Listed
  <2>2. \A i \in Cells : i < bpsCount => bps[i] # a
    BY <1>1, <1>5, MaxCountAssumption DEF Listed, InOrder, Cells
  <2>3. InOrder([bps EXCEPT ![bpsCount] = a], bpsCount + 1)
    BY <1>1, <2>2, PlacedInOrder
  <2>4. InOrder(bps', bpsCount')
    BY <2>1, <2>3
  <2>5. /\ bpsCount \in Cells /\ bps'[bpsCount] = a /\ bps[bpsCount] = NoAddress
        /\ \A i \in Cells : i # bpsCount => bps'[i] = bps[i]
    BY <1>1, <2>1, MaxCountAssumption DEF InOrder, Cells
  <2>6. \A b \in Addresses : Listed(b)' <=> b = a \/ Listed(b)
    BY <1>1, <2>5, AddressAssumption DEF Listed
  <2>7. IsBreakpoint(temp)'
    BY <1>1, <2>1, <2>5, MaxCountAssumption DEF IsBreakpoint, UsedCells, InOrder
  <2>8. (BpTypeOK /\ Compact /\ Distinct)'
    BY <1>3, <2>1, <2>4 DEF BpTypeOK, Compact, Distinct, InOrder, UsedCells
  <2>9. (TempInTable /\ RoomForTemp)'
    BY <1>3, <2>1, <2>7, AddressAssumption DEF TempInTable, RoomForTemp
  <2> QED
    BY <1>1, <1>5, <2>1, <2>6, <2>8, <2>9 DEF BpInv
<1> QED
  BY <1>4, <1>5

LEMMA BpInvStop ==
  ASSUME BpInv, Stop
  PROVE  /\ BpInv' /\ temp' = NoAddress
         /\ \A b \in Addresses : Listed(b)' <=> b # temp /\ Listed(b)
<1> DEFINE r == Removed(Table, temp)
<1>1. InOrder(bps, bpsCount)
  BY BpInvInOrder DEF BpInv
<1>2. bps' = r.cells /\ bpsCount' = r.count /\ temp' = NoAddress /\ running' = FALSE
  BY DEF Stop, ClearTempCPUBreakpoint, Becomes
<1>3. /\ InOrder(r.cells, r.count) /\ r.count < MaxCount
      /\ \A b \in Addresses : (\E i \in Cells : i < MaxCount /\ r.cells[i] = b)
                              <=> b # temp /\ Listed(b)
  <2>1. CASE temp = NoAddress
    <3>1. r = Table
      BY <2>1 DEF Removed
    <3>2. r.cells = bps /\ r.count = bpsCount
      BY <3>1 DEF Table
    <3> QED
      BY <1>1, <2>1, <3>2, AddressAssumption DEF BpInv, RoomForTemp, Listed
  <2>2. CASE temp # NoAddress
    <3>1. temp \in Addresses /\ IsBreakpoint(temp)
      BY <2>2 DEF BpInv, BpTypeOK, TempInTable
    <3>2. Listed(temp)
      BY <1>1, <3>1, AddressAssumption, MaxCountAssumption
         DEF IsBreakpoint, UsedCells, Listed, InOrder, Cells
    <3>3. /\ InOrder(r.cells, r.count) /\ r.count = bpsCount - 1
          /\ \A b \in Addresses : (\E i \in Cells : i < MaxCount /\ r.cells[i] = b)
                                  <=> b # temp /\ Listed(b)
      BY <1>1, <3>1, <3>2, RemovedInOrder DEF Table, Listed
    <3> QED
      BY <1>1, <3>3, MaxCountAssumption DEF InOrder
  <2> QED
    BY <2>1, <2>2
<1> HIDE DEF r
<1>4. (BpTypeOK /\ Compact /\ Distinct)'
  BY <1>2, <1>3 DEF BpTypeOK, Compact, Distinct, InOrder, UsedCells
<1>5. (TempInTable /\ RoomForTemp)'
  BY <1>2, <1>3 DEF TempInTable, RoomForTemp
<1> QED
  BY <1>2, <1>3, <1>4, <1>5 DEF BpInv, Listed

LEMMA BpInvNext == BpInv /\ [BpNext]_bpVars => BpInv'
<1> SUFFICES ASSUME BpInv, [BpNext]_bpVars PROVE BpInv'
  OBVIOUS
<1>1. ASSUME UNCHANGED <<bps, bpsCount, temp>>, running' \in {running, TRUE} PROVE BpInv'
  BY <1>1 DEF BpInv, BpTypeOK, Compact, Distinct, TempInTable, RoomForTemp, UsedCells, IsBreakpoint
<1>2. CASE Run
  BY <1>1, <1>2 DEF Run, tableVars
<1>3. CASE UNCHANGED bpVars
  BY <1>1, <1>3 DEF bpVars, tableVars
<1> QED
  BY <1>2, <1>3, BpInvAdd, BpInvRemove, BpInvRemoveAll, BpInvRunTo, BpInvStop DEF BpNext

(* Count, sentinel and contents of the breakpoint array agree in every      *)
(* state, no address is in it twice, the temporary breakpoint is there just *)
(* for its run, and between runs there is room for one.                     *)
THEOREM TableCorrect ==
  BpSpec => []TableConsistent
<1>1. BpInv => TableConsistent
  BY DEF BpInv, TableConsistent
<1> QED
  BY <1>1, BpInvInit, BpInvNext, PTL DEF BpSpec

(* The addresses in the first n cells are at most n. *)
LEMMA ListedBounded ==
  ASSUME NEW c, NEW n, InOrder(c, n)
  PROVE  LET S == {a \in Addresses : \E i \in Cells : i < MaxCount /\ c[i] = a}
         IN  IsFiniteSet(S) /\ Cardinality(S) <= n
<1> DEFINE S == {a \in Addresses : \E i \in Cells : i < MaxCount /\ c[i] = a}
           D == 0..(n - 1)
           f == [i \in D |-> c[i]]
<1>1. n \in Nat /\ \A i \in D : i \in Cells /\ i < MaxCount /\ i < n
  BY MaxCountAssumption DEF InOrder, Cells
<1>2. \A i \in D : c[i] \in S
  BY <1>1 DEF InOrder
<1>3. \A a \in S : \E i \in D : c[i] = a
  BY <1>1, AddressAssumption, MaxCountAssumption DEF InOrder, Cells
<1>4. f \in Surjection(D, S)
  BY <1>2, <1>3, Fun_IsSurj
<1>5. IsFiniteSet(D) /\ Cardinality(D) = n
  BY <1>1, FS_Interval
<1> HIDE DEF S, D, f
<1>6. IsFiniteSet(S) /\ Cardinality(S) <= n
  BY <1>4, <1>5, FS_Surjection
<1> QED
  BY <1>6 DEF S

(* The array, its count and the temporary breakpoint are a set that only    *)
(* the breakpoint commands change, with at most MaxCount - 1 members.       *)
THEOREM TableIsSet == BpSpec => SetSpec
<1> DEFINE S == {a \in Addresses : Listed(a) /\ a # temp}
           T == {a \in Addresses : a = temp}
<1>1. BpInit => Set!SetInit
  <2> SUFFICES ASSUME BpInit PROVE S = {} /\ T = {}
    BY DEF Set!SetInit
  <2> QED
    BY AddressAssumption DEF BpInit, Listed
<1>2. BpInv /\ [BpNext]_bpVars => [Set!SetNext]_<<S, T>>
  <2> SUFFICES ASSUME BpInv, [BpNext]_bpVars PROVE Set!SetNext \/ (S' = S /\ T' = T)
    OBVIOUS
  <2>1. ASSUME NEW a \in Addresses, AddCPUBreakpoint(a) PROVE Set!Insert(a)
    <3>1. temp = NoAddress /\ temp' = NoAddress /\ InOrder(bps, bpsCount)
      BY <2>1, BpInvInOrder DEF BpInv, TempInTable, AddCPUBreakpoint
    <3>2. bpsCount < MaxCount - 1 /\ bps' = [bps EXCEPT ![bpsCount] = a]
      <4>1. bpsCount < MaxCount /\ bpsCount # MaxCount - 1
        BY <2>1, <3>1 DEF BpInv, RoomForTemp, AddCPUBreakpoint
      <4>2. bpsCount < MaxCount - 1
        BY <3>1, <4>1, MaxCountAssumption DEF InOrder
      <4>3. bps' = [bps EXCEPT ![bpsCount] = a]
        BY <2>1, BpInvAdd
      <4> QED
        BY <4>2, <4>3
    <3>3. S = {b \in Addresses : \E i \in Cells : i < MaxCount /\ bps[i] = b} /\ T = {} /\ T' = {}
      BY <3>1, AddressAssumption DEF Listed
    <3>4. Cardinality(S) < MaxCount - 1
      <4>1. IsFiniteSet(S) /\ Cardinality(S) <= bpsCount
        BY <3>1, <3>3, ListedBounded
      <4> QED
        BY <3>1, <3>2, <4>1, FS_CardinalityType, MaxCountAssumption DEF InOrder
    <3>5. /\ bpsCount \in Cells /\ bpsCount < MaxCount
          /\ bps'[bpsCount] = a /\ bps[bpsCount] = NoAddress
          /\ \A i \in Cells : i # bpsCount => bps'[i] = bps[i]
      BY <3>1, <3>2, MaxCountAssumption DEF InOrder, Cells
    <3>6. \A b \in Addresses : Listed(b)' <=> b = a \/ Listed(b)
      BY <3>5, AddressAssumption DEF Listed
    <3>7. S' = S \cup {a}
      BY <3>1, <3>6, AddressAssumption
    <3> QED
      BY <3>3, <3>4, <3>7, Zenon DEF Set!Insert, Set!Cardinality, Cardinality
  <2>2. ASSUME NEW a \in Addresses, RemoveCPUBreakpoint(a) PROVE Set!Delete(a)
    <3>1. temp = NoAddress /\ temp' = NoAddress
          /\ \A b \in Addresses : Listed(b)' <=> b # a /\ Listed(b)
      BY <2>2, BpInvRemove DEF RemoveCPUBreakpoint
    <3>2. S' = S \ {a} /\ T = {} /\ T' = {}
      BY <3>1, AddressAssumption
    <3> QED
      BY <3>2 DEF Set!Delete
  <2>3. ASSUME RemoveAllBreakpoints PROVE Set!DeleteAll
    <3>1. temp = NoAddress /\ temp' = NoAddress /\ bps' = [i \in Cells |-> NoAddress]
      BY <2>3, BpInvRemoveAll DEF RemoveAllBreakpoints
    <3>2. S' = {} /\ T = {} /\ T' = {}
      BY <3>1, AddressAssumption DEF Listed
    <3> QED
      BY <3>2 DEF Set!DeleteAll
  <2>4. ASSUME NEW a \in Addresses, RunTo(a) PROVE Set!Arm(a)
    <3>1. temp = NoAddress
      BY <2>4, BpInvRunTo
    <3>2. CASE Listed(a) /\ UNCHANGED <<bps, bpsCount, temp>>
      <4>1. S' = S /\ T' = {} /\ a \in S
        BY <3>1, <3>2, AddressAssumption DEF Listed
      <4> QED
        BY <4>1 DEF Set!Arm
    <3>3. CASE ~Listed(a) /\ temp' = a /\ \A b \in Addresses : Listed(b)' <=> b = a \/ Listed(b)
      <4>1. S' = S /\ T' = {a} /\ a \notin S
        BY <3>1, <3>3, AddressAssumption
      <4> QED
        BY <4>1 DEF Set!Arm
    <3> QED
      BY <2>4, <3>2, <3>3, BpInvRunTo
  <2>5. ASSUME Stop PROVE Set!Disarm
    <3>1. temp' = NoAddress /\ \A b \in Addresses : Listed(b)' <=> b # temp /\ Listed(b)
      BY <2>5, BpInvStop
    <3>2. S' = S /\ T' = {}
      BY <3>1, AddressAssumption
    <3> QED
      BY <3>2 DEF Set!Disarm
  <2>6. CASE Run \/ UNCHANGED bpVars
    BY <2>6 DEF Run, bpVars, tableVars, Listed
  <2> QED
    BY <2>1, <2>2, <2>3, <2>4, <2>5, <2>6 DEF BpNext, Set!SetNext
<1>3. BpSpec => []BpInv
  BY BpInvInit, BpInvNext, PTL DEF BpSpec
<1> QED
  BY <1>1, <1>2, <1>3, PTL DEF BpSpec, SetSpec, Set!SetSpec, Set!setVars
(***************************************************************************)
(* The runs.                                                               *)
(***************************************************************************)

(* A breakpoint below the count is one that the board's walk comes to. *)
LEMMA ReachedIsListed ==
  ASSUME BpInv, NEW a, IsBreakpoint(a) PROVE Reached(a) /\ bpsCount > 0
BY MaxCountAssumption DEF BpInv, BpTypeOK, Compact, IsBreakpoint, UsedCells, Reached, Cells

(* The frame's numbers one by one. *)
LEMMA FrameNumbers ==
  /\ FrameTicks \in Nat /\ FrameTicks > 0 /\ MaxFrames \in Nat
  /\ \A n \in FrameCounts : n \in Nat
  /\ BusyTicks \in Nat /\ BusyTicks < FrameTicks
<1>1. FrameTicks \in Nat /\ FrameTicks > 0 /\ MaxFrames \in Nat
  BY FrameAssumption
<1> QED
  BY <1>1, FrameAssumption

(* What the properties of a run rest on: the board has the breakpoints of   *)
(* the run; once the run has executed an instruction the machine is not at  *)
(* a breakpoint; and until then the time left over from before the run goes *)
(* down with every call, or is gone at once because there are breakpoints.  *)
RunInv ==
  /\ BpInv
  /\ RunTypeOK
  /\ AtPrompt => tick = 0
  /\ running /\ tick > 0 => armed = (bpsCount > 0)
  /\ running /\ moved => ~IsBreakpoint(pc)
  /\ running /\ ~moved => busy + tick <= BusyTicks + 1
  /\ running /\ ~moved /\ bpsCount # 0 => busy = 0

(* Every step of the debugger is a step of the breakpoint table. *)
LEMMA StepIsTableStep == [DebuggerNext]_debuggerVars => [BpNext]_bpVars
<1> SUFFICES ASSUME [DebuggerNext]_debuggerVars PROVE [BpNext]_bpVars
  OBVIOUS
<1>1. CASE EditBreakpoints
  BY <1>1 DEF EditBreakpoints, BpNext
<1>2. CASE \E a \in Addresses : SetRegisterPC(a) \/ RunToAddress(a)
  BY <1>2 DEF SetRegisterPC, RunToAddress, BpNext
<1>3. CASE \E n \in FrameCounts \cup {MaxFrames} : RunFrames(n)
  BY <1>3 DEF RunFrames, BpNext
<1>4. CASE StepInto \/ KeyCommand \/ PumpKey \/ PumpFrame \/ RunFrame \/ Tick \/ PumpFrameEnds
  BY <1>4 DEF StepInto, KeyCommand, PumpKey, PumpFrame, RunFrame, Tick, PumpFrameEnds
<1>5. CASE RunHits \/ RunFrameEnds
  BY <1>5 DEF RunHits, RunFrameEnds, Returns, NextFrame, BpNext
<1>6. CASE UNCHANGED debuggerVars
  BY <1>6 DEF debuggerVars
<1> QED
  BY <1>1, <1>2, <1>3, <1>4, <1>5, <1>6 DEF DebuggerNext, Command, Machine

(* What a run of commands does to the table is what BpSpec says of it: the  *)
(* theorems about BpSpec hold for the debugger.                             *)
THEOREM DebuggerKeepsTable == DebuggerSpec => BpSpec
BY StepIsTableStep, PTL DEF DebuggerSpec, DebuggerInit, BpSpec

LEMMA RunInvInit == DebuggerInit => RunInv
<1> SUFFICES ASSUME DebuggerInit PROVE RunInv
  OBVIOUS
<1>1. BpInv
  BY BpInvInit DEF DebuggerInit
<1>2. running = FALSE /\ script = <<>> /\ armed = FALSE /\ moved = FALSE
  BY DEF DebuggerInit, BpInit
<1>3. {armed, moved} \subseteq BOOLEAN
  BY <1>2, Zenon
<1>4. RunTypeOK
  BY <1>2, <1>3, FrameNumbers DEF DebuggerInit, RunTypeOK
<1> QED
  BY <1>1, <1>2, <1>4 DEF DebuggerInit, RunInv

(* Between two prompts nothing runs: a command starts from no frame at all. *)
LEMMA RunInvCommand ==
  ASSUME RunInv, BpInv', Command PROVE RunInv'
<1>1. /\ tick = 0 /\ running = FALSE /\ script = <<>>
      /\ pc \in Addresses /\ busy \in 0..BusyTicks
      /\ armed \in BOOLEAN /\ moved \in BOOLEAN
      /\ maxFrames \in Nat /\ frames \in Nat /\ (frames > 0 => frames < maxFrames)
  BY DEF RunInv, BpInv, BpTypeOK, RunTypeOK, Command, EditBreakpoints, SetRegisterPC,
         RunToAddress, StepInto, RunFrames, KeyCommand, AtPrompt
<1>2. CASE \E n \in Nat : Starts(n) /\ running' = TRUE /\ UNCHANGED <<frameVars, script>>
  <2>1. PICK n \in Nat : Starts(n) /\ running' = TRUE /\ UNCHANGED <<frameVars, script>>
    BY <1>2
  <2>2. /\ maxFrames' = n /\ frames' = 0 /\ pc' = pc /\ tick' = tick /\ armed' = armed
        /\ script' = script
    BY <2>1 DEF Starts, frameVars
  <2>3. busy' \in 0..BusyTicks /\ (bpsCount' # 0 => busy' = 0)
    BY <1>1, <2>1, FrameNumbers DEF Starts
  <2>4. moved' = FALSE
    BY <2>1 DEF Starts
  <2>5. {armed', moved'} \subseteq BOOLEAN
    BY <1>1, <2>2, <2>4, Zenon
  <2>6. RunTypeOK'
    BY <1>1, <2>2, <2>3, <2>5, FrameNumbers DEF RunTypeOK
  <2>7. tick' = 0 /\ ~(tick' > 0) /\ busy' + tick' <= BusyTicks + 1
    <3>1. tick' = 0
      BY <1>1, <2>2
    <3>2. \A b \in 0..BusyTicks, k \in {0} : ~(k > 0) /\ b + k <= BusyTicks + 1
      BY FrameNumbers
    <3> QED
      BY <2>3, <3>1, <3>2
  <2>8. running' /\ ~moved'
    BY <2>1, <2>4
  <2> QED
    BY <2>3, <2>6, <2>7, <2>8, Zenon DEF RunInv, AtPrompt
<1>3. CASE /\ ~running' /\ UNCHANGED <<runVars, frameVars>>
           /\ pc' \in Addresses /\ busy' \in 0..BusyTicks
  <2>1. /\ maxFrames' = maxFrames /\ frames' = frames /\ moved' = moved
        /\ armed' = armed /\ tick' = tick
    BY <1>3 DEF runVars, frameVars
  <2>2. {armed', moved'} \subseteq BOOLEAN
    BY <1>1, <2>1, Zenon
  <2>3. RunTypeOK'
    BY <1>1, <1>3, <2>1, <2>2, FrameNumbers DEF RunTypeOK
  <2>4. ~running' /\ tick' = 0
    BY <1>1, <1>3, <2>1
  <2> QED
    BY <2>3, <2>4, Zenon DEF RunInv
<1>4. CASE \E n \in FrameCounts \cup {MaxFrames} : RunFrames(n)
  BY <1>2, <1>4, FrameNumbers DEF RunFrames, Run
<1>5. CASE \E a \in Addresses : RunToAddress(a)
  BY <1>2, <1>5, FrameNumbers DEF RunToAddress, RunTo
<1>6. CASE \E a \in Addresses : SetRegisterPC(a)
  <2>1. PICK a \in Addresses : SetRegisterPC(a)
    BY <1>6
  <2>2. pc' = a /\ busy' \in {busy, 0} /\ ~running' /\ UNCHANGED <<runVars, frameVars>>
    BY <1>1, <2>1 DEF SetRegisterPC, bpVars
  <2> QED
    BY <1>1, <1>3, <2>2, FrameNumbers
<1>7. CASE StepInto \/ KeyCommand
  BY <1>1, <1>3, <1>7 DEF StepInto, KeyCommand, bpVars, machineVars
<1>8. CASE EditBreakpoints
  BY <1>1, <1>3, <1>8 DEF EditBreakpoints, AddCPUBreakpoint, RemoveCPUBreakpoint,
                          RemoveAllBreakpoints, machineVars
<1> QED
  BY <1>4, <1>5, <1>6, <1>7, <1>8 DEF Command

(* What a call of Execute() can do to the time left. *)
LEMMA ExecuteKeepsType ==
  ASSUME pc \in Addresses, busy \in 0..BusyTicks, Execute
  PROVE  /\ pc' \in Addresses /\ busy' \in 0..BusyTicks
         /\ busy # 0 => busy' = busy - 1 /\ pc' = pc
BY FrameNumbers DEF Execute

LEMMA RunInvTick == ASSUME RunInv, BpInv', Tick PROVE RunInv'
<1>1. /\ pc \in Addresses /\ busy \in 0..BusyTicks /\ tick \in 1..(FrameTicks - 1)
      /\ armed \in BOOLEAN /\ moved \in BOOLEAN /\ running \in BOOLEAN
  BY FrameNumbers DEF RunInv, BpInv, BpTypeOK, RunTypeOK, Tick
<1>2. /\ tick' = tick + 1 /\ armed' = armed /\ running' = running /\ bpsCount' = bpsCount
      /\ maxFrames' = maxFrames /\ frames' = frames /\ script' = script
      /\ moved' = (moved \/ (running /\ busy = 0))
      /\ \A a : IsBreakpoint(a)' <=> IsBreakpoint(a)
  BY DEF Tick, bpVars, tableVars, IsBreakpoint, UsedCells
<1>3. /\ pc' \in Addresses /\ busy' \in 0..BusyTicks
      /\ busy # 0 => busy' = busy - 1 /\ pc' = pc
  BY <1>1, ExecuteKeepsType DEF Tick
<1>4. moved' \in BOOLEAN
  BY <1>1, <1>2
<1>5. {armed', moved'} \subseteq BOOLEAN
  BY <1>1, <1>2, <1>4, Zenon
<1>6. RunTypeOK'
  BY <1>1, <1>2, <1>3, <1>5, FrameNumbers DEF RunInv, RunTypeOK
<1>7. script # <<>> \/ running
  BY <1>1 DEF RunInv, AtPrompt
<1>8. running => ~IsBreakpoint(pc')
  <2> SUFFICES ASSUME running, IsBreakpoint(pc') PROVE FALSE
    OBVIOUS
  <2>1. Reached(pc') /\ bpsCount > 0
    BY <1>3, ReachedIsListed DEF RunInv
  <2>2. armed
    BY <1>1, <2>1 DEF RunInv
  <2>3. Reached(pc)'
    BY <2>1 DEF Tick, bpVars, tableVars, Reached
  <2> QED
    BY <2>1, <2>2, <2>3 DEF Tick, BreakpointHit
<1>9. running /\ ~moved' => /\ busy' + tick' <= BusyTicks + 1
                            /\ bpsCount' # 0 => busy' = 0
  <2> SUFFICES ASSUME running, ~moved' PROVE busy' + tick' <= BusyTicks + 1 /\ (bpsCount' # 0 => busy' = 0)
    OBVIOUS
  <2>1. ~moved /\ busy # 0
    BY <1>2
  <2>2. busy + tick <= BusyTicks + 1 /\ bpsCount = 0
    BY <2>1 DEF RunInv
  <2> QED
    BY <1>1, <1>2, <1>3, <2>1, <2>2, FrameNumbers
<1>10. running /\ tick > 0 => armed = (bpsCount > 0)
  BY DEF RunInv
<1> QED
  BY <1>1, <1>2, <1>6, <1>7, <1>8, <1>9, <1>10 DEF RunInv, AtPrompt
(* The beginning of a frame. *)
LEMMA RunInvFrame ==
  ASSUME RunInv, BpInv', PumpKey \/ PumpFrame \/ RunFrame PROVE RunInv'
<1>1. /\ pc' = pc /\ busy' = busy /\ UNCHANGED runVars /\ running' = running
      /\ bpsCount' = bpsCount /\ tick = 0
      /\ \A a : IsBreakpoint(a)' <=> IsBreakpoint(a)
  BY DEF PumpKey, PumpFrame, RunFrame, machineVars, bpVars, tableVars, IsBreakpoint, UsedCells
<1>2. maxFrames' = maxFrames /\ frames' = frames /\ moved' = moved
  BY <1>1 DEF runVars
<1>3. /\ pc \in Addresses /\ busy \in 0..BusyTicks /\ {armed, moved} \subseteq BOOLEAN
      /\ {maxFrames, frames} \subseteq Nat /\ (frames > 0 => frames < maxFrames)
  BY DEF RunInv, RunTypeOK
<1>4. (bpsCount > 0) \in BOOLEAN
  OBVIOUS
<1>5. CASE PumpKey \/ PumpFrame
  <2>1. script # <<>> /\ ~running /\ armed' = armed /\ tick' \in {0, 1}
    BY <1>1, <1>5 DEF RunInv, RunTypeOK, PumpKey, PumpFrame, frameVars
  <2>2. AtPrompt' => tick' = 0
    BY <1>1, <1>5 DEF PumpKey, PumpFrame, frameVars, AtPrompt
  <2>3. RunTypeOK'
    BY <1>1, <1>2, <1>3, <2>1, FrameNumbers DEF RunTypeOK
  <2>4. ~running'
    BY <1>1, <2>1
  <2> QED
    BY <2>2, <2>3, <2>4, Zenon DEF RunInv
<1>6. CASE RunFrame
  <2>1. running /\ running' /\ script' = script /\ tick' = 1 /\ armed' = (bpsCount > 0)
    BY <1>1, <1>6 DEF RunFrame
  <2>2. {armed', moved'} \subseteq BOOLEAN
    BY <1>2, <1>3, <1>4, <2>1
  <2>3. RunTypeOK'
    BY <1>1, <1>2, <1>3, <2>1, <2>2, FrameNumbers DEF RunInv, RunTypeOK
  <2>4. ~moved' => /\ busy' + tick' <= BusyTicks + 1
                   /\ bpsCount' # 0 => busy' = 0
    <3>1. \A b \in 0..BusyTicks : b + 1 <= BusyTicks + 1
      BY FrameNumbers
    <3>2. busy' + 1 <= BusyTicks + 1
      BY <1>1, <1>3, <3>1
    <3> QED
      BY <1>1, <1>2, <2>1, <3>2 DEF RunInv
  <2>5. moved' => ~IsBreakpoint(pc)'
    BY <1>1, <1>2, <2>1 DEF RunInv
  <2>6. armed' = (bpsCount' > 0)
    BY <1>1, <2>1
  <2> QED
    BY <2>1, <2>3, <2>4, <2>5, <2>6 DEF RunInv, AtPrompt
<1> QED
  BY <1>5, <1>6

(* The end of a frame, and of a run. *)
LEMMA RunInvFrameEnds ==
  ASSUME RunInv, BpInv', RunHits \/ RunFrameEnds \/ PumpFrameEnds PROVE RunInv'
<1>1. /\ pc \in Addresses /\ busy \in 0..BusyTicks /\ tick \in 1..FrameTicks
      /\ armed \in BOOLEAN /\ moved \in BOOLEAN /\ running \in BOOLEAN
      /\ maxFrames \in Nat /\ frames \in Nat /\ (frames > 0 => frames < maxFrames)
      /\ Execute /\ tick' = 0 /\ armed' = armed
  BY FrameNumbers DEF RunInv, BpInv, BpTypeOK, RunTypeOK, RunHits, RunFrameEnds, PumpFrameEnds,
                      FrameEnds
<1>2. pc' \in Addresses /\ busy' \in 0..BusyTicks
  BY <1>1, ExecuteKeepsType
<1>3. CASE Returns
  <2>1. ~running' /\ maxFrames' = 0 /\ frames' = 0 /\ moved' = FALSE
    BY <1>3 DEF Returns, Stop
  <2>2. {armed', moved'} \subseteq BOOLEAN
    BY <1>1, <2>1, Zenon
  <2>3. RunTypeOK'
    BY <1>1, <1>2, <2>1, <2>2, FrameNumbers DEF RunTypeOK
  <2> QED
    BY <1>1, <2>1, <2>3, Zenon DEF RunInv
<1>4. CASE PumpFrameEnds
  <2>1. ~running /\ running' = running /\ UNCHANGED runVars
    BY <1>1, <1>4 DEF PumpFrameEnds, bpVars, RunInv, RunTypeOK
  <2>2. {armed', moved'} \subseteq BOOLEAN /\ maxFrames' = maxFrames /\ frames' = frames
    BY <1>1, <2>1 DEF runVars
  <2>3. RunTypeOK' /\ ~running'
    BY <1>1, <1>2, <2>1, <2>2, FrameNumbers DEF RunTypeOK
  <2> QED
    BY <1>1, <2>3, Zenon DEF RunInv
<1>5. CASE RunFrameEnds /\ ~(frames + 1 >= maxFrames)
  <2>1. /\ running /\ tick = FrameTicks /\ ~BreakpointHit /\ NextFrame /\ script' = script
    BY <1>5 DEF RunFrameEnds
  <2>2. /\ frames' = frames + 1 /\ maxFrames' = maxFrames /\ running' = running
        /\ bps' = bps /\ bpsCount' = bpsCount
        /\ \A a : IsBreakpoint(a)' <=> IsBreakpoint(a)
    BY <2>1 DEF NextFrame, bpVars, tableVars, IsBreakpoint, UsedCells
  <2>3. moved'
    <3>1. CASE moved
      BY <2>1, <3>1 DEF NextFrame
    <3>2. CASE ~moved
      <4>1. busy = 0
        BY <1>1, <2>1, <3>2, FrameNumbers DEF RunInv
      <4> QED
        BY <2>1, <4>1 DEF NextFrame
    <3> QED
      BY <3>1, <3>2
  <2>4. ~IsBreakpoint(pc)'
    <3> SUFFICES ASSUME IsBreakpoint(pc') PROVE FALSE
      BY <2>2
    <3>1. Reached(pc') /\ bpsCount > 0
      BY ReachedIsListed DEF RunInv
    <3>2. armed
      BY <1>1, <2>1, <3>1 DEF RunInv
    <3> QED
      BY <2>1, <2>2, <3>1, <3>2 DEF BreakpointHit, Reached
  <2>5. moved' = TRUE
    BY <1>1, <2>1, <2>3 DEF NextFrame
  <2>6. {armed', moved'} \subseteq BOOLEAN
    BY <1>1, <2>5, Zenon
  <2>7. frames' \in Nat /\ maxFrames' \in Nat /\ frames' < maxFrames'
    BY <1>1, <1>5, <2>2
  <2>8. RunTypeOK'
    BY <1>1, <1>2, <2>1, <2>2, <2>6, <2>7, FrameNumbers DEF RunTypeOK, RunInv
  <2>9. running' /\ ~(tick' > 0)
    BY <1>1, <2>1, <2>2
  <2> QED
    BY <2>3, <2>4, <2>8, <2>9, Zenon DEF RunInv, AtPrompt
<1> QED
  BY <1>3, <1>4, <1>5 DEF RunHits, RunFrameEnds

LEMMA RunInvStutter == ASSUME RunInv, BpInv', UNCHANGED debuggerVars PROVE RunInv'
BY DEF RunInv, RunTypeOK, AtPrompt, IsBreakpoint, UsedCells, debuggerVars, bpVars, tableVars,
       keyVars, machineVars, runVars, frameVars

LEMMA RunInvNext == RunInv /\ [DebuggerNext]_debuggerVars => RunInv'
<1> SUFFICES ASSUME RunInv, [DebuggerNext]_debuggerVars PROVE RunInv'
  OBVIOUS
<1>1. BpInv'
  BY StepIsTableStep, BpInvNext DEF RunInv
<1> QED
  BY <1>1, RunInvCommand, RunInvTick, RunInvFrame, RunInvFrameEnds, RunInvStutter
     DEF DebuggerNext, Machine

LEMMA RunInvAlways == DebuggerSpec => []RunInv
BY RunInvInit, RunInvNext, PTL DEF DebuggerSpec

(***************************************************************************)
(* The key commands.                                                       *)
(***************************************************************************)

(* What one key does: its event, and the frames it is given. *)
Items == Events \cup {Frame}

LEMMA ThenIsScript ==
  ASSUME NEW s \in Scans, NEW n \in Nat
  PROVE  \A p \in BOOLEAN : Then(s, p, n) \in Seq(Items) /\ Len(Then(s, p, n)) = n + 1
<1> TAKE p \in BOOLEAN
<1>1. <<Encoded(s, p)>> \in Seq(Items) /\ Len(<<Encoded(s, p)>>) = 1
  BY EncodedIsEvent DEF Items
<1>2. [k \in 1..n |-> Frame] \in Seq(Items) /\ Len([k \in 1..n |-> Frame]) = n
  BY DEF Items
<1> QED
  BY <1>1, <1>2 DEF Then

LEMMA Joined ==
  \A a, b \in Seq(Items) : a \o b \in Seq(Items) /\ Len(a \o b) = Len(a) + Len(b)
OBVIOUS

LEMMA ThreeAndFive ==
  \A a, b \in Seq(Items) : Len(a) = 3 /\ Len(b) = 5 => a \o b \in [1..8 -> Items]
<1> TAKE a, b \in Seq(Items)
<1> HAVE Len(a) = 3 /\ Len(b) = 5
<1>1. PICK q : q = a \o b
  OBVIOUS
<1>2. q \in Seq(Items) /\ Len(q) = Len(a) + Len(b)
  BY <1>1, Joined
<1>3. Len(q) = 8
  BY <1>2
<1>4. q \in [1..Len(q) -> Items]
  BY <1>2, LenProperties
<1>5. q \in [1..8 -> Items]
  BY <1>3, <1>4
<1> QED
  BY <1>1, <1>5

(* What "mo" types, key by key. *)
LEMMA MonitorIsScript == GotoMonitor \in Seq(Items)
<1>1. Len(MonitorKeys) \in Nat /\ MonitorKeys \in [1..Len(MonitorKeys) -> Scans]
  BY KeysAssumption
<1>2. ASSUME NEW s \in Scans PROVE TypeKey(s) \in [1..8 -> Items]
  <2>1. TRUE \in BOOLEAN /\ FALSE \in BOOLEAN /\ 2 \in Nat /\ 4 \in Nat /\ 2 + 1 = 3 /\ 4 + 1 = 5
    OBVIOUS
  <2>2. Then(s, TRUE, 2) \in Seq(Items) /\ Len(Then(s, TRUE, 2)) = 3
    BY <2>1, ThenIsScript, Zenon
  <2>3. Then(s, FALSE, 4) \in Seq(Items) /\ Len(Then(s, FALSE, 4)) = 5
    BY <2>1, ThenIsScript, Zenon
  <2> QED
    BY <2>2, <2>3, ThreeAndFive, Zenon DEF TypeKey
<1>3. ASSUME NEW i \in 1..(8 * Len(MonitorKeys))
      PROVE  TypeKey(MonitorKeys[(i - 1) \div 8 + 1])[((i - 1) % 8) + 1] \in Items
  <2>1. (i - 1) \div 8 + 1 \in 1..Len(MonitorKeys) /\ ((i - 1) % 8) + 1 \in 1..8
    BY <1>1
  <2>2. MonitorKeys[(i - 1) \div 8 + 1] \in Scans
    BY <1>1, <2>1
  <2> QED
    BY <1>2, <2>1, <2>2
<1>4. 8 * Len(MonitorKeys) \in Nat
  BY <1>1
<1> QED
  BY <1>3, <1>4 DEF GotoMonitor

LEMMA ScriptsAreScripts == \A q \in Scripts : q \in Seq(Items)
<1>1. HoldFrames \in Nat /\ ModifierHoldFrames \in Nat /\ TRUE \in BOOLEAN /\ FALSE \in BOOLEAN
  BY DEF HoldFrames, ModifierHoldFrames
<1>2. \A s \in Keys \cup Modifiers : s \in Scans
  BY KeysAssumption
<1>3. ASSUME NEW s \in Scans
      PROVE  /\ Then(s, TRUE, HoldFrames) \in Seq(Items) /\ Then(s, FALSE, HoldFrames) \in Seq(Items)
             /\ Then(s, TRUE, ModifierHoldFrames) \in Seq(Items)
             /\ Then(s, FALSE, ModifierHoldFrames) \in Seq(Items)
  BY <1>1, ThenIsScript, Zenon
<1>4. \A s \in Scans : KeyDown(s) \in Seq(Items) /\ KeyUp(s) \in Seq(Items)
  BY <1>3, Zenon DEF KeyDown, KeyUp
<1>5. \A s \in Scans : KeyClick(s) \in Seq(Items)
  BY <1>3, Joined, Zenon DEF KeyClick
<1>6. ASSUME NEW m \in Scans, NEW s \in Scans, NEW q \in WithModifier(m, s) PROVE q \in Seq(Items)
  <2>1. Then(m, TRUE, ModifierHoldFrames) \o KeyDown(s) \in Seq(Items)
    BY <1>3, <1>4, Joined, Zenon
  <2>2. KeyUp(s) \o Then(m, FALSE, HoldFrames) \in Seq(Items)
    BY <1>3, <1>4, Joined, Zenon
  <2>3. (Then(m, TRUE, ModifierHoldFrames) \o Then(s, TRUE, HoldFrames)
           \o Then(s, FALSE, ModifierHoldFrames) \o Then(m, FALSE, HoldFrames)) \in Seq(Items)
    BY <1>3, Joined, Zenon
  <2> QED
    BY <1>6, <2>1, <2>2, <2>3, Zenon DEF WithModifier
<1>7. ASSUME NEW q \in Scripts PROVE q \in Seq(Items)
  <2>1. CASE q \in {KeyDown(t) : t \in Keys \cup Modifiers} \cup {KeyUp(t) : t \in Keys \cup Modifiers}
    BY <1>2, <1>4, <2>1
  <2>2. CASE q \in {KeyClick(t) : t \in Keys}
    BY <1>2, <1>5, <2>2
  <2>3. CASE q \in UNION {WithModifier(m, t) : m \in Modifiers, t \in Keys}
    <3>1. PICK m \in Modifiers, t \in Keys : q \in WithModifier(m, t)
      BY <2>3
    <3> QED
      BY <1>2, <1>6, <3>1
  <2>4. CASE q \in {GotoMonitor}
    BY <2>4, MonitorIsScript
  <2> QED
    BY <1>7, <2>1, <2>2, <2>3, <2>4 DEF Scripts
<1> QED
  BY <1>7

(* What is still to come of a key command is events and frames. *)
LEMMA ScriptAlways == DebuggerSpec => []ScriptOK
<1>1. DebuggerInit => ScriptOK
  BY DEF DebuggerInit, ScriptOK
<1>2. ASSUME ScriptOK, [DebuggerNext]_debuggerVars PROVE ScriptOK'
  <2>1. CASE KeyCommand
    BY <2>1, ScriptsAreScripts DEF KeyCommand, ScriptOK, Items
  <2>2. CASE PumpKey \/ PumpFrameEnds
    BY <1>2, <2>2 DEF PumpKey, PumpFrameEnds, ScriptOK
  <2>3. CASE UNCHANGED script
    BY <1>2, <2>3 DEF ScriptOK
  <2> QED
    BY <1>2, <2>1, <2>2, <2>3
       DEF DebuggerNext, Command, Machine, EditBreakpoints, SetRegisterPC, RunToAddress, StepInto,
           RunFrames, PumpFrame, RunFrame, Tick, RunHits, RunFrameEnds, debuggerVars
<1> QED
  BY <1>1, <1>2, PTL DEF DebuggerSpec

(* Every step of the debugger is one of the keyboard queue, or leaves it. *)
LEMMA StepIsKeyStep == ScriptOK /\ [DebuggerNext]_debuggerVars => [KeyNext]_keyVars
<1> SUFFICES ASSUME ScriptOK, [DebuggerNext]_debuggerVars PROVE [KeyNext]_keyVars
  OBVIOUS
<1>1. CASE PumpKey
  <2>1. Head(script) \in Events
    BY <1>1 DEF PumpKey, ScriptOK
  <2>2. PICK s \in Scans, p \in BOOLEAN : Head(script) = Encoded(s, p)
    BY <2>1 DEF Events
  <2>3. s \in 0..255
    BY ScanAssumption
  <2>4. (Head(script) >= Pressed) = p
    BY <2>2, <2>3 DEF Encoded, Pressed
  <2>5. (IF Head(script) >= Pressed THEN Head(script) - Pressed ELSE Head(script)) = s
    BY <2>2, <2>3 DEF Encoded, Pressed
  <2>6. KeyEvent(s, p)
    BY <1>1, <2>4, <2>5, Zenon DEF PumpKey, Queue
  <2> QED
    BY <1>1, <2>6 DEF PumpKey, KeyNext
<1>2. CASE RunFrame
  BY <1>2 DEF RunFrame, KeyNext
<1>3. CASE UNCHANGED keyVars
  BY <1>3
<1> QED
  BY <1>1, <1>2, <1>3
     DEF DebuggerNext, Command, Machine, EditBreakpoints, SetRegisterPC, RunToAddress, StepInto,
         RunFrames, KeyCommand, PumpFrame, Tick, RunHits, RunFrameEnds, PumpFrameEnds, FrameEnds,
         debuggerVars

(* Whatever the commands do, the queue behaves as KeySpec says: what is     *)
(* proved of KeySpec holds of the whole debugger.                           *)
THEOREM DebuggerKeepsQueue == DebuggerSpec => KeySpec
BY ScriptAlways, StepIsKeyStep, PTL DEF DebuggerSpec, DebuggerInit, KeySpec

(* So in whatever order commands, frames and runs follow each other, the    *)
(* events leave the ring in their order, and all but the silent one reach   *)
(* the board when they leave.                                               *)
THEOREM DebuggerQueueIsFifo == DebuggerSpec => FifoSpec
BY DebuggerKeepsQueue, QueueIsFifo, PTL

-----------------------------------------------------------------------------
(* The debugger's own state is well-typed, and the frame count of a run     *)
(* stays below the run's limit.                                             *)
THEOREM DebuggerTypeCorrect == DebuggerSpec => []DebuggerTypeOK
<1>1. RunInv /\ ScriptOK => DebuggerTypeOK
  BY DEF RunInv, DebuggerTypeOK
<1> QED
  BY <1>1, RunInvAlways, ScriptAlways, PTL

(* However long the run and whatever the program does, no instruction but   *)
(* the run's first is executed at an address that has a breakpoint.         *)
THEOREM NeverRunsPast == DebuggerSpec => NeverPast
<1>1. RunInv /\ [DebuggerNext]_debuggerVars
      => [running /\ moved /\ Executes => ~IsBreakpoint(pc)]_debuggerVars
  BY DEF RunInv
<1> QED
  BY <1>1, RunInvAlways, PTL DEF DebuggerSpec, NeverPast

(* A run does not end before it has executed an instruction: not at the     *)
(* breakpoint it starts from, and not at the limit of its frames.           *)
THEOREM RunAlwaysMoves == DebuggerSpec => RunMoves
<1>1. ASSUME RunInv, [DebuggerNext]_debuggerVars, running, ~running', ~moved PROVE Executes
  <2>1. RunHits \/ RunFrameEnds
    BY <1>1 DEF DebuggerNext, Command, Machine, EditBreakpoints, SetRegisterPC, RunToAddress,
                StepInto, RunFrames, KeyCommand, PumpKey, PumpFrame, RunFrame, Tick,
                PumpFrameEnds, AtPrompt, bpVars, debuggerVars
  <2>2. tick > 0 /\ tick' = 0 /\ tick' # tick
    BY <2>1 DEF RunHits, RunFrameEnds, FrameEnds
  <2>3. busy = 0
    <3>1. CASE RunHits
      <4>1. bpsCount # 0
        <5>1. armed = (bpsCount > 0) /\ armed \in BOOLEAN /\ bpsCount \in Nat
          BY <1>1, <2>2, MaxCountAssumption DEF RunInv, BpInv, BpTypeOK, RunTypeOK
        <5>2. armed
          BY <3>1 DEF RunHits, BreakpointHit
        <5>3. bpsCount > 0
          BY <5>1, <5>2, Zenon
        <5> QED
          BY <5>1, <5>3
      <4> QED
        BY <1>1, <4>1 DEF RunInv
    <3>2. CASE RunFrameEnds
      BY <1>1, <3>2, FrameNumbers DEF RunInv, RunTypeOK, RunFrameEnds
    <3> QED
      BY <2>1, <3>1, <3>2
  <2> QED
    BY <2>2, <2>3 DEF Executes
<1>2. RunInv /\ [DebuggerNext]_debuggerVars
      => [running /\ ~running' => moved \/ Executes]_debuggerVars
  BY <1>1
<1> QED
  BY <1>2, RunInvAlways, PTL DEF DebuggerSpec, RunMoves
=============================================================================
