---------------------------- MODULE Frame_proofs ----------------------------
(***************************************************************************)
(* The system timer and the frame, for a counter of any width, prescalers  *)
(* of any divisors and frames of any length.                               *)
(***************************************************************************)
EXTENDS Frame, TLAPS

(* A quotient and a remainder below the divisor are unique. *)
LEMMA QuotientBound ==
  ASSUME NEW d \in Nat \ {0}, NEW a \in Int, NEW b \in Int, a < b
  PROVE  d * b >= d * a + d
<1>1. PICK k \in Nat : b = a + 1 + k
  <2>1. b - a - 1 \in Nat /\ b = a + 1 + (b - a - 1)
    BY SMT
  <2> QED BY <2>1
<1>2. d * b = d * a + d + d * k
  BY <1>1, SMT
<1>3. d * k >= 0 /\ d * a \in Int /\ d * k \in Int
  BY SMT
<1> QED BY <1>2, <1>3, SMT

LEMMA RemainderUnique ==
  ASSUME NEW d \in Nat \ {0}, NEW a \in Int, NEW b \in Int,
         NEW r \in 0..(d - 1), NEW s \in 0..(d - 1),
         d * a + r = d * b + s
  PROVE  r = s
<1>0. d * a \in Int /\ d * b \in Int
  BY SMT
<1>1. CASE a < b
  <2>1. d * b >= d * a + d
    BY <1>1, QuotientBound
  <2> QED BY <1>0, <2>1, SMT
<1>2. CASE b < a
  <2>1. d * a >= d * b + d
    BY <1>2, QuotientBound
  <2> QED BY <1>0, <2>1, SMT
<1>3. CASE a = b
  BY <1>0, <1>3, SMT
<1> QED BY <1>1, <1>2, <1>3, SMT

(* Adding one to a dividend. *)
LEMMA ModSucc ==
  ASSUME NEW e \in Nat, NEW d \in Nat \ {0}
  PROVE  (e + 1) % d = IF (e % d) + 1 = d THEN 0 ELSE (e % d) + 1
<1> DEFINE q == e \div d
           r == e % d
           q2 == (e + 1) \div d
           r2 == (e + 1) % d
           s == IF r + 1 = d THEN 0 ELSE r + 1
           p == IF r + 1 = d THEN q + 1 ELSE q
<1>1. q \in Nat /\ r \in 0..(d - 1) /\ e = d * q + r
  BY SMT
<1>2. q2 \in Nat /\ r2 \in 0..(d - 1) /\ e + 1 = d * q2 + r2
  BY SMT
<1>3. r2 = s
  <2> HIDE DEF q, r, q2, r2
  <2>1. d * (q + 1) = d * q + d /\ d * q \in Int
    BY <1>1, SMT
  <2>2. p \in Nat /\ s \in 0..(d - 1) /\ e + 1 = d * p + s
    BY <1>1, <2>1, SMT
  <2> HIDE DEF p, s
  <2>3. d * q2 + r2 = d * p + s
    BY <1>2, <2>2
  <2>4. q2 \in Int /\ p \in Int
    BY <1>2, <2>2, SMT
  <2> QED BY <1>2, <2>2, <2>3, <2>4, RemainderUnique
<1> QED BY <1>3

-----------------------------------------------------------------------------
(* The timer. *)

LEMMA DivisorType ==
  ASSUME flags \in ModeBits
  PROVE  Divisor[flags.prescale] \in Nat \ {0}
<1>1. flags.prescale \in 0..3
  BY DEF ModeBits
<1> QED BY <1>1, TimerAssumption

LEMMA SignalledFlags ==
  ASSUME NEW up \in BOOLEAN, TimerTypeOK, Signalled(up)
  PROVE  /\ request' \in BOOLEAN
         /\ flags' \in ModeBits
         /\ flags'.stop = flags.stop
         /\ flags'.prescale = flags.prescale
         /\ flags'.wrap = flags.wrap
         /\ flags'.expire = flags.expire
         /\ flags'.oneshot = flags.oneshot
         /\ flags'.run <=> flags.run /\ ~flags.oneshot
         /\ flags'.expiry <=> flags.expiry \/ (up /\ (vm1g => request))
  BY DEF TimerTypeOK, Signalled, ModeBits

LEMMA TimerTickKeeps ==
  ASSUME TimerTypeOK, DividerFresh, TimerTick
  PROVE  TimerTypeOK' /\ DividerFresh'
<1> USE TimerAssumption
<1>1. CASE Hold
  BY <1>1 DEF Hold, TimerTypeOK, DividerFresh, Counting
<1>2. CASE Pause
  BY <1>2 DEF Pause, timerVars, TimerTypeOK, DividerFresh, Counting
<1>3. CASE Divide
  BY <1>3 DEF Divide, Divides, TimerTypeOK, DividerFresh, Counting
<1>4. CASE CountDown
  <2>1. Decremented \in 0..(Modulus - 1)
    BY DEF Decremented, TimerTypeOK
  <2>2. Divisor[flags.prescale] \in Nat \ {0}
    BY DivisorType DEF TimerTypeOK
  <2> QED BY <1>4, <2>1, <2>2 DEF CountDown, TimerTypeOK, DividerFresh, Counting
<1>5. CASE Expire
  <2>1. flags.expire \in BOOLEAN
    BY DEF TimerTypeOK, ModeBits
  <2>2. request' \in BOOLEAN /\ flags' \in ModeBits /\ flags'.prescale = flags.prescale
    BY <1>5, <2>1, SignalledFlags DEF Expire
  <2>3. Divisor[flags.prescale] \in Nat \ {0}
    BY DivisorType DEF TimerTypeOK
  <2> QED BY <1>5, <2>2, <2>3 DEF Expire, TimerTypeOK, DividerFresh, Counting
<1> QED BY <1>1, <1>2, <1>3, <1>4, <1>5 DEF TimerTick

LEMMA AccessKeeps ==
  ASSUME TimerTypeOK, DividerFresh, ttyReady \in BOOLEAN, Access
  PROVE  TimerTypeOK' /\ DividerFresh' /\ ttyReady' \in BOOLEAN
<1> USE TimerAssumption
<1>1. ASSUME NEW val \in Reloads, SetTimerReload(val)
      PROVE  TimerTypeOK' /\ DividerFresh'
  BY <1>1 DEF SetTimerReload, TimerTypeOK, DividerFresh, Counting
<1>2. ASSUME NEW mode \in Modes, SetTimerState(mode)
      PROVE  TimerTypeOK' /\ DividerFresh'
  <2>1. mode \in ModeBits /\ flags' = mode /\ divider' = 0
    BY <1>2 DEF SetTimerState
  <2>2. Divisor[flags'.prescale] \in Nat \ {0}
    BY <2>1 DEF ModeBits
  <2> QED BY <1>2, <2>1, <2>2 DEF SetTimerState, TimerTypeOK, DividerFresh, Counting
<1>3. Quiet \in ModeBits /\ ~Quiet.run
  BY DEF Quiet, ModeBits
<1>4. ASSUME ResetTimer PROVE TimerTypeOK' /\ DividerFresh'
  <2>1. flags' \in ModeBits /\ ~flags'.run
    BY <1>3, <1>4 DEF ResetTimer
  <2>2. DividerFresh'
    BY <2>1 DEF DividerFresh, Counting
  <2>3. Modulus - 1 \in 0..(Modulus - 1)
    OBVIOUS
  <2>4. TimerTypeOK'
    BY <1>4, <2>1, <2>3 DEF ResetTimer, TimerTypeOK
  <2> QED BY <2>2, <2>4
<1>5. ASSUME TakeRequest PROVE TimerTypeOK' /\ DividerFresh'
  BY <1>5 DEF TakeRequest, TimerTypeOK, DividerFresh, Counting
<1>6. ASSUME UNCHANGED timerVars PROVE TimerTypeOK' /\ DividerFresh'
  BY <1>6 DEF timerVars, TimerTypeOK, DividerFresh, Counting
<1> QED BY <1>1, <1>2, <1>4, <1>5, <1>6 DEF Access, TimerAccess, WriteTtyData, ResetDevices

(* DebugTicks() and the memory commands use Access; a board reset is alone. *)
LEMMA BoardResetKeeps ==
  ASSUME TimerTypeOK, BoardReset
  PROVE  TimerTypeOK' /\ DividerFresh' /\ ttyReady' \in BOOLEAN
<1>1. Quiet \in ModeBits /\ ~Quiet.run
  BY DEF Quiet, ModeBits
<1>2. flags' \in ModeBits /\ ~flags'.run
  BY <1>1 DEF BoardReset
<1>3. DividerFresh'
  BY <1>2 DEF DividerFresh, Counting
<1>4. Modulus - 1 \in 0..(Modulus - 1)
  BY TimerAssumption
<1>5. TimerTypeOK'
  BY <1>2, <1>4, TimerAssumption DEF BoardReset, TimerTypeOK
<1> QED BY <1>3, <1>5 DEF BoardReset

-----------------------------------------------------------------------------
(* The frame. *)

(* The inner loop is through when the devices have their turn. *)
DevicesAtZero == phase = "devices" => proctick = 0

FrameInv == FrameTypeOK /\ DividerFresh /\ TimerRegular /\ DevicesAtZero

LEMMA FrameStarts == FrameInit => FrameInv
<1> SUFFICES ASSUME FrameInit PROVE FrameInv
  OBVIOUS
<1> USE TimerAssumption, FrameAssumption
<1>1. Quiet \in ModeBits /\ ~Quiet.run
  BY DEF Quiet, ModeBits
<1>2. TimerTypeOK /\ DividerFresh
  <2>1. flags \in ModeBits /\ ~flags.run
    BY <1>1 DEF FrameInit, TimerInit
  <2>2. timer = Modulus - 1 /\ reload = ResetReload /\ divider = 0
    BY DEF FrameInit, TimerInit
  <2>3. request \in BOOLEAN /\ vm1g \in BOOLEAN
    BY DEF FrameInit, TimerInit
  <2> QED BY <2>1, <2>2, <2>3 DEF TimerTypeOK, DividerFresh, Counting
<1>0. phase = "idle" /\ frametick = 0 /\ proctick = 0
  BY DEF FrameInit
<1>3. Executed = 0
  <2>1. Executed = ProcTicks * 0 + 0 + 0
    BY <1>0 DEF Executed
  <2> QED BY <2>1
<1>4. 0 % TimerPeriod = 0
  BY SMT
<1>5. TimerRegular
  BY <1>3, <1>4 DEF FrameInit, TimerRegular
<1>6. FrameTypeOK
  BY <1>2 DEF FrameInit, FrameTypeOK
<1> QED BY <1>0, <1>2, <1>5, <1>6 DEF FrameInv, DevicesAtZero

(* The loop's counters after one more call of Execute(): the timer is due   *)
(* exactly when as many calls as a timer period are complete.               *)
LEMMA Calls ==
  ASSUME FrameInv, phase = "cpu"
  PROVE  /\ Executed \in Nat
         /\ timerTicks = Executed % TimerPeriod
         /\ timerTicks \in 0..(TimerPeriod - 1)
         /\ (Executed + 1) % TimerPeriod = IF timerTicks + 1 = TimerPeriod THEN 0 ELSE timerTicks + 1
<1> USE FrameAssumption
<1>1. Executed = ProcTicks * frametick + proctick
  BY DEF Executed, FrameInv, FrameTypeOK
<1>2. ProcTicks * frametick \in Nat
  BY DEF FrameInv, FrameTypeOK
<1>3. Executed \in Nat
  BY <1>1, <1>2 DEF FrameInv, FrameTypeOK
<1>4. timerTicks = Executed % TimerPeriod
  BY DEF FrameInv, TimerRegular
<1>5. Executed % TimerPeriod \in 0..(TimerPeriod - 1)
  BY <1>3, SMT
<1> QED BY <1>3, <1>4, <1>5, ModSucc

(* The end of the inner loop's body, after call number Executed + 1. *)
LEMMA AfterCallCounts ==
  ASSUME FrameTypeOK, phase \in {"cpu", "timer"}, AfterCall, frametick' = frametick
  PROVE  /\ Executed' = ProcTicks * frametick + proctick + 1
         /\ proctick' \in 0..(ProcTicks - 1)
         /\ phase' \in {"cpu", "devices"}
         /\ DevicesAtZero'
<1> USE FrameAssumption
<1>0. ProcTicks * frametick \in Nat /\ proctick \in 0..(ProcTicks - 1)
  BY DEF FrameTypeOK
<1>1. CASE proctick + 1 < ProcTicks
  <2>1. proctick' = proctick + 1 /\ phase' = "cpu"
    BY <1>0, <1>1 DEF AfterCall
  <2>2. Executed' = ProcTicks * frametick + (proctick + 1) + 0
    BY <2>1 DEF Executed
  <2> QED BY <1>0, <1>1, <2>1, <2>2 DEF DevicesAtZero
<1>2. CASE proctick + 1 >= ProcTicks
  <2>1. proctick' = 0 /\ phase' = "devices" /\ ProcTicks = proctick + 1
    BY <1>0, <1>2 DEF AfterCall
  <2>2. Executed' = ProcTicks * frametick + 0 + ProcTicks
    BY <2>1 DEF Executed
  <2> QED BY <1>0, <2>1, <2>2 DEF DevicesAtZero
<1> QED BY <1>0, <1>1, <1>2

(* A frame that begins or ends has its counters at zero. *)
LEMMA CountersFresh ==
  ASSUME frametick' = 0, proctick' = 0, timerTicks' = 0, txCount' = 0,
         phase' \in {"idle", "cpu"}, TimerTypeOK', ttyReady' \in BOOLEAN
  PROVE  FrameTypeOK' /\ TimerRegular' /\ DevicesAtZero'
<1> USE FrameAssumption
<1>1. Executed' = 0
  <2>1. Executed' = ProcTicks * 0 + 0 + 0
    BY DEF Executed
  <2> QED BY <2>1
<1>2. 0 % TimerPeriod = 0
  BY SMT
<1>3. TimerRegular'
  BY <1>1, <1>2 DEF TimerRegular
<1>4. FrameTypeOK'
  BY DEF FrameTypeOK
<1> QED BY <1>3, <1>4 DEF DevicesAtZero

LEMMA ExecuteKeeps ==
  ASSUME FrameInv, ExecuteCPU
  PROVE  FrameInv'
<1> USE FrameAssumption
<1>0. FrameTypeOK /\ phase = "cpu" /\ Access /\ TimerTypeOK /\ DividerFresh /\ ttyReady \in BOOLEAN
  BY DEF FrameInv, FrameTypeOK, ExecuteCPU
<1>1. TimerTypeOK' /\ DividerFresh' /\ ttyReady' \in BOOLEAN
  BY <1>0, AccessKeeps
<1>2. CASE Returns
  BY <1>1, <1>2, CountersFresh DEF Returns, FrameInv
<1>3. CASE ~Returns
  <2>1. /\ timerTicks' = timerTicks + 1
        /\ IF TimerDue THEN phase' = "timer" /\ proctick' = proctick ELSE AfterCall
        /\ frametick' = frametick /\ txCount' = txCount
    BY <1>3 DEF ExecuteCPU
  <2>2. /\ Executed \in Nat
        /\ timerTicks \in 0..(TimerPeriod - 1)
        /\ (Executed + 1) % TimerPeriod = IF timerTicks + 1 = TimerPeriod THEN 0 ELSE timerTicks + 1
    BY <1>0, Calls
  <2>3. Executed = ProcTicks * frametick + proctick + 0
    BY <1>0 DEF Executed
  <2>4. ProcTicks * frametick \in Nat /\ proctick \in 0..(ProcTicks - 1)
    BY <1>0 DEF FrameTypeOK
  <2>5. /\ Executed' = Executed + 1
        /\ proctick' \in 0..(ProcTicks - 1)
        /\ phase' \in {"cpu", "timer", "devices"}
        /\ (phase' = "timer") <=> TimerDue
        /\ DevicesAtZero'
    <3>1. CASE TimerDue
      <4>1. phase' = "timer" /\ proctick' = proctick
        BY <2>1, <3>1
      <4>2. Executed' = ProcTicks * frametick + proctick + 1
        BY <2>1, <4>1 DEF Executed
      <4> QED BY <2>3, <2>4, <3>1, <4>1, <4>2 DEF DevicesAtZero
    <3>2. CASE ~TimerDue
      <4>1. AfterCall /\ frametick' = frametick
        BY <2>1, <3>2
      <4>2. /\ Executed' = ProcTicks * frametick + proctick + 1
            /\ proctick' \in 0..(ProcTicks - 1)
            /\ phase' \in {"cpu", "devices"}
            /\ DevicesAtZero'
        BY <1>0, <4>1, AfterCallCounts
      <4> QED BY <2>3, <2>4, <3>2, <4>2
    <3> QED BY <3>1, <3>2
  <2>6. TimerDue <=> timerTicks + 1 = TimerPeriod
    BY <2>2 DEF TimerDue
  <2>7. TimerRegular'
    BY <2>1, <2>2, <2>5, <2>6 DEF TimerRegular
  <2>8. FrameTypeOK'
    BY <1>0, <1>1, <2>1, <2>2, <2>5 DEF FrameTypeOK
  <2> QED BY <1>1, <2>5, <2>7, <2>8 DEF FrameInv
<1> QED BY <1>2, <1>3

LEMMA TickTimerKeeps ==
  ASSUME FrameInv, TickTimer
  PROVE  FrameInv'
<1> USE FrameAssumption
<1>0. FrameTypeOK /\ phase = "timer" /\ TimerTypeOK /\ DividerFresh
  BY DEF FrameInv, FrameTypeOK, TickTimer
<1>1. TimerTypeOK' /\ DividerFresh'
  BY <1>0, TimerTickKeeps DEF TickTimer
<1>2. AfterCall /\ frametick' = frametick /\ timerTicks' = 0 /\ txCount' = txCount /\ ttyReady' = ttyReady
  BY DEF TickTimer
<1>3. /\ Executed' = ProcTicks * frametick + proctick + 1
      /\ proctick' \in 0..(ProcTicks - 1)
      /\ phase' \in {"cpu", "devices"}
      /\ DevicesAtZero'
  BY <1>0, <1>2, AfterCallCounts
<1>4. Executed = ProcTicks * frametick + proctick + 1
  BY <1>0 DEF Executed
<1>5. Executed % TimerPeriod = 0
  BY <1>0 DEF FrameInv, TimerRegular
<1>6. TimerRegular'
  BY <1>2, <1>3, <1>4, <1>5 DEF TimerRegular
<1>7. FrameTypeOK'
  BY <1>0, <1>1, <1>2, <1>3 DEF FrameTypeOK
<1> QED BY <1>1, <1>3, <1>6, <1>7 DEF FrameInv

LEMMA DevicesKeep ==
  ASSUME FrameInv, TickDevices
  PROVE  FrameInv'
<1> USE FrameAssumption
<1>0. FrameTypeOK /\ phase = "devices" /\ TimerTypeOK /\ DividerFresh
  BY DEF FrameInv, FrameTypeOK, TickDevices
<1>1. TimerTypeOK' /\ DividerFresh'
  BY <1>0 DEF TickDevices, timerVars, TimerTypeOK, DividerFresh, Counting
<1>2. /\ frametick + 1 < FrameTicks
      /\ frametick' = frametick + 1
      /\ phase' = "cpu"
      /\ proctick' = proctick
      /\ timerTicks' = timerTicks
  BY DEF TickDevices
<1>3. txCount' \in 0..TxTicks /\ ttyReady' \in BOOLEAN
  <2>1. txCount \in 0..TxTicks /\ ttyReady \in BOOLEAN
    BY <1>0 DEF FrameTypeOK
  <2>2. ASSUME TeletypeTick PROVE txCount' \in 0..TxTicks
    BY <2>1, <2>2 DEF TeletypeTick
  <2>3. ASSUME TeletypeTick PROVE ttyReady' \in BOOLEAN
    BY <2>1, <2>3, Zenon DEF TeletypeTick
  <2> QED BY <2>1, <2>2, <2>3 DEF TickDevices
<1>4. frametick \in Nat /\ proctick \in Nat
  BY <1>0 DEF FrameTypeOK
<1>5. proctick = 0
  BY DEF TickDevices, FrameInv, DevicesAtZero
<1>6. Executed' = Executed
  <2>1. Executed = ProcTicks * frametick + 0 + ProcTicks
    BY <1>0, <1>5 DEF Executed
  <2>2. Executed' = ProcTicks * (frametick + 1) + 0 + 0
    BY <1>2, <1>5 DEF Executed
  <2>3. ProcTicks * (frametick + 1) = ProcTicks * frametick + ProcTicks /\ ProcTicks * frametick \in Nat
    BY <1>4, SMT
  <2> QED BY <2>1, <2>2, <2>3
<1>7. TimerRegular'
  BY <1>0, <1>2, <1>6 DEF FrameInv, TimerRegular
<1>8. FrameTypeOK'
  BY <1>0, <1>1, <1>2, <1>3, <1>4 DEF FrameTypeOK
<1> QED BY <1>1, <1>2, <1>7, <1>8 DEF FrameInv, DevicesAtZero

LEMMA StepKeepsInv == FrameInv /\ [FrameNext]_frameVars => FrameInv'
<1> SUFFICES ASSUME FrameInv, [FrameNext]_frameVars PROVE FrameInv'
  OBVIOUS
<1> USE FrameAssumption
<1>0. /\ FrameTypeOK /\ TimerTypeOK /\ DividerFresh /\ TimerRegular /\ ttyReady \in BOOLEAN
      /\ DevicesAtZero
  BY DEF FrameInv, FrameTypeOK
<1>1. CASE BeginFrame
  <2>1. TimerTypeOK' /\ DividerFresh' /\ ttyReady' \in BOOLEAN
    BY <1>0, <1>1 DEF BeginFrame, timerVars, TimerTypeOK, DividerFresh, Counting
  <2>2. Executed' = Executed
    BY <1>1 DEF BeginFrame, Executed, countVars
  <2>3. TimerRegular'
    BY <1>0, <1>1, <2>2 DEF BeginFrame, countVars, TimerRegular
  <2>4. FrameTypeOK' /\ DevicesAtZero'
    BY <1>0, <1>1, <2>1 DEF BeginFrame, countVars, FrameTypeOK, DevicesAtZero
  <2> QED BY <2>1, <2>3, <2>4 DEF FrameInv
<1>2. ASSUME TimerTypeOK', DividerFresh', ttyReady' \in BOOLEAN, UNCHANGED <<phase, countVars>>
      PROVE  FrameInv'
  <2>1. Executed' = Executed
    BY <1>2 DEF Executed, countVars
  <2>2. TimerRegular' /\ DevicesAtZero'
    BY <1>0, <1>2, <2>1 DEF countVars, TimerRegular, DevicesAtZero
  <2>3. FrameTypeOK'
    BY <1>0, <1>2 DEF countVars, FrameTypeOK
  <2> QED BY <1>2, <2>2, <2>3 DEF FrameInv
<1>3. CASE BetweenFrames
  <2>1. TimerTypeOK' /\ DividerFresh' /\ ttyReady' \in BOOLEAN
    BY <1>0, <1>3, AccessKeeps DEF BetweenFrames
  <2> QED BY <1>2, <1>3, <2>1 DEF BetweenFrames
<1>4. CASE BoardReset
  <2>1. TimerTypeOK' /\ DividerFresh' /\ ttyReady' \in BOOLEAN
    BY <1>0, <1>4, BoardResetKeeps
  <2> QED BY <1>2, <1>4, <2>1 DEF BoardReset
<1>5. CASE ExecuteCPU
  BY <1>5, ExecuteKeeps
<1>6. CASE TickTimer
  BY <1>6, TickTimerKeeps
<1>7. CASE TickDevices
  BY <1>7, DevicesKeep
<1>8. CASE CompleteFrame
  <2>1. TimerTypeOK' /\ DividerFresh'
    BY <1>0, <1>8 DEF CompleteFrame, timerVars, TimerTypeOK, DividerFresh, Counting
  <2>2. ttyReady' \in BOOLEAN
    BY <1>8 DEF CompleteFrame
  <2> QED BY <1>8, <2>1, <2>2, CountersFresh DEF CompleteFrame, Returns, FrameInv
<1>9. CASE UNCHANGED frameVars
  <2>1. UNCHANGED timerVars /\ UNCHANGED ttyReady /\ UNCHANGED <<phase, countVars>>
    BY <1>9 DEF frameVars
  <2>2. TimerTypeOK' /\ DividerFresh' /\ ttyReady' \in BOOLEAN
    BY <1>0, <2>1 DEF timerVars, TimerTypeOK, DividerFresh, Counting
  <2> QED BY <1>2, <2>1, <2>2
<1> QED BY <1>1, <1>3, <1>4, <1>5, <1>6, <1>7, <1>8, <1>9 DEF FrameNext, SystemFrame

(* The counters of a frame, the timer and its flags stay in their ranges.   *)
THEOREM FrameTypeCorrect == FrameSpec => []FrameTypeOK
<1>1. FrameInv => FrameTypeOK
  BY DEF FrameInv
<1> QED BY <1>1, FrameStarts, StepKeepsInv, PTL DEF FrameSpec

(* No rest of an earlier period shortens one: for any divisors.             *)
THEOREM NoStalePrescaler == FrameSpec => []DividerFresh
<1>1. FrameInv => DividerFresh
  BY DEF FrameInv
<1> QED BY <1>1, FrameStarts, StepKeepsInv, PTL DEF FrameSpec

(* Counted from the start of a frame, the timer ticks on every call of      *)
(* Execute() whose number the period divides, whatever ends the frames.     *)
THEOREM TimerTicksRegularly == FrameSpec => []TimerRegular
<1>1. FrameInv => TimerRegular
  BY DEF FrameInv
<1> QED BY <1>1, FrameStarts, StepKeepsInv, PTL DEF FrameSpec

-----------------------------------------------------------------------------
(* The timer as a countdown. *)

(* Only the VM1G has a timer interrupt. *)
RequestsVM1G == vm1g \in BOOLEAN /\ request \in BOOLEAN /\ (request => vm1g)

LEMMA RequestsStart == FrameInit => RequestsVM1G
  BY DEF FrameInit, TimerInit, RequestsVM1G

LEMMA RequestsKept == FrameInv /\ RequestsVM1G /\ [FrameNext]_frameVars => RequestsVM1G'
<1> SUFFICES ASSUME FrameInv, RequestsVM1G, [FrameNext]_frameVars PROVE RequestsVM1G'
  OBVIOUS
<1>0. TimerTypeOK
  BY DEF FrameInv, FrameTypeOK
<1>1. ASSUME UNCHANGED timerVars PROVE RequestsVM1G'
  BY <1>1 DEF timerVars, RequestsVM1G
<1>2. ASSUME TimerTick PROVE RequestsVM1G'
  <2>1. ASSUME Expire PROVE RequestsVM1G'
    <3>1. vm1g' = vm1g /\ flags.expire \in BOOLEAN
      BY <1>0, <2>1 DEF Expire, TimerTypeOK, ModeBits
    <3>2. request' = (request \/ (flags.expire /\ vm1g))
      BY <2>1 DEF Expire, Signalled
    <3> QED BY <3>1, <3>2, Zenon DEF RequestsVM1G
  <2>2. ASSUME Hold \/ Pause \/ Divide \/ CountDown PROVE RequestsVM1G'
    BY <2>2 DEF Hold, Pause, Divide, CountDown, timerVars, RequestsVM1G
  <2> QED BY <1>2, <2>1, <2>2 DEF TimerTick
<1>3. ASSUME Access PROVE RequestsVM1G'
  <2>1. ASSUME NEW mode \in Modes, SetTimerState(mode) PROVE RequestsVM1G'
    <3>1. request' = (request \/ (vm1g /\ timer = 0 /\ mode.expire /\ ~mode.wrap)) /\ vm1g' = vm1g
      BY <2>1 DEF SetTimerState
    <3> QED BY <3>1, Zenon DEF RequestsVM1G
  <2>2. ASSUME NEW val \in Reloads, SetTimerReload(val) PROVE RequestsVM1G'
    BY <2>2 DEF SetTimerReload, RequestsVM1G
  <2>3. ASSUME ResetTimer \/ TakeRequest PROVE RequestsVM1G'
    BY <2>3 DEF ResetTimer, TakeRequest, RequestsVM1G
  <2> QED BY <1>1, <1>3, <2>1, <2>2, <2>3 DEF Access, TimerAccess, WriteTtyData, ResetDevices
<1>4. ASSUME BoardReset PROVE RequestsVM1G'
  BY <1>4 DEF BoardReset, RequestsVM1G
<1>5. ASSUME UNCHANGED frameVars PROVE RequestsVM1G'
  BY <1>1, <1>5 DEF frameVars
<1> QED BY <1>1, <1>2, <1>3, <1>4, <1>5
        DEF FrameNext, BeginFrame, BetweenFrames, SystemFrame, ExecuteCPU, TickTimer, TickDevices, CompleteFrame

LEMMA SignalsBounded ==
  ASSUME RequestsVM1G
  PROVE  Signals \in 0..(IF vm1g THEN 2 ELSE 1)
  BY DEF RequestsVM1G, Signals

LEMMA TurnOfDivisor ==
  ASSUME NEW d \in Nat \ {0}, NEW v \in 0..(Modulus - 1)
  PROVE  d * Turn(v) \in Nat /\ d * Turn(v) >= d
<1>1. Turn(v) \in Nat \ {0}
  BY TimerAssumption DEF Turn
<1>2. PICK k \in Nat : Turn(v) = k + 1
  <2>1. Turn(v) - 1 \in Nat /\ Turn(v) = (Turn(v) - 1) + 1
    BY <1>1
  <2> QED BY <2>1
<1>3. d * (k + 1) = d * k + d /\ d * k \in Nat
  BY SMT
<1> QED BY <1>2, <1>3

LEMMA Lengths == TimerTypeOK /\ DividerFresh => Left \in Nat /\ NextLength \in Nat
<1> SUFFICES ASSUME TimerTypeOK, DividerFresh PROVE Left \in Nat /\ NextLength \in Nat
  OBVIOUS
<1> USE TimerAssumption
<1>1. PICK d \in Nat \ {0} : d = Divisor[flags.prescale]
  BY DivisorType DEF TimerTypeOK
<1>2. ASSUME NEW v \in 0..(Modulus - 1) PROVE d * Turn(v) \in Nat /\ d * Turn(v) >= d
  BY <1>2, TurnOfDivisor
<1>3. Counting => Ticks(timer, divider) \in Nat
  <2>1. d * Turn(timer) \in Nat /\ d * Turn(timer) >= d
    BY <1>2 DEF TimerTypeOK
  <2> QED BY <1>1, <2>1 DEF Ticks, TimerTypeOK, DividerFresh
<1>4. ASSUME NEW v \in 0..(Modulus - 1) PROVE Ticks(v, 0) \in Nat
  BY <1>1, <1>2 DEF Ticks
<1>5. reload \in 0..(Modulus - 1) /\ 0 \in 0..(Modulus - 1)
  BY DEF TimerTypeOK
<1> QED BY <1>3, <1>4, <1>5 DEF Left, NextLength

LEMMA LengthsNext == (TimerTypeOK /\ DividerFresh)' => (Left \in Nat /\ NextLength \in Nat)'
  BY Lengths, PTL

(* One tick of the timer is one tick of the countdown. *)
TickDone == Countdown!Rest \/ Countdown!Count \/ Countdown!Elapse

LEMMA DivideCounts ==
  ASSUME TimerTypeOK, DividerFresh, Divide
  PROVE  Countdown!Count
<1>1. PICK d \in Nat \ {0} : d = Divisor[flags.prescale]
  BY DivisorType DEF TimerTypeOK
<1>2. /\ Counting /\ divider + 1 < d /\ divider' = divider + 1
      /\ timer' = timer /\ reload' = reload /\ flags' = flags /\ request' = request /\ vm1g' = vm1g
  BY <1>1 DEF Divide, Divides
<1>3. d * Turn(timer) \in Nat /\ d * Turn(timer) >= d
  BY <1>1, TurnOfDivisor DEF TimerTypeOK
<1>4. Counting' /\ Turn(timer)' = Turn(timer) /\ Divisor[flags'.prescale] = d
  BY <1>1, <1>2 DEF Counting, Turn
<1>5. Left = d * Turn(timer) - divider /\ Left' = d * Turn(timer) - (divider + 1)
  BY <1>1, <1>2, <1>4 DEF Left, Ticks
<1>6. Left > 1 /\ Left' = Left - 1
  BY <1>2, <1>3, <1>5 DEF TimerTypeOK
<1>7. NextLength' = NextLength /\ Signalling' = Signalling /\ Signals' = Signals
  BY <1>2 DEF NextLength, Signalling, Signals, Counting, Ticks, Turn
<1> QED BY <1>2, <1>6, <1>7 DEF Countdown!Count

(* The count that a full prescaler makes. *)
LEMMA FullPrescaler ==
  ASSUME TimerTypeOK, DividerFresh, Counting, ~Divides, NEW d \in Nat \ {0}, d = Divisor[flags.prescale]
  PROVE  /\ Turn(timer) \in Nat \ {0}
         /\ Decremented = 0 => Left = 1
         /\ Decremented # 0 => /\ Left > 1
                               /\ Left - 1 = d * Turn(Decremented)
<1> USE TimerAssumption
<1>1. divider + 1 = d
  BY DEF TimerTypeOK, DividerFresh, Divides
<1>2. Left = d * Turn(timer) - divider
  BY DEF Left, Ticks
<1>3. Turn(timer) \in Nat \ {0}
  BY DEF Turn, TimerTypeOK
<1>4. CASE Decremented = 0
  <2>1. Turn(timer) = 1
    BY <1>4 DEF Decremented, Turn, TimerTypeOK
  <2>2. d * 1 = d
    BY SMT
  <2>3. Left = d * 1 - divider
    BY <1>2, <2>1
  <2>4. Left = 1
    BY <1>1, <2>2, <2>3 DEF TimerTypeOK
  <2> QED BY <1>3, <1>4, <2>4
<1>5. CASE Decremented # 0
  <2>1. Turn(timer) = Turn(Decremented) + 1 /\ Turn(Decremented) \in Nat \ {0}
    BY <1>5 DEF Decremented, Turn, TimerTypeOK
  <2>2. PICK t \in Nat \ {0} : t = Turn(Decremented)
    BY <2>1
  <2>3. d * (t + 1) = d * t + d /\ d * t \in Nat
    BY SMT
  <2>4. d * t >= 1
    <3>1. d * t # 0
      BY SMT
    <3> QED BY <2>3, <3>1
  <2>5. Left = d * t + d - divider
    <3>1. Left = d * (t + 1) - divider
      BY <1>2, <2>1, <2>2
    <3> QED BY <2>3, <3>1 DEF TimerTypeOK
  <2>6. Left = d * t + 1
    BY <1>1, <2>3, <2>5 DEF TimerTypeOK
  <2> QED BY <1>3, <1>5, <2>2, <2>3, <2>4, <2>6
<1> QED BY <1>4, <1>5

LEMMA CountDownCounts ==
  ASSUME TimerTypeOK, DividerFresh, CountDown
  PROVE  Countdown!Count \/ Countdown!Elapse
<1> USE TimerAssumption
<1>1. PICK d \in Nat \ {0} : d = Divisor[flags.prescale]
  BY DivisorType DEF TimerTypeOK
<1>2. /\ Counting /\ ~Divides /\ divider' = 0 /\ timer' = Decremented
      /\ Decremented # 0 \/ flags.wrap
      /\ reload' = reload /\ flags' = flags /\ request' = request /\ vm1g' = vm1g
  BY DEF CountDown
<1>3. Counting' /\ Divisor[flags'.prescale] = d /\ Turn(timer)' = Turn(Decremented)
  BY <1>1, <1>2 DEF Counting, Turn
<1>4. /\ Decremented = 0 => Left = 1
      /\ Decremented # 0 => Left > 1 /\ Left - 1 = d * Turn(Decremented)
  BY <1>1, <1>2, FullPrescaler
<1>5. d * Turn(Decremented) \in Nat
  <2>1. Decremented \in 0..(Modulus - 1)
    BY DEF Decremented, TimerTypeOK
  <2> QED BY <1>1, <2>1, TurnOfDivisor
<1>6. Left' = d * Turn(Decremented)
  <2>1. Left' = d * Turn(Decremented) - 0
    BY <1>2, <1>3 DEF Left, Ticks
  <2> QED BY <1>5, <2>1
<1>7. NextLength' = NextLength /\ Signalling' = Signalling /\ Signals' = Signals
  BY <1>2 DEF NextLength, Signalling, Signals, Counting, Ticks, Turn
<1>8. CASE Decremented # 0
  BY <1>2, <1>4, <1>6, <1>7, <1>8 DEF Countdown!Count
<1>9. CASE Decremented = 0
  <2>1. flags.wrap /\ ~Signalling
    BY <1>2, <1>9 DEF Signalling
  <2>2. NextLength = d * Turn(0) - 0
    BY <1>1, <1>2, <2>1 DEF NextLength, Ticks
  <2>3. Left' = NextLength
    BY <1>5, <1>6, <1>9, <2>2
  <2>4. Signalling' = (Signalling /\ NextLength # 0)
    <3>1. Signalling = FALSE
      BY <2>1, Zenon DEF Signalling
    <3> QED BY <1>7, <3>1, Zenon
  <2>5. Signals' = IF Signalling /\ Signals < (IF vm1g THEN 2 ELSE 1) THEN Signals + 1 ELSE Signals
    BY <1>7, <2>1
  <2> QED BY <1>2, <1>4, <1>7, <1>9, <2>3, <2>4, <2>5 DEF Countdown!Elapse
<1> QED BY <1>8, <1>9

LEMMA ExpireElapses ==
  ASSUME TimerTypeOK, DividerFresh, RequestsVM1G, Expire
  PROVE  Countdown!Elapse
<1> USE TimerAssumption
<1>1. PICK d \in Nat \ {0} : d = Divisor[flags.prescale]
  BY DivisorType DEF TimerTypeOK
<1>2. /\ Counting /\ ~Divides /\ Decremented = 0 /\ ~flags.wrap /\ divider' = 0
      /\ timer' = reload /\ reload' = reload /\ vm1g' = vm1g
      /\ flags.expire \in BOOLEAN /\ Signalled(flags.expire)
  BY DEF Expire, TimerTypeOK, ModeBits
<1>3. Left = 1
  BY <1>1, <1>2, FullPrescaler
<1>4. /\ request' = (request \/ (flags.expire /\ vm1g))
      /\ flags' \in ModeBits
      /\ flags'.stop = flags.stop
      /\ flags'.prescale = flags.prescale
      /\ flags'.wrap = flags.wrap
      /\ flags'.expire = flags.expire
      /\ flags'.oneshot = flags.oneshot
      /\ flags'.run <=> flags.run /\ ~flags.oneshot
      /\ flags'.expiry <=> flags.expiry \/ (flags.expire /\ (vm1g => request))
  BY <1>2, SignalledFlags DEF Signalled
<1>5. Counting' <=> ~flags.oneshot
  BY <1>2, <1>4, Zenon DEF Counting
<1>6. d * Turn(reload) \in Nat /\ d * Turn(reload) >= d /\ Turn(timer)' = Turn(reload)
  BY <1>2, TurnOfDivisor DEF TimerTypeOK, Turn
<1>7. NextLength = IF flags.oneshot THEN 0 ELSE d * Turn(reload)
  <2>1. NextLength = IF ~flags.oneshot THEN d * Turn(reload) - 0 ELSE 0
    BY <1>1, <1>2 DEF NextLength, Ticks
  <2> QED BY <1>6, <2>1
<1>8. Left' = IF flags.oneshot THEN 0 ELSE d * Turn(reload)
  <2>1. Left' = IF Counting' THEN Divisor[flags'.prescale] * Turn(timer)' - divider' ELSE 0
    BY DEF Left, Ticks
  <2>2. Left' = IF ~flags.oneshot THEN d * Turn(reload) - 0 ELSE 0
    BY <1>1, <1>2, <1>4, <1>5, <1>6, <2>1
  <2> QED BY <1>6, <2>2
<1>9. NextLength' = NextLength
  <2>1. NextLength' = IF ~flags.oneshot THEN d * Turn(reload) - 0 ELSE 0
    <3>1. Turn(reload)' = Turn(reload)
      BY <1>2 DEF Turn
    <3>2. Counting' /\ (flags'.wrap \/ ~flags'.oneshot) <=> ~flags.oneshot
      BY <1>2, <1>4, <1>5, Zenon
    <3>3. NextLength' = IF Counting' /\ (flags'.wrap \/ ~flags'.oneshot)
                        THEN Divisor[flags'.prescale] * Turn(IF flags'.wrap THEN 0 ELSE reload') - 0 ELSE 0
      BY DEF NextLength, Ticks, Turn
    <3>4. Turn(IF flags'.wrap THEN 0 ELSE reload') = Turn(reload)
      BY <1>2, <1>4
    <3> QED BY <1>1, <1>4, <3>2, <3>3, <3>4
  <2> QED BY <1>6, <1>7, <2>1
<1>10. Signalling <=> flags.expire
  BY <1>2, Zenon DEF Signalling
<1>11. Signalling' = (Signalling /\ NextLength # 0)
  <2>1. NextLength # 0 <=> ~flags.oneshot
    BY <1>6, <1>7
  <2>2. Signalling' <=> ~flags.oneshot /\ flags.expire
    BY <1>2, <1>4, <1>5, Zenon DEF Signalling
  <2>3. Signalling \in BOOLEAN /\ Signalling' \in BOOLEAN
    BY DEF Signalling
  <2> QED BY <1>10, <2>1, <2>2, <2>3, Zenon
<1>12. Signals' = IF Signalling /\ Signals < (IF vm1g THEN 2 ELSE 1) THEN Signals + 1 ELSE Signals
  <2>1. CASE ~flags.expire
    <3>1. (request' <=> request) /\ (flags'.expiry <=> flags.expiry)
      BY <1>4, <2>1, Zenon
    <3> QED BY <1>10, <2>1, <3>1 DEF Signals
  <2>2. CASE flags.expire /\ vm1g
    <3>1. request' /\ (flags'.expiry <=> flags.expiry \/ request)
      BY <1>4, <2>2, Zenon
    <3> QED BY <1>10, <2>2, <3>1 DEF Signals
  <2>3. CASE flags.expire /\ ~vm1g
    <3>1. ~request /\ ~request' /\ flags'.expiry
      BY <1>4, <2>3, Zenon DEF RequestsVM1G
    <3> QED BY <1>10, <2>3, <3>1 DEF Signals
  <2> QED BY <2>1, <2>2, <2>3
<1> QED BY <1>2, <1>3, <1>7, <1>8, <1>9, <1>11, <1>12 DEF Countdown!Elapse

LEMMA TickCounts ==
  ASSUME TimerTypeOK, DividerFresh, RequestsVM1G, TimerTick
  PROVE  TickDone
<1>1. ASSUME Hold \/ Pause PROVE Countdown!Rest
  <2>1. ~Counting /\ ~Counting'
    BY <1>1 DEF Hold, Pause, timerVars, Counting
  <2>2. Left = 0 /\ Left' = 0 /\ NextLength = 0 /\ NextLength' = 0
    BY <2>1 DEF Left, NextLength
  <2>3. Signalling' = Signalling /\ Signals' = Signals /\ vm1g' = vm1g
    BY <1>1 DEF Hold, Pause, timerVars, Signalling, Counting, Signals
  <2> QED BY <2>2, <2>3 DEF Countdown!Rest
<1> QED BY <1>1, DivideCounts, CountDownCounts, ExpireElapses DEF TimerTick, TickDone

(* What the program, the debugger or a reset does between two ticks. *)
Programmed == Countdown!Relength \/ Countdown!Answer \/ Countdown!Start

LEMMA UntouchedAnswers ==
  ASSUME RequestsVM1G, UNCHANGED timerVars
  PROVE  Countdown!Answer
<1>1. Left' = Left /\ NextLength' = NextLength /\ Signalling' = Signalling /\ Signals' = Signals /\ vm1g' = vm1g
  BY DEF timerVars, Left, NextLength, Signalling, Signals, Counting, Ticks, Turn
<1>2. Signals \in Nat
  BY DEF Signals
<1> QED BY <1>1, <1>2 DEF Countdown!Answer

LEMMA FreshStarts ==
  ASSUME TimerTypeOK', DividerFresh', RequestsVM1G', vm1g' = vm1g
  PROVE  Countdown!Start
<1>1. Left' \in Nat /\ NextLength' \in Nat
  BY LengthsNext
<1>2. Signals' \in 0..(IF vm1g THEN 2 ELSE 1)
  BY DEF RequestsVM1G, Signals
<1>3. Signalling' \in BOOLEAN
  BY DEF Signalling
<1> QED BY <1>1, <1>2, <1>3 DEF Countdown!Start

LEMMA AccessProgrammes ==
  ASSUME FrameInv, RequestsVM1G, Access, RequestsVM1G'
  PROVE  Programmed
<1>0. TimerTypeOK /\ DividerFresh /\ ttyReady \in BOOLEAN
  BY DEF FrameInv, FrameTypeOK
<1>1. TimerTypeOK' /\ DividerFresh'
  BY <1>0, AccessKeeps
<1>2. ASSUME NEW val \in Reloads, SetTimerReload(val) PROVE Countdown!Relength
  <2>1. NextLength' \in Nat
    BY <1>1, LengthsNext
  <2>2. Left' = Left /\ Signalling' = Signalling /\ Signals' = Signals /\ vm1g' = vm1g
    BY <1>2 DEF SetTimerReload, Left, Ticks, Turn, Signalling, Signals, Counting
  <2> QED BY <2>1, <2>2 DEF Countdown!Relength
<1>3. ASSUME TakeRequest PROVE Countdown!Answer
  <2>1. Left' = Left /\ NextLength' = NextLength /\ Signalling' = Signalling /\ vm1g' = vm1g
    BY <1>3 DEF TakeRequest, Left, NextLength, Ticks, Turn, Signalling, Counting
  <2>2. Signals' \in 0..Signals
    BY <1>3 DEF TakeRequest, Signals
  <2> QED BY <2>1, <2>2 DEF Countdown!Answer
<1>4. ASSUME NEW mode \in Modes, SetTimerState(mode) PROVE Countdown!Start
  BY <1>1, <1>4, FreshStarts DEF SetTimerState
<1>5. ASSUME ResetTimer PROVE Countdown!Start
  BY <1>1, <1>5, FreshStarts DEF ResetTimer
<1>6. ASSUME UNCHANGED timerVars PROVE Countdown!Answer
  BY <1>6, UntouchedAnswers
<1> QED BY <1>2, <1>3, <1>4, <1>5, <1>6 DEF Access, TimerAccess, WriteTtyData, ResetDevices, Programmed

LEMMA StepCounts ==
  FrameInv /\ RequestsVM1G /\ [FrameNext]_frameVars => [Countdown!Next]_(Countdown!vars)
<1> SUFFICES ASSUME FrameInv, RequestsVM1G, [FrameNext]_frameVars
             PROVE  [Countdown!Next]_(Countdown!vars)
  OBVIOUS
<1>0. /\ FrameInv' /\ RequestsVM1G' /\ TimerTypeOK /\ DividerFresh
      /\ phase \in {"idle", "cpu", "timer", "devices"} /\ FrameTypeOK
  BY StepKeepsInv, RequestsKept DEF FrameInv, FrameTypeOK
<1>1. ASSUME Programmed, phase # "timer" PROVE Countdown!Program
  BY <1>1 DEF Programmed, Countdown!Program
<1>2. ASSUME UNCHANGED timerVars, phase # "timer" PROVE Countdown!Program
  BY <1>1, <1>2, UntouchedAnswers DEF Programmed
<1>3. CASE BeginFrame
  BY <1>2, <1>3 DEF BeginFrame, Countdown!Next
<1>4. CASE BetweenFrames
  BY <1>0, <1>1, <1>4, AccessProgrammes DEF BetweenFrames, Countdown!Next
<1>5. CASE BoardReset
  <2>1. TimerTypeOK' /\ DividerFresh' /\ vm1g' = vm1g /\ phase # "timer"
    BY <1>0, <1>5, BoardResetKeeps DEF BoardReset
  <2> QED BY <1>0, <1>1, <2>1, FreshStarts DEF Programmed, Countdown!Next
<1>6. CASE ExecuteCPU
  BY <1>0, <1>1, <1>6, AccessProgrammes DEF ExecuteCPU, Countdown!Next
<1>7. CASE TickTimer
  <2>1. TickDone
    BY <1>0, <1>7, TickCounts DEF TickTimer
  <2>2. phase = "timer" /\ phase' \in {"cpu", "devices"}
    BY <1>0, <1>7, AfterCallCounts DEF TickTimer
  <2>3. (phase' = "timer") = FALSE
    BY <2>2
  <2> QED BY <2>1, <2>2, <2>3 DEF TickDone, Countdown!Tick, Countdown!Next
<1>8. CASE TickDevices \/ CompleteFrame
  BY <1>2, <1>8 DEF TickDevices, CompleteFrame, Countdown!Next
<1>9. CASE UNCHANGED frameVars
  <2>1. UNCHANGED timerVars /\ phase' = phase
    BY <1>9 DEF frameVars
  <2>2. /\ Left' = Left /\ NextLength' = NextLength /\ Signalling' = Signalling
        /\ Signals' = Signals /\ vm1g' = vm1g
    BY <2>1 DEF timerVars, Left, NextLength, Signalling, Signals, Counting, Ticks, Turn
  <2> QED BY <2>1, <2>2 DEF Countdown!vars
<1> QED BY <1>3, <1>4, <1>5, <1>6, <1>7, <1>8, <1>9 DEF FrameNext, SystemFrame

LEMMA CountdownStarts == FrameInit => Countdown!Init
<1> SUFFICES ASSUME FrameInit PROVE Countdown!Init
  OBVIOUS
<1>1. flags = Quiet /\ ~request /\ phase = "idle"
  BY DEF FrameInit, TimerInit
<1>2. ~flags.run /\ ~flags.expiry
  BY <1>1 DEF Quiet
<1>3. ~Counting
  BY <1>2 DEF Counting
<1>4. Left = 0 /\ NextLength = 0 /\ Signals = 0
  BY <1>1, <1>2, <1>3 DEF Left, NextLength, Signals
<1>5. Signalling = FALSE
  BY <1>3, Zenon DEF Signalling
<1> QED BY <1>1, <1>4, <1>5 DEF Countdown!Init

(* The timer is a countdown, for a counter of any width, any divisors and   *)
(* any length of frames: its ticks, and nothing but they, take it to the    *)
(* end of a period, which is signalled.                                     *)
THEOREM TimerImplementsCountdown == FrameSpec => CountdownSpec
<1>1. FrameInit => FrameInv /\ RequestsVM1G
  BY FrameStarts, RequestsStart
<1>2. FrameInv /\ RequestsVM1G /\ [FrameNext]_frameVars => FrameInv' /\ RequestsVM1G'
  BY StepKeepsInv, RequestsKept
<1> QED BY <1>1, <1>2, CountdownStarts, StepCounts, PTL DEF FrameSpec, CountdownSpec, Countdown!Spec
=============================================================================
