-------------------------------- MODULE Timer --------------------------------
(***************************************************************************)
(* The system timer of CMotherboard (src/emubase/Board.cpp, 177706 to      *)
(* 177712): a counter behind a prescaler, with a reload register and six   *)
(* mode bits.  On the K1801VM1G its end of period is an interrupt request  *)
(* of the processor, whose flag is part of this module.                    *)
(***************************************************************************)
EXTENDS Integers

CONSTANTS
  Modulus,      (* values of the 16-bit counter: 65536 in the code           *)
  Divisor,      (* timer ticks per count, by the two prescaler bits          *)
  Reloads,      (* values programs write to the reload register              *)
  ResetReload,  (* its value after a reset, 011000 in the code               *)
  Modes         (* values programs write to the mode register                *)

ModeBits == [stop : BOOLEAN, wrap : BOOLEAN, expire : BOOLEAN, oneshot : BOOLEAN,
             run : BOOLEAN, prescale : 0..3, expiry : BOOLEAN]

ASSUME TimerAssumption ==
  /\ Modulus \in Nat \ {0, 1}
  /\ Divisor \in [0..3 -> Nat \ {0}]
  /\ Reloads \subseteq 0..(Modulus - 1)
  /\ ResetReload \in 0..(Modulus - 1)
  /\ Modes \subseteq ModeBits

VARIABLES
  timer,        (* m_timer, the counter                                      *)
  reload,       (* m_timerreload                                             *)
  divider,      (* m_timerdivider, timer ticks since the last count          *)
  flags,        (* m_timerflags                                              *)
  request,      (* the processor's m_TIMERrq                                 *)
  vm1g          (* the configuration has the K1801VM1G                       *)

timerVars == <<timer, reload, divider, flags, request, vm1g>>

Quiet == [stop |-> FALSE, wrap |-> FALSE, expire |-> FALSE, oneshot |-> FALSE,
          run |-> FALSE, prescale |-> 0, expiry |-> FALSE]

TimerInit ==
  /\ timer = Modulus - 1
  /\ reload = ResetReload
  /\ divider = 0
  /\ flags = Quiet
  /\ request = FALSE
  /\ vm1g \in BOOLEAN

Counting == flags.run /\ ~flags.stop

-----------------------------------------------------------------------------
(* TimerTick(), once every 128 calls of Execute(). *)

Hold ==
  /\ flags.stop
  /\ timer' = reload
  /\ UNCHANGED <<reload, divider, flags, request, vm1g>>

Pause ==
  /\ ~flags.stop /\ ~flags.run
  /\ UNCHANGED timerVars

(* The prescaler takes the tick. *)
Divides == divider + 1 < Divisor[flags.prescale]

Divide ==
  /\ Counting /\ Divides
  /\ divider' = divider + 1
  /\ UNCHANGED <<timer, reload, flags, request, vm1g>>

(* Slip: the counter is wider than 16 bits and goes on below 0. *)
DecrementedSigned == timer - 1

Decremented == IF timer = 0 THEN Modulus - 1 ELSE timer - 1

(* A count that does not reach 0, or does so in WRAPAROUND mode. *)
CountDown ==
  /\ Counting /\ ~Divides
  /\ Decremented # 0 \/ flags.wrap
  /\ divider' = 0
  /\ timer' = Decremented
  /\ UNCHANGED <<reload, flags, request, vm1g>>

(* Slip: EXPIRY is not set while the previous request is still pending. *)
SignalledOnce(up) ==
  /\ request' = (request \/ (up /\ vm1g))
  /\ flags' = [flags EXCEPT !.run = @ /\ ~flags.oneshot, !.expiry = @ \/ (up /\ ~vm1g)]

(* The end of a period, signalled (up) or not: with the VM1G by a request,  *)
(* or by EXPIRY if the previous one still waits; otherwise by EXPIRY.       *)
Signalled(up) ==
  /\ request' = (request \/ (up /\ vm1g))
  /\ flags' = [flags EXCEPT !.run = @ /\ ~flags.oneshot,
                            !.expiry = @ \/ (up /\ (vm1g => request))]

Expire ==
  /\ Counting /\ ~Divides
  /\ Decremented = 0 /\ ~flags.wrap
  /\ divider' = 0
  /\ timer' = reload
  /\ Signalled(flags.expire)
  /\ UNCHANGED <<reload, vm1g>>

TimerTick == Hold \/ Pause \/ Divide \/ CountDown \/ Expire

-----------------------------------------------------------------------------
(* What a program's instruction does to the timer. *)

SetTimerReload(val) ==
  /\ reload' = val
  /\ UNCHANGED <<timer, divider, flags, request, vm1g>>

(* Slip: the prescaler keeps its count for the next period. *)
SetTimerStateKeepsDivider(mode) ==
  /\ request' = (request \/ (vm1g /\ timer = 0 /\ mode.expire /\ ~mode.wrap))
  /\ timer' = reload
  /\ flags' = mode
  /\ UNCHANGED <<reload, divider, vm1g>>

(* Enabling expiry on a counter that is 0 raises the VM1G's request at once. *)
SetTimerState(mode) ==
  /\ request' = (request \/ (vm1g /\ timer = 0 /\ mode.expire /\ ~mode.wrap))
  /\ timer' = reload
  /\ divider' = 0
  /\ flags' = mode
  /\ UNCHANGED <<reload, vm1g>>

(* RESET leaves the divider as it is. *)
ResetTimer ==
  /\ timer' = Modulus - 1
  /\ reload' = ResetReload
  /\ flags' = Quiet
  /\ request' = FALSE
  /\ UNCHANGED <<divider, vm1g>>

(* The processor enters the timer's interrupt. *)
TakeRequest ==
  /\ request
  /\ request' = FALSE
  /\ UNCHANGED <<timer, reload, divider, flags, vm1g>>

TimerAccess ==
  \/ \E val \in Reloads : SetTimerReload(val)
  \/ \E mode \in Modes : SetTimerState(mode)
  \/ TakeRequest

-----------------------------------------------------------------------------
TimerTypeOK ==
  /\ timer \in 0..(Modulus - 1)
  /\ reload \in 0..(Modulus - 1)
  /\ divider \in Nat
  /\ flags \in ModeBits
  /\ request \in BOOLEAN
  /\ vm1g \in BOOLEAN

(* The prescaler's count, which RESET leaves behind and TimerTick() only    *)
(* compares with "at least", is below its divisor whenever the timer        *)
(* counts: no period is cut short by an earlier one's rest                  *)
(* (Board.cpp:267-269, 302-323, 363).                                       *)
DividerFresh == Counting => divider < Divisor[flags.prescale]
=============================================================================
