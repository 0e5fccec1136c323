------------------------------- MODULE History -------------------------------
(***************************************************************************)
(* The instruction history of src/Emulator.cpp: a ring the processor's two *)
(* callbacks fill, one record before each instruction and one at each      *)
(* interrupt entry.                                                        *)
(***************************************************************************)
EXTENDS Integers, Sequences

CONSTANTS
  HistorySize,  (* INSTR_HISTORY_SIZE, 256 in the code, a power of two       *)
  Records,      (* what is recorded                                          *)
  Zeroed        (* a record of the static array before it is used            *)

ASSUME HistoryAssumption == HistorySize \in Nat \ {0}

Slots == 0..(HistorySize - 1)

VARIABLES
  history,      (* m_InstrHistory                                            *)
  head,         (* m_InstrHistoryHead, the next slot to write                *)
  length        (* m_InstrHistoryLength, the valid records                   *)

historyVars == <<history, head, length>>

HistoryInit ==
  /\ history = [s \in Slots |-> Zeroed]
  /\ head = 0 /\ length = 0

(* Slip: the ring is started over with the old records still counted. *)
ClearHistoryHeadOnly ==
  /\ head' = 0
  /\ UNCHANGED <<history, length>>

ClearHistory ==
  /\ head' = 0 /\ length' = 0
  /\ UNCHANGED history

(* Slip: the count goes on when the ring is full. *)
AddHistoryRecordUncapped(r) ==
  /\ history' = [history EXCEPT ![head] = r]
  /\ head' = (head + 1) % HistorySize
  /\ length' = length + 1

AddHistoryRecord(r) ==
  /\ history' = [history EXCEPT ![head] = r]
  /\ head' = (head + 1) % HistorySize
  /\ length' = IF length < HistorySize THEN length + 1 ELSE length

(* Index 0 is the most recent one. *)
GetHistoryRecord(index) == history[(head - 1 - index) % HistorySize]

(* PrintHistory(): the last count records, oldest first. *)
Printed(count) ==
  LET shown == IF count > length THEN length ELSE count
  IN  [k \in 1..shown |-> GetHistoryRecord(shown - k)]

HistoryTypeOK ==
  /\ history \in [Slots -> Records \cup {Zeroed}]
  /\ head \in Slots
  /\ length \in 0..HistorySize
=============================================================================
