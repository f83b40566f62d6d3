-------------------------------- MODULE SysTask --------------------------------
(* Task SYS of 25-osfs11 (kernel/systask.c): it answers GET_TICKS, GET_PID    *)
(* and GET_RTC_TIME, one caller at a time, and turns the machine off.  The    *)
(* time is read from the CMOS register by register, year first, while the     *)
(* clock chip (external) goes on; year to second are abstracted to three      *)
(* registers of different size.                                               *)
EXTENDS Integers, Sequences

CONSTANTS
  RtcSizes,    \* how many values hour, minute and second take
  MaxRequests

ASSUME SysTaskAssumption ==
  /\ RtcSizes \in Seq(1..100) /\ Len(RtcSizes) = 3
  /\ MaxRequests \in Nat

VARIABLES
  elapsed,   \* seconds the clock chip has counted
  is_bcd,    \* does it keep its registers in BCD?
  sysPc,     \* "receive", "off", or the number of the register read next
  sys_t,     \* get_rtc_time()'s struct time
  rtc_answer,    \* the time last answered
  asked_at, requests     \* history

sysVars == <<elapsed, is_bcd, sysPc, sys_t, rtc_answer, asked_at, requests>>

Seconds(t) == (t[1] * RtcSizes[2] + t[2]) * RtcSizes[3] + t[3]
DayLength == RtcSizes[1] * RtcSizes[2] * RtcSizes[3]

Bcd(v) == (v \div 10) * 16 + (v % 10)
Field(i) == CASE i = 1 -> elapsed \div (RtcSizes[2] * RtcSizes[3])
              [] i = 2 -> (elapsed \div RtcSizes[3]) % RtcSizes[2]
              [] i = 3 -> elapsed % RtcSizes[3]
Register(i) == IF is_bcd THEN Bcd(Field(i)) ELSE Field(i)

SysInit ==
  /\ elapsed \in 0..(DayLength - 1) /\ is_bcd \in BOOLEAN
  /\ sysPc = 0 /\ sys_t = <<0, 0, 0>> /\ rtc_answer = <<0, 0, 0>>
  /\ asked_at = 0 /\ requests = 0

(* The chip; the run ends with its day.                                       *)
RtcTicks == /\ elapsed < DayLength - 1 /\ elapsed' = elapsed + 1
            /\ UNCHANGED <<is_bcd, sysPc, sys_t, rtc_answer, asked_at, requests>>

(* GET_TICKS and GET_PID are answered at once and change nothing; sysPc is 0  *)
(* while SYS receives, -1 once the machine is off.                            *)
task_sys ==
  /\ sysPc = 0 /\ requests < MaxRequests
  /\ requests' = requests + 1
  /\ \/ /\ sysPc' = 1 /\ asked_at' = elapsed
     \/ UNCHANGED <<sysPc, asked_at>>
  /\ UNCHANGED <<elapsed, is_bcd, sys_t, rtc_answer>>

power_off == /\ sysPc = 0 /\ sysPc' = -1
             /\ UNCHANGED <<elapsed, is_bcd, sys_t, rtc_answer, asked_at, requests>>

\* Mutation: the seconds are read first.
RegisterOfBackwards(i) == 4 - i

RegisterOf(i) == i

read_register ==
  /\ sysPc \in 1..3
  /\ sys_t' = [sys_t EXCEPT ![RegisterOf(sysPc)] = Register(RegisterOf(sysPc))]
  /\ sysPc' = sysPc + 1
  /\ UNCHANGED <<elapsed, is_bcd, rtc_answer, asked_at, requests>>

BCD_TO_DEC(x) == (x \div 16) * 10 + (x % 16)

(* CLK_STATUS, the conversion and the answer.                                 *)
rtc_converts ==
  /\ sysPc = 4 /\ sysPc' = 0
  /\ rtc_answer' = [i \in 1..3 |-> IF is_bcd THEN BCD_TO_DEC(sys_t[i]) ELSE sys_t[i]]
  /\ sys_t' = <<0, 0, 0>>
  /\ UNCHANGED <<elapsed, is_bcd, asked_at, requests>>

SysNext == RtcTicks \/ task_sys \/ power_off \/ read_register \/ rtc_converts

(* A time that is put together while the clock moves on may be one that never *)
(* was, but it is never ahead of the clock, and its hour is not older than    *)
(* the request (systask.c:83-88).                                             *)
RtcNotAhead ==
  sysPc = 0 =>
    /\ Seconds(rtc_answer) <= elapsed
    /\ rtc_answer[1] >= asked_at \div (RtcSizes[2] * RtcSizes[3])
===============================================================================
