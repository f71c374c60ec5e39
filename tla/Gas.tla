-------------------------------- MODULE Gas --------------------------------
(***************************************************************************)
(* Gas metering of frychain-vm: gas.rs.  A meter is a record; used only    *)
(* grows while an interpreter runs, and stops at the limit.  Sums of gas   *)
(* saturate at 2^64 - 1 in the code; a limit is below that, so a sum that  *)
(* saturates exceeds the limit exactly when the plain sum does.            *)
(***************************************************************************)
EXTENDS Integers

\* The costs the interpreters charge
BASE == 2
VERY_LOW == 3
LOW == 5
SLOAD == 800
SSTORE_SET == 20000
SSTORE_RESET == 5000
CALL == 700
LOG == 375
LOG_DATA == 8
SHA3_WORD == 6
SHA3_BASE == 30

GasMeter == [limit : Nat, used : Nat, refund : Nat]

NewMeter(limit) == [limit |-> limit, used |-> 0, refund |-> 0]

Remaining(m) == IF m.used > m.limit THEN 0 ELSE m.limit - m.used

\* Mutant: the last unit of gas cannot be used
HasGasStrict(m, amount) == amount \in 0..(m.limit - m.used - 1)

\* has_gas: what is asked for is no more than what is left
HasGas(m, amount) == amount \in 0..(m.limit - m.used)

\* Mutant: what there is no gas for is used all the same
ConsumeUnbounded(m, amount) == [m EXCEPT !.used = @ + amount]

\* consume: out of gas, the whole limit is used
Consume(m, amount) ==
  [m EXCEPT !.used = IF HasGas(m, amount) THEN @ + amount ELSE m.limit]

AddRefund(m, amount) == [m EXCEPT !.refund = @ + amount]

\* final_used: at most half of what was used is refunded
FinalUsed(m) == m.used - (IF m.refund < m.used \div 2 THEN m.refund ELSE m.used \div 2)

\* sub_meter: at most 63/64 of what remains; the caller's meter is not charged
SubMeter(m, limit) ==
  LET most == Remaining(m) - Remaining(m) \div 64
  IN  NewMeter(IF limit < most THEN limit ELSE most)

\* return_gas: what the callee did not use is taken off what the caller used
ReturnGas(m, sub) ==
  LET back == Remaining(sub)
  IN  [m EXCEPT !.refund = @ + sub.refund,
                !.used = IF back > @ THEN 0 ELSE @ - back]

\* The 32-byte words that hold size bytes
Words(size) == (size + 31) \div 32

MemoryCost(current, new) ==
  LET Cost(words) == (words * words) \div 512 + words * 3
  IN  IF new <= current THEN 0 ELSE Cost(Words(new)) - Cost(Words(current))

CopyCost(size) == 3 * Words(size)

=============================================================================
