------------------------------- MODULE SeqSpace -------------------------------
(***************************************************************************)
(* Sequence numbers as lwIP compares them (include/lwip/priv/tcp_priv.h):  *)
(* unsigned words that wrap, ordered by the sign of their difference.      *)
(* Wrap is 2^32 in the program; the models use a small even number so    *)
(* that streams cross the wrap.                                            *)
(***************************************************************************)
EXTENDS Integers

CONSTANT Wrap

SeqAssumption == Wrap \in Nat /\ Wrap > 1 /\ Wrap % 2 = 0

SeqNums == 0 .. Wrap - 1
SeqAdd(a, n) == (a + n) % Wrap
SeqSub(a, b) == (a - b) % Wrap

TCP_SEQ_LT(a, b) == SeqSub(a, b) >= Wrap \div 2
TCP_SEQ_LEQ(a, b) == TCP_SEQ_LT(a, b) \/ SeqSub(a, b) = 0
TCP_SEQ_GT(a, b) == ~TCP_SEQ_LEQ(a, b)
TCP_SEQ_GEQ(a, b) == ~TCP_SEQ_LT(a, b)
TCP_SEQ_BETWEEN(a, b, c) == TCP_SEQ_GEQ(a, b) /\ TCP_SEQ_LEQ(a, c)
==============================================================================
