----------------------------- MODULE StackLemmas -----------------------------
(***************************************************************************)
(* The stack of suspended callbacks, which both the controller's model and *)
(* the message layer's keep as a sequence with the innermost one last.     *)
(***************************************************************************)
EXTENDS Integers, Sequences, SequenceTheorems, TLAPS

(* A callback that is suspended goes on top of the stack, and what was on  *)
(* it stays (delay_ms).                                                    *)
LEMMA PushFrame ==
  ASSUME NEW S, NEW seq \in Seq(S), NEW x \in S
  PROVE  /\ Append(seq, x) \in Seq(S)
         /\ Len(Append(seq, x)) = Len(seq) + 1
         /\ \A k \in 1..Len(seq) : Append(seq, x)[k] = seq[k]
         /\ Append(seq, x)[Len(seq) + 1] = x
         /\ Len(seq) \in Nat
  BY AppendProperties, LenProperties

(* The callback that continues is the one on top; those below it stay.     *)
LEMMA PopFrame ==
  ASSUME NEW S, NEW seq \in Seq(S), seq # <<>>
  PROVE  /\ SubSeq(seq, 1, Len(seq) - 1) \in Seq(S)
         /\ Len(SubSeq(seq, 1, Len(seq) - 1)) = Len(seq) - 1
         /\ \A k \in 1..(Len(seq) - 1) : SubSeq(seq, 1, Len(seq) - 1)[k] = seq[k]
         /\ Len(seq) \in Nat \ {0}
         /\ seq[Len(seq)] \in S
<1>. DEFINE n == Len(seq)
            front == SubSeq(seq, 1, n - 1)
<1>1. n \in Nat \ {0}
  BY EmptySeq
<1>2. \A k \in 1..n : seq[k] \in S
  BY ElementOfSeq
<1>3. \A k \in 1..(n - 1) : seq[k] \in S
  BY <1>1, <1>2
<1>4. /\ front \in Seq(S)
      /\ Len(front) = IF 1 <= n - 1 THEN n - 1 - 1 + 1 ELSE 0
      /\ \A k \in 1..(n - 1 - 1 + 1) : front[k] = seq[1 + k - 1]
  BY <1>1, <1>3, SubSeqProperties
<1>. HIDE DEF n, front
<1>5. Len(front) = n - 1
  BY <1>1, <1>4
<1>6. \A k \in 1..(n - 1) : front[k] = seq[k]
  BY <1>1, <1>4
<1>. QED  BY <1>1, <1>2, <1>4, <1>5, <1>6 DEF n, front

=============================================================================
