------------------------- MODULE TCPService_proofs -------------------------
(***************************************************************************)
(* What TCPService promises the readers of its streams, for any writers.   *)
(***************************************************************************)
EXTENDS TCPService, TLAPS

TypeOK ==
  /\ sent \in [Writer -> Nat] /\ delivered \in [Writer -> Nat]
  /\ shut \in [Writer -> BOOLEAN] /\ eof \in [Writer -> BOOLEAN]

\* A reader has never been given more than was written, and one that has been
\* told of the end has been given everything its writer will ever write.
Complete ==
  \A s \in Writer :
    /\ delivered[s] <= sent[s]
    /\ eof[s] => shut[s] /\ delivered[s] = sent[s]

Inv == TypeOK /\ Complete

LEMMA InitInv == Init => Inv
BY DEF Init, Inv, TypeOK, Complete

LEMMA WriteInv ==
  ASSUME Inv, NEW s \in Writer, Write(s)
  PROVE  Inv'
<1>1. TypeOK' BY DEF Inv, TypeOK, Write
<1>2. ASSUME NEW t \in Writer
      PROVE  /\ (delivered[t] <= sent[t])'
             /\ (eof[t] => shut[t] /\ delivered[t] = sent[t])'
  <2>1. CASE t = s BY <2>1 DEF Inv, TypeOK, Complete, Write
  <2>2. CASE t # s BY <2>2 DEF Inv, TypeOK, Complete, Write
  <2> QED BY <2>1, <2>2
<1> QED BY <1>1, <1>2 DEF Inv, Complete

LEMMA ShutInv ==
  ASSUME Inv, NEW s \in Writer, Shut(s)
  PROVE  Inv'
BY DEF Inv, TypeOK, Complete, Shut

LEMMA ReadInv ==
  ASSUME Inv, NEW s \in Writer, Read(s)
  PROVE  Inv'
<1>1. PICK n \in delivered[s] .. sent[s] : delivered' = [delivered EXCEPT ![s] = n]
  BY DEF Read
<1>2. n \in Nat /\ n <= sent[s] BY DEF Inv, TypeOK
<1>3. \/ eof' = eof
      \/ shut[s] /\ delivered'[s] = sent[s] /\ eof' = [eof EXCEPT ![s] = TRUE]
  BY DEF Read
<1>4. ~eof[s] /\ sent' = sent /\ shut' = shut BY DEF Read
<1>5. TypeOK' BY <1>1, <1>2, <1>3, <1>4 DEF Inv, TypeOK
<1>6. ASSUME NEW t \in Writer
      PROVE  /\ (delivered[t] <= sent[t])'
             /\ (eof[t] => shut[t] /\ delivered[t] = sent[t])'
  <2>1. CASE t = s BY <1>1, <1>2, <1>3, <1>4, <2>1 DEF Inv, TypeOK
  <2>2. CASE t # s BY <1>1, <1>3, <1>4, <2>2 DEF Inv, TypeOK, Complete
  <2> QED BY <2>1, <2>2
<1> QED BY <1>5, <1>6 DEF Inv, Complete

\* Both streams of the service keep what Complete says: every implementation of
\* TCPService inherits it.
THEOREM ServiceComplete == Spec => []Complete
<1>1. Init => Inv BY InitInv
<1>2. Inv /\ [Next]_vars => Inv'
  <2> SUFFICES ASSUME Inv, [Next]_vars PROVE Inv' OBVIOUS
  <2>1. CASE Next BY <2>1, WriteInv, ShutInv, ReadInv DEF Next
  <2>2. CASE UNCHANGED vars BY <2>2 DEF Inv, TypeOK, Complete, vars
  <2> QED BY <2>1, <2>2
<1>3. Inv => Complete BY DEF Inv
<1> QED BY <1>1, <1>2, <1>3, PTL DEF Spec
=============================================================================
