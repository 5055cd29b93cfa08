--------------------------- MODULE TerminalProofs ---------------------------
(***************************************************************************)
(* What a terminal's promise comes to, step after step: the texts in order, *)
(* each once, none left out, whatever the browser may send.                *)
(***************************************************************************)
EXTENDS Terminal, TLAPS

Hearing == [at : Nat, whole : BOOLEAN]

HearingInv ==
  /\ sent \in Seq(Message)
  /\ heard \in Seq(Hearing)
  /\ HeardInOrder

\* The last text heard was sent.
LEMMA LastHeardFact ==
  ASSUME HearingInv
  PROVE  /\ LastHeard \in Nat /\ LastHeard <= Len(sent)
         /\ \A i \in 1 .. Len(heard) : heard[i].at <= LastHeard
<1>1. heard \in Seq(Hearing) /\ Len(sent) \in Nat /\ Len(heard) \in Nat
  BY DEF HearingInv
<1>2. \A i \in 1 .. Len(heard) : heard[i] \in Hearing
  BY <1>1
<1>3. CASE heard = <<>>
  BY <1>1, <1>3 DEF LastHeard
<1>4. CASE heard # <<>>
  <2>1. Len(heard) \in 1 .. Len(heard) /\ LastHeard = heard[Len(heard)].at
    BY <1>1, <1>4 DEF LastHeard
  <2>2. LastHeard \in 1 .. Len(sent)
    BY <2>1 DEF HearingInv, HeardInOrder
  <2>3. ASSUME NEW i \in 1 .. Len(heard) PROVE heard[i].at <= LastHeard
    <3>1. CASE i = Len(heard)
      BY <2>1, <2>2, <3>1
    <3>2. CASE i # Len(heard)
      <4>1. i \in 1 .. Len(heard) - 1
        BY <1>1, <3>2
      <4>2. heard[i].at < heard[Len(heard)].at
        BY <2>1, <4>1 DEF HearingInv, HeardInOrder
      <4>3. heard[i].at \in Nat
        BY <1>2 DEF Hearing
      <4> QED
        BY <2>1, <2>2, <4>2, <4>3
    <3> QED
      BY <3>1, <3>2
  <2> QED
    BY <2>2, <2>3
<1> QED
  BY <1>3, <1>4

\* What is sent later changes nothing for what was heard.
LEMMA TypeKeeps ==
  ASSUME HearingInv, Type
  PROVE  HearingInv'
<1>1. PICK m \in Message : sent' = Append(sent, m)
  BY DEF Type
<1>2. /\ sent' \in Seq(Message) /\ Len(sent') = Len(sent) + 1
      /\ Len(sent) \in Nat
      /\ \A i \in 1 .. Len(sent) : sent'[i] = sent[i]
  BY <1>1 DEF HearingInv
<1>3. heard' = heard /\ LastHeard' = LastHeard
  BY DEF Type, LastHeard
<1>4. /\ 1 .. Len(sent) \subseteq 1 .. Len(sent')
      /\ 1 .. LastHeard \subseteq 1 .. Len(sent)
  BY <1>2, LastHeardFact
<1>5. \A i \in 1 .. Len(heard) :
        /\ heard[i].at \in 1 .. Len(sent') /\ sent'[heard[i].at] \in Typed
        /\ heard[i].whole <=> sent'[heard[i].at] = "short"
        /\ \A j \in 1 .. i - 1 : heard[j].at < heard[i].at
  BY <1>2, <1>4 DEF HearingInv, HeardInOrder
<1>6. \A k \in 1 .. LastHeard : sent'[k] \in Typed =>
        \E i \in 1 .. Len(heard) : heard[i].at = k
  BY <1>2, <1>4 DEF HearingInv, HeardInOrder
<1> QED
  BY <1>2, <1>3, <1>5, <1>6 DEF HearingInv, HeardInOrder

\* The text that is heard comes after those heard before, and none is in
\* between.
LEMMA HearKeeps ==
  ASSUME HearingInv, Hear
  PROVE  HearingInv'
<1> DEFINE n == Len(heard)
<1>0. heard \in Seq(Hearing) /\ n \in Nat /\ Len(sent) \in Nat
  BY DEF HearingInv
<1>1. PICK p \in LastHeard + 1 .. Len(sent) :
        /\ sent[p] \in Typed
        /\ \A j \in LastHeard + 1 .. p - 1 : sent[j] \notin Typed
        /\ heard' = Append(heard, [at |-> p, whole |-> sent[p] = "short"])
  BY DEF Hear
<1>2. /\ p \in 1 .. Len(sent) /\ LastHeard < p /\ LastHeard \in Nat /\ p \in Nat
      /\ \A i \in 1 .. n : heard[i].at < p
  <2>1. LastHeard \in Nat /\ p \in Nat /\ LastHeard + 1 <= p /\ p <= Len(sent)
    BY <1>0, <1>1, LastHeardFact
  <2>2. ASSUME NEW i \in 1 .. n PROVE heard[i].at < p
    <3>1. heard[i] \in Hearing
      BY <1>0
    <3>2. heard[i].at \in Nat
      BY <3>1 DEF Hearing
    <3>3. heard[i].at <= LastHeard
      BY LastHeardFact
    <3> QED
      BY <2>1, <3>2, <3>3
  <2> QED
    BY <1>0, <2>1, <2>2
<1> DEFINE h == [at |-> p, whole |-> sent[p] = "short"]
<1>3. h \in Hearing /\ h.at = p /\ (h.whole <=> sent[p] = "short")
  BY <1>2 DEF Hearing
<1> HIDE DEF h
<1>4. /\ heard' \in Seq(Hearing) /\ Len(heard') = n + 1 /\ heard'[n + 1] = h
      /\ \A i \in 1 .. n : heard'[i] = heard[i]
      /\ heard' # <<>> /\ sent' = sent
  BY <1>0, <1>1, <1>3 DEF Hear, h
<1> HIDE DEF n
<1>5. LastHeard' = p
  BY <1>3, <1>4 DEF LastHeard
<1>6. ASSUME NEW i \in 1 .. n + 1
      PROVE  /\ heard'[i].at \in 1 .. Len(sent) /\ sent[heard'[i].at] \in Typed
             /\ heard'[i].whole <=> sent[heard'[i].at] = "short"
             /\ \A j \in 1 .. i - 1 : heard'[j].at < heard'[i].at
  <2>1. CASE i \in 1 .. n
    <3>1. \A j \in 1 .. i - 1 : j \in 1 .. n
      BY <1>0, <2>1
    <3> QED
      BY <1>4, <2>1, <3>1 DEF HearingInv, HeardInOrder, n
  <2>2. CASE i = n + 1
    <3>1. \A j \in 1 .. i - 1 : j \in 1 .. n
      BY <1>0, <2>2
    <3> QED
      BY <1>1, <1>2, <1>3, <1>4, <2>2, <3>1
  <2> QED
    BY <1>0, <2>1, <2>2
<1>7. ASSUME NEW k \in 1 .. p, sent[k] \in Typed
      PROVE  \E i \in 1 .. n + 1 : heard'[i].at = k
  <2>1. CASE k = p
    <3>1. n + 1 \in 1 .. n + 1
      BY <1>0
    <3> QED
      BY <1>3, <1>4, <2>1, <3>1
  <2>2. CASE k # p
    <3>1. k \in 1 .. LastHeard \/ k \in LastHeard + 1 .. p - 1
      BY <1>2, <2>2
    <3>2. k \in 1 .. LastHeard
      BY <1>1, <1>7, <3>1
    <3>3. PICK i \in 1 .. n : heard[i].at = k
      BY <1>7, <3>2 DEF HearingInv, HeardInOrder, n
    <3>4. i \in 1 .. n + 1
      BY <1>0
    <3> QED
      BY <1>4, <3>3, <3>4
  <2> QED
    BY <2>1, <2>2
<1> QED
  BY <1>4, <1>5, <1>6, <1>7 DEF HearingInv, HeardInOrder

\* Whatever is sent, and whenever the terminal is closed.
THEOREM HeardAsTyped == TerminalSpec => []HeardInOrder
<1>1. TerminalInit => HearingInv
  BY DEF TerminalInit, HearingInv, HeardInOrder, LastHeard
<1>2. HearingInv /\ [TerminalNext]_terminalVars => HearingInv'
  <2> SUFFICES ASSUME HearingInv, [TerminalNext]_terminalVars PROVE HearingInv'
    OBVIOUS
  <2>1. CASE UNCHANGED <<sent, heard>>
    BY <2>1 DEF HearingInv, HeardInOrder, LastHeard
  <2>2. CASE Type \/ Hear
    BY <2>2, TypeKeeps, HearKeeps
  <2> QED
    BY <2>1, <2>2 DEF TerminalNext, Open, CloseTerminal, terminalVars
<1>3. HearingInv => HeardInOrder
  BY DEF HearingInv
<1> QED
  BY <1>1, <1>2, <1>3, PTL DEF TerminalSpec
=============================================================================
