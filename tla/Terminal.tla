------------------------------ MODULE Terminal ------------------------------
(***************************************************************************)
(* What an open terminal promises to who types, without goroutines,        *)
(* channels or deadlines: of all that the browser sends, the process in    *)
(* the container hears the texts, in order, nothing twice and nothing left *)
(* out in between; of a text that is longer than the buffer it is read     *)
(* with, the beginning; and nothing once the terminal is closed.           *)
(***************************************************************************)
EXTENDS Naturals, Sequences

CONSTANT Message  \* what the browser may send, texts and other things

VARIABLES
  phase,  \* is the terminal opening, open or closed?
  sent,   \* what the browser has sent
  heard   \* the texts the process was given: their places, and if whole

terminalVars == <<phase, sent, heard>>

Typed == {"short", "long"}

TerminalInit == phase = "opening" /\ sent = <<>> /\ heard = <<>>

Open == phase = "opening" /\ phase' = "open" /\ UNCHANGED <<sent, heard>>

\* From "opening", too: there may be no shell to open it for.
CloseTerminal ==
  phase # "closed" /\ phase' = "closed" /\ UNCHANGED <<sent, heard>>

Type ==
  /\ \E m \in Message : sent' = Append(sent, m)
  /\ UNCHANGED <<phase, heard>>

LastHeard == IF heard = <<>> THEN 0 ELSE heard[Len(heard)].at

\* The next text is heard.
Hear ==
  /\ phase = "open"
  /\ \E i \in LastHeard + 1 .. Len(sent) :
       /\ sent[i] \in Typed
       /\ \A j \in LastHeard + 1 .. i - 1 : sent[j] \notin Typed
       /\ heard' = Append(heard, [at |-> i, whole |-> sent[i] = "short"])
  /\ UNCHANGED <<phase, sent>>

TerminalNext == Open \/ CloseTerminal \/ Type \/ Hear

TerminalSpec == TerminalInit /\ [][TerminalNext]_terminalVars
-----------------------------------------------------------------------------
\* What that comes to: what was heard are texts, each whole or cut as it fits
\* the buffer; they are heard in the order they were typed, none twice; and of
\* those typed before the last one heard, none is missing.
HeardInOrder ==
  /\ \A i \in 1 .. Len(heard) :
       /\ heard[i].at \in 1 .. Len(sent) /\ sent[heard[i].at] \in Typed
       /\ heard[i].whole <=> sent[heard[i].at] = "short"
       /\ \A j \in 1 .. i - 1 : heard[j].at < heard[i].at
  /\ \A k \in 1 .. LastHeard : sent[k] \in Typed =>
       \E i \in 1 .. Len(heard) : heard[i].at = k
=============================================================================
