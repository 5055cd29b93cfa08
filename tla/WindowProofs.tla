---------------------------- MODULE WindowProofs ----------------------------
(***************************************************************************)
(* That an open terminal brings the process down only by the two races     *)
(* CrashNeedsRace names, and gives the shell what is typed as Terminal     *)
(* says, however many messages its browser sends.                          *)
(***************************************************************************)
EXTENDS Window, TLAPS

USE WindowAssumption

\* What was said stays said.
LEMMA SaidGrows ==
  ASSUME sent \in Seq(Message), NEW m \in Message, sent' = Append(sent, m)
  PROVE  /\ sent' \in Seq(Message) /\ Len(sent') = Len(sent) + 1
         /\ \A i \in 1 .. Len(sent) : sent'[i] = sent[i]
         /\ Said \subseteq Said'
BY DEF Said

\* What the reader takes was said.
LEMMA TakenWasSaid ==
  ASSUME WindowTypeOK, NEW ops, Take(ops)
  PROVE  /\ taken' \in 1 .. Len(sent) /\ sent[taken'] \in ops
         /\ sent[taken'] \in Said
BY DEF WindowTypeOK, MessageTypeOK, Take, Said

\* What the shell is given is one text more.
LEMMA GivenGrows ==
  ASSUME WindowTypeOK, GiveText
  PROVE  /\ MessageTypeOK'
         /\ LastGiven' = taken /\ UNCHANGED <<sent, taken>>
<1>1. /\ given \in Seq([at : Nat, whole : BOOLEAN]) /\ taken \in Nat
      /\ given' = Append(given, [at |-> taken, whole |-> Fits(sent[taken])])
      /\ UNCHANGED <<sent, taken>>
  BY DEF GiveText, Reader, WindowTypeOK, MessageTypeOK
<1>2. [at |-> taken, whole |-> Fits(sent[taken])] \in [at : Nat, whole : BOOLEAN]
  BY <1>1 DEF Fits
<1>3. /\ given' \in Seq([at : Nat, whole : BOOLEAN])
      /\ Len(given') = Len(given) + 1 /\ given' # <<>>
      /\ given'[Len(given')] = [at |-> taken, whole |-> Fits(sent[taken])]
  BY <1>1, <1>2
<1> QED
  BY <1>1, <1>3 DEF WindowTypeOK, MessageTypeOK, LastGiven

\* The last element of a sequence is one of its elements.
LEMMA LastIsElement ==
  ASSUME NEW S, NEW seq \in Seq(S), seq # <<>>
  PROVE  seq[Len(seq)] \in S
OBVIOUS

\* The place of the last text is a place, or 0.
LEMMA LastGivenType == WindowTypeOK => LastGiven \in Nat
<1> SUFFICES ASSUME WindowTypeOK PROVE LastGiven \in Nat
  OBVIOUS
<1>1. given \in Seq([at : Nat, whole : BOOLEAN])
  BY DEF WindowTypeOK, MessageTypeOK
<1>2. CASE given = <<>>
  BY <1>2 DEF LastGiven
<1>3. CASE given # <<>>
  <2>1. given[Len(given)] \in [at : Nat, whole : BOOLEAN]
    BY <1>1, <1>3, LastIsElement
  <2> QED
    BY <1>3, <2>1 DEF LastGiven
<1> QED
  BY <1>2, <1>3

\* What was said only changes when the browser speaks.
LEMMA SaidStays ==
  ASSUME UNCHANGED sent
  PROVE  Said' = Said
BY DEF Said

\* Whether a write fails is a yes or a no, and so is what is remembered of it.
LEMMA FailureTypes ==
  ASSUME ConnTypeOK
  PROVE  /\ MustFail \in BOOLEAN
         /\ ControlFails => writeErr' \in BOOLEAN
BY DEF ConnTypeOK, MustFail, ControlFails

\* The steps of the handler keep the types ...
LEMMA HandlerTypes == WindowInv /\ HandlerStep => WindowTypeOK'
<1> SUFFICES ASSUME WindowInv, HandlerStep PROVE WindowTypeOK'
  OBVIOUS
<1> USE DEF WindowInv, WindowTypeOK, Handler, connVars, clientVars, shellVars
<1>1. GoroutineTypeOK'
  BY DEF GoroutineTypeOK, HandlerStep, StartProcess, StartFails, StreamEnds,
         CloseSizeChan, CloseConn
<1>2. ConnTypeOK'
  <2>1. writeErr' \in BOOLEAN
    BY FailureTypes DEF ConnTypeOK, HandlerStep, StartProcess, StartFails,
                        StreamEnds, CloseSizeChan, CloseConn
  <2> QED
    BY <2>1 DEF ConnTypeOK, HandlerStep, StartProcess, StartFails, StreamEnds,
                CloseSizeChan, CloseConn
<1>3. MessageTypeOK'
  BY DEF MessageTypeOK, HandlerStep, StartProcess, StartFails, StreamEnds,
         CloseSizeChan, CloseConn
<1> QED
  BY <1>1, <1>2, <1>3

\* ... and what is known of the reader, the guard and the panics.
LEMMA HandlerKeeps ==
  WindowInv /\ panic = "none" /\ HandlerStep => HeldInv' /\ CrashNeedsRace'
<1> SUFFICES ASSUME WindowInv, panic = "none", HandlerStep
             PROVE  HeldInv' /\ CrashNeedsRace'
  OBVIOUS
<1>0. Said' = Said /\ sent' = sent
  BY SaidStays DEF HandlerStep, StartProcess, StartFails, StreamEnds,
                   CloseSizeChan, CloseConn, Handler, clientVars
<1> USE <1>0 DEF WindowInv, HeldInv, CrashNeedsRace, Handler, connVars,
                 clientVars, shellVars
<1>1. CASE StartProcess
  BY <1>1 DEF StartProcess
<1>2. CASE StartFails
  BY <1>2 DEF StartFails
<1>3. CASE StreamEnds
  BY <1>3 DEF StreamEnds
<1>4. CASE CloseSizeChan
  BY <1>4 DEF CloseSizeChan, SizeChanClosed
<1>5. CASE CloseConn
  BY <1>5 DEF CloseConn, SizeChanClosed
<1> QED
  BY <1>1, <1>2, <1>3, <1>4, <1>5 DEF HandlerStep

\* The steps of the reader keep the types ...
LEMMA ReaderTypes == WindowInv /\ ReaderStep => WindowTypeOK'
<1> SUFFICES ASSUME WindowInv, ReaderStep PROVE WindowTypeOK'
  OBVIOUS
<1> USE DEF WindowInv, WindowTypeOK, Reader, EndInput, connVars, clientVars,
            shellVars
<1>1. GoroutineTypeOK'
  <2>1. CASE TakeText \/ TakeSize \/ TakeUnknown \/ TakeClose
    BY <2>1 DEF GoroutineTypeOK, TakeText, TakeSize, TakeUnknown, TakeClose
  <2>2. CASE ReadFails \/ GiveText \/ LoseText \/ SendSize \/ SendOnClosed
    BY <2>2 DEF GoroutineTypeOK, ReadFails, GiveText, LoseText, SendSize, SendOnClosed
  <2>3. CASE AnswerClose \/ WriteClose
    BY <2>3 DEF GoroutineTypeOK, AnswerClose, WriteClose
  <2>4. CASE WriteCloseEnds
    BY <2>4 DEF GoroutineTypeOK, WriteCloseEnds
  <2> QED
    BY <2>1, <2>2, <2>3, <2>4 DEF ReaderStep
<1>2. ConnTypeOK'
  <2>1. CASE TakeText \/ TakeSize \/ TakeUnknown \/ TakeClose
    BY <2>1 DEF ConnTypeOK, TakeText, TakeSize, TakeUnknown, TakeClose
  <2>2. CASE ReadFails \/ GiveText \/ LoseText \/ SendSize \/ SendOnClosed
    BY <2>2 DEF ConnTypeOK, ReadFails, GiveText, LoseText, SendSize, SendOnClosed
  <2>3. CASE AnswerClose
    <3>1. writeErr' \in BOOLEAN
      BY <2>3, FailureTypes DEF AnswerClose
    <3> QED
      BY <2>3, <3>1 DEF ConnTypeOK, AnswerClose
  <2>4. CASE WriteClose \/ WriteCloseEnds
    BY <2>4 DEF ConnTypeOK, WriteClose, WriteCloseEnds
  <2> QED
    BY <2>1, <2>2, <2>3, <2>4 DEF ReaderStep
<1>3. CASE TakeText \/ TakeSize \/ TakeUnknown \/ TakeClose
  BY <1>1, <1>2, <1>3, TakenWasSaid DEF MessageTypeOK, TakeText, TakeSize,
                                        TakeUnknown, TakeClose
<1>4. CASE GiveText
  BY <1>1, <1>2, <1>4, GivenGrows
<1>5. CASE ~(TakeText \/ TakeSize \/ TakeUnknown \/ TakeClose \/ GiveText)
  BY <1>1, <1>2, <1>5 DEF MessageTypeOK, HeldInv, ReaderStep, ReadFails,
                          LoseText, SendSize, SendOnClosed, AnswerClose,
                          WriteClose, WriteCloseEnds
<1> QED
  BY <1>3, <1>4, <1>5

\* ... and what is known of the reader, the guard and the panics.
LEMMA ReaderKeeps ==
  WindowInv /\ panic = "none" /\ ReaderStep => HeldInv' /\ CrashNeedsRace'
<1> SUFFICES ASSUME WindowInv, panic = "none", ReaderStep
             PROVE  HeldInv' /\ CrashNeedsRace'
  OBVIOUS
<1>0. Said' = Said /\ sent' = sent
  BY SaidStays DEF ReaderStep, TakeText, TakeSize, TakeUnknown, TakeClose,
                   ReadFails, GiveText, LoseText, SendSize, SendOnClosed,
                   AnswerClose, WriteClose, WriteCloseEnds, Reader, EndInput, clientVars
<1> USE <1>0 DEF WindowInv, HeldInv, CrashNeedsRace, Reader, EndInput, connVars,
                 clientVars, shellVars
<1>1. CASE TakeText
  BY <1>1, TakenWasSaid DEF TakeText, Take, WindowTypeOK, MessageTypeOK
<1>2. CASE TakeSize
  BY <1>2, TakenWasSaid DEF TakeSize, Take, WindowTypeOK, MessageTypeOK
<1>3. CASE TakeUnknown
  BY <1>3, TakenWasSaid DEF TakeUnknown, Take, WindowTypeOK, MessageTypeOK
<1>4. CASE TakeClose
  BY <1>4, TakenWasSaid DEF TakeClose, Take, WindowTypeOK, MessageTypeOK
<1>5. CASE ReadFails
  BY <1>5 DEF ReadFails
<1>6. CASE GiveText
  BY <1>6 DEF GiveText
<1>7. CASE LoseText
  BY <1>7 DEF LoseText
<1>8. CASE SendSize
  BY <1>8 DEF SendSize
<1>9. CASE SendOnClosed
  BY <1>9 DEF SendOnClosed, SizeChanClosed
<1>10. CASE WriteClose
  <2>1. UNCHANGED withPing
    BY <1>10 DEF WriteClose
  <2>2. /\ reader = "close" /\ UNCHANGED <<main, writer, taken, given>>
        /\ withPing /\ "close" \in Said
    BY <1>10 DEF WriteClose
  <2>3. /\ reader' \in {"closeWrite", "over"}
        /\ panic' \in {"none", "concurrentWrite"}
        /\ isWriting' # isWriting => reader' = "closeWrite"
    BY <1>10 DEF WriteClose, WindowTypeOK, ConnTypeOK
  <2> QED BY <1>10, <2>1, <2>2, <2>3
<1>11. CASE WriteCloseEnds
  <2>1. UNCHANGED withPing
    BY <1>11 DEF WriteCloseEnds
  <2>2. /\ reader = "closeWrite" /\ UNCHANGED <<main, writer, taken, given>>
        /\ withPing /\ "close" \in Said
    BY <1>11 DEF WriteCloseEnds
  <2>3. reader' = "over" /\ panic' \in {"none", "concurrentWrite"}
    BY <1>11 DEF WriteCloseEnds
  <2>4. ~isWriting'
    BY <1>11, Zenon DEF WriteCloseEnds
  <2> QED BY <2>1, <2>2, <2>3, <2>4
<1>12. CASE AnswerClose
  BY <1>12 DEF AnswerClose
<1> QED
  BY <1>1, <1>2, <1>3, <1>4, <1>5, <1>6, <1>7, <1>8, <1>9, <1>10, <1>11,
     <1>12 DEF ReaderStep

\* The steps of the resizer keep the types ...
LEMMA ResizerTypes == WindowInv /\ ResizerStep => WindowTypeOK'
<1> SUFFICES ASSUME WindowInv, ResizerStep PROVE WindowTypeOK'
  OBVIOUS
<1> USE DEF WindowInv, WindowTypeOK, Resizer, connVars, clientVars, shellVars
<1>1. GoroutineTypeOK'
  BY DEF GoroutineTypeOK, ResizerStep, NextClosed, EncodeSize
<1>2. ConnTypeOK'
  BY DEF ConnTypeOK, ResizerStep, NextClosed, EncodeSize
<1>3. MessageTypeOK'
  BY DEF MessageTypeOK, ResizerStep, NextClosed, EncodeSize
<1> QED
  BY <1>1, <1>2, <1>3

\* ... and what is known of the reader, the guard and the panics.
LEMMA ResizerKeeps ==
  WindowInv /\ panic = "none" /\ ResizerStep => HeldInv' /\ CrashNeedsRace'
<1> SUFFICES ASSUME WindowInv, panic = "none", ResizerStep
             PROVE  HeldInv' /\ CrashNeedsRace'
  OBVIOUS
<1>0. Said' = Said /\ sent' = sent
  BY SaidStays DEF ResizerStep, NextClosed, EncodeSize, Resizer, clientVars
<1> USE <1>0 DEF WindowInv, HeldInv, CrashNeedsRace, Resizer, connVars,
                 clientVars, shellVars
<1>1. CASE NextClosed
  BY <1>1 DEF NextClosed
<1>2. CASE EncodeSize
  BY <1>2 DEF EncodeSize
<1> QED
  BY <1>1, <1>2 DEF ResizerStep

\* The steps of the writer keep the types ...
LEMMA WriterTypes == WindowInv /\ WriterStep => WindowTypeOK'
<1> SUFFICES ASSUME WindowInv, WriterStep PROVE WindowTypeOK'
  OBVIOUS
<1> USE DEF WindowInv, WindowTypeOK, Writer, connVars, clientVars, shellVars
<1>1. GoroutineTypeOK'
  BY DEF GoroutineTypeOK, WriterStep, Write, WriteEnds, WriterEnds
<1>2. ConnTypeOK'
  BY DEF ConnTypeOK, WriterStep, Write, WriteEnds, WriterEnds
<1>3. MessageTypeOK'
  BY DEF MessageTypeOK, WriterStep, Write, WriteEnds, WriterEnds
<1> QED
  BY <1>1, <1>2, <1>3

\* ... and what is known of the reader, the guard and the panics.
LEMMA WriterKeeps ==
  WindowInv /\ panic = "none" /\ WriterStep => HeldInv' /\ CrashNeedsRace'
<1> SUFFICES ASSUME WindowInv, panic = "none", WriterStep
             PROVE  HeldInv' /\ CrashNeedsRace'
  OBVIOUS
<1>0. Said' = Said /\ sent' = sent
  BY SaidStays DEF WriterStep, Write, WriteEnds, WriterEnds, Writer, clientVars
<1> USE <1>0 DEF WindowInv, HeldInv, CrashNeedsRace, Writer, connVars,
                 clientVars, shellVars
<1>1. CASE Write
  BY <1>1 DEF Write, WindowTypeOK, GoroutineTypeOK
<1>2. CASE WriteEnds
  BY <1>2 DEF WriteEnds, WindowTypeOK, GoroutineTypeOK
<1>3. CASE WriterEnds
  BY <1>3 DEF WriterEnds
<1> QED
  BY <1>1, <1>2, <1>3 DEF WriterStep

\* The steps of the pinger keep the types ...
LEMMA PingerTypes == WindowInv /\ PingerStep => WindowTypeOK'
<1> SUFFICES ASSUME WindowInv, PingerStep PROVE WindowTypeOK'
  OBVIOUS
<1> USE DEF WindowInv, WindowTypeOK, Pinger, connVars, clientVars, shellVars
<1>1. GoroutineTypeOK'
  BY DEF GoroutineTypeOK, PingerStep, PingFails, PingerEnds
<1>2. ConnTypeOK'
  <2>1. writeErr' \in BOOLEAN
    BY FailureTypes DEF ConnTypeOK, PingerStep, PingFails, PingerEnds
  <2> QED
    BY <2>1 DEF ConnTypeOK, PingerStep, PingFails, PingerEnds
<1>3. MessageTypeOK'
  BY DEF MessageTypeOK, PingerStep, PingFails, PingerEnds
<1> QED
  BY <1>1, <1>2, <1>3

\* ... and what is known of the reader, the guard and the panics.
LEMMA PingerKeeps ==
  WindowInv /\ panic = "none" /\ PingerStep => HeldInv' /\ CrashNeedsRace'
<1> SUFFICES ASSUME WindowInv, panic = "none", PingerStep
             PROVE  HeldInv' /\ CrashNeedsRace'
  OBVIOUS
<1>0. Said' = Said /\ sent' = sent
  BY SaidStays DEF PingerStep, PingFails, PingerEnds, Pinger, clientVars
<1> USE <1>0 DEF WindowInv, HeldInv, CrashNeedsRace, Pinger, connVars,
                 clientVars, shellVars
<1>1. CASE PingFails
  BY <1>1 DEF PingFails
<1>2. CASE PingerEnds
  BY <1>2 DEF PingerEnds
<1> QED
  BY <1>1, <1>2 DEF PingerStep

\* Nothing the browser, the process or time do disturbs the goroutines.
LEMMA OutsideKeeps ==
  WindowInv /\ panic = "none" /\ OutsideStep =>
    WindowTypeOK' /\ HeldInv' /\ CrashNeedsRace'
<1> SUFFICES ASSUME WindowInv, panic = "none", OutsideStep
             PROVE  WindowTypeOK' /\ HeldInv' /\ CrashNeedsRace'
  OBVIOUS
<1>1. ASSUME NEW m \in Message, Send(m)
      PROVE  WindowTypeOK' /\ HeldInv' /\ CrashNeedsRace'
  <2>1. /\ sent' \in Seq(Message) /\ Len(sent') = Len(sent) + 1
        /\ \A i \in 1 .. Len(sent) : sent'[i] = sent[i]
        /\ Said \subseteq Said'
    BY <1>1, SaidGrows DEF Send, WindowInv, WindowTypeOK, MessageTypeOK
  <2>2. GoroutineTypeOK' /\ ConnTypeOK'
    BY <1>1
    DEF Send, Outside, WindowInv, WindowTypeOK, GoroutineTypeOK, ConnTypeOK,
        connVars, shellVars
  <2>5. MessageTypeOK'
    BY <1>1, <2>1
    DEF Send, Outside, WindowInv, WindowTypeOK, MessageTypeOK, shellVars
  <2>3. HeldInv'
    BY <1>1, <2>1
    DEF Send, Outside, WindowInv, WindowTypeOK, MessageTypeOK, HeldInv,
        connVars, shellVars
  <2>4. CrashNeedsRace'
    BY <1>1 DEF Send, Outside, CrashNeedsRace
  <2> QED
    BY <2>2, <2>3, <2>4, <2>5 DEF WindowTypeOK
<1>2. CASE Vanish \/ Exit
  <2>1. Said' = Said /\ sent' = sent
    BY <1>2, SaidStays DEF Vanish, Exit, clientVars
  <2>2. GoroutineTypeOK'
    BY <1>2
    DEF Vanish, Exit, Outside, WindowInv, WindowTypeOK, GoroutineTypeOK,
        connVars, clientVars, shellVars
  <2>4. ConnTypeOK'
    BY <1>2
    DEF Vanish, Exit, Outside, WindowInv, WindowTypeOK, ConnTypeOK,
        connVars, clientVars, shellVars
  <2>5. MessageTypeOK'
    BY <1>2
    DEF Vanish, Exit, Outside, WindowInv, WindowTypeOK, MessageTypeOK,
        connVars, clientVars, shellVars
  <2>3. HeldInv' /\ CrashNeedsRace'
    BY <1>2, <2>1
    DEF Vanish, Exit, Outside, WindowInv, HeldInv, CrashNeedsRace,
        SizeChanClosed, connVars, clientVars, shellVars
  <2> QED
    BY <2>2, <2>3, <2>4, <2>5 DEF WindowTypeOK
<1> QED
  BY <1>1, <1>2 DEF OutsideStep

\* Whoever moves without taking or giving a text passes none over.
LEMMA NothingTaken ==
  ASSUME NoneSkipped, UNCHANGED <<sent, taken, given>>,
         \/ reader' = reader
         \/ reader' \in {"close", "closeWrite", "control", "over"}
         \/ reader \in {"off", "read", "resize"} /\ reader' = "read"
  PROVE  NoneSkipped'
BY DEF NoneSkipped, LastGiven

\* The reader takes each message, and a text only when the one before is given.
LEMMA ReaderSkipsNone ==
  ASSUME WindowInv, ReaderStep
  PROVE  NoneSkipped'
<1> USE DEF WindowInv
<1>0. /\ LastGiven \in Nat /\ taken \in Nat
      /\ (UNCHANGED given => LastGiven' = LastGiven)
  BY LastGivenType DEF WindowTypeOK, MessageTypeOK, LastGiven
<1>1. CASE TakeText
  <2>1. /\ reader = "read" /\ reader' = "stdin" /\ taken' = taken + 1
        /\ UNCHANGED <<sent, given>>
    BY <1>1 DEF TakeText, Take, Reader, shellVars
  <2> QED
    BY <1>0, <2>1 DEF NoneSkipped
<1>2. CASE TakeSize \/ TakeUnknown \/ TakeClose
  <2>1. /\ reader = "read" /\ reader' \in {"resize", "close", "control", "over"}
        /\ taken' = taken + 1 /\ sent[taken + 1] \notin Text
        /\ UNCHANGED <<sent, given>>
    BY <1>2 DEF TakeSize, TakeUnknown, TakeClose, Take, Reader, EndInput, shellVars,
                Size, Text
  <2> QED
    BY <1>0, <2>1 DEF NoneSkipped
<1>3. CASE GiveText
  <2>1. reader' = "read"
    BY <1>3 DEF GiveText, Reader
  <2> QED
    BY <1>0, <1>3, <2>1, GivenGrows DEF NoneSkipped
<1>4. CASE ReadFails \/ LoseText \/ SendSize \/ SendOnClosed
  <2>1. /\ UNCHANGED <<sent, taken, given>>
        /\ reader' = "over" \/ (reader = "resize" /\ reader' = "read")
    BY <1>4 DEF ReadFails, LoseText, SendSize, SendOnClosed, Reader, EndInput,
                shellVars
  <2> QED
    BY <2>1, NothingTaken
<1>5. CASE AnswerClose \/ WriteClose \/ WriteCloseEnds
  <2>1. UNCHANGED <<sent, taken, given>> /\ reader' \in {"closeWrite", "over"}
    BY <1>5 DEF AnswerClose, WriteClose, WriteCloseEnds, Reader, EndInput, shellVars
  <2> QED
    BY <2>1, NothingTaken
<1> QED
  BY <1>1, <1>2, <1>3, <1>4, <1>5 DEF ReaderStep

\* So does everybody else.
LEMMA NobodySkips == WindowInv /\ WindowNext => NoneSkipped'
<1> SUFFICES ASSUME WindowInv, WindowNext PROVE NoneSkipped'
  OBVIOUS
<1> USE DEF WindowInv
<1>1. CASE HandlerStep
  <2>1. /\ UNCHANGED <<sent, taken, given>>
        /\ reader' = reader \/ (reader = "off" /\ reader' = "read")
    BY <1>1 DEF HandlerStep, StartProcess, StartFails, StreamEnds, CloseSizeChan,
                CloseConn, Handler, HeldInv, clientVars, shellVars
  <2> QED
    BY <2>1, NothingTaken
<1>2. CASE ResizerStep \/ WriterStep \/ PingerStep
  <2>1. UNCHANGED <<sent, taken, given, reader>>
    BY <1>2 DEF ResizerStep, NextClosed, EncodeSize, Resizer, WriterStep, Write,
                WriteEnds, WriterEnds, Writer, PingerStep, PingFails, PingerEnds,
                Pinger, clientVars, shellVars
  <2> QED
    BY <2>1, NothingTaken
<1>3. CASE Vanish \/ Exit
  <2>1. UNCHANGED <<sent, taken, given, reader>>
    BY <1>3 DEF Vanish, Exit, Outside, clientVars, shellVars
  <2> QED
    BY <2>1, NothingTaken
<1>4. ASSUME NEW m \in Message, Send(m) PROVE NoneSkipped'
  <2>1. \A i \in 1 .. Len(sent) : sent'[i] = sent[i]
    BY <1>4, SaidGrows DEF Send, WindowTypeOK, MessageTypeOK
  <2>2. UNCHANGED <<taken, given, reader>> /\ LastGiven' = LastGiven
    BY <1>4 DEF Send, Outside, shellVars, LastGiven
  <2>3. LastGiven \in Nat /\ taken \in 0 .. Len(sent) /\ Len(sent) \in Nat
    BY LastGivenType DEF WindowTypeOK, MessageTypeOK
  <2>4. \A i \in LastGiven + 1 .. taken : sent'[i] = sent[i]
    BY <2>1, <2>3
  <2>5. \A i \in LastGiven + 1 .. taken - 1 : sent'[i] = sent[i]
    BY <2>1, <2>3
  <2> QED
    BY <2>2, <2>4, <2>5 DEF NoneSkipped
<1> QED
  BY <1>1, <1>2, <1>3, <1>4, ReaderSkipsNone DEF WindowNext, OutsideStep

\* Only the handler closes the channel, and for good; what was said stays said.
LEMMA StopReasonsStay ==
  ASSUME WindowTypeOK, WindowNext
  PROVE  /\ SizeChanClosed => SizeChanClosed'
         /\ "zero" \in Said => "zero" \in Said'
<1>1. CASE HandlerStep
  BY <1>1, SaidStays
  DEF HandlerStep, StartProcess, StartFails, StreamEnds, CloseSizeChan, CloseConn,
      Handler, clientVars, SizeChanClosed
<1>2. CASE ReaderStep
  BY <1>2, SaidStays
  DEF ReaderStep, TakeText, TakeSize, TakeUnknown, TakeClose, ReadFails, GiveText,
      LoseText, SendSize, SendOnClosed, AnswerClose, WriteClose, WriteCloseEnds,
      Reader, EndInput, SizeChanClosed
<1>3. CASE ResizerStep \/ WriterStep \/ PingerStep
  BY <1>3, SaidStays
  DEF ResizerStep, NextClosed, EncodeSize, Resizer, WriterStep, Write, WriteEnds,
      WriterEnds, Writer, PingerStep, PingFails, PingerEnds, Pinger, clientVars,
      SizeChanClosed
<1>4. CASE Vanish \/ Exit
  BY <1>4, SaidStays
  DEF Vanish, Exit, Outside, clientVars, SizeChanClosed
<1>5. ASSUME NEW m \in Message, Send(m)
      PROVE  /\ SizeChanClosed => SizeChanClosed'
             /\ "zero" \in Said => "zero" \in Said'
  <2>1. Said \subseteq Said'
    BY <1>5, SaidGrows DEF Send, WindowTypeOK, MessageTypeOK
  <2> QED
    BY <1>5, <2>1 DEF Send, Outside, SizeChanClosed
<1> QED
  BY <1>1, <1>2, <1>3, <1>4, <1>5 DEF WindowNext, OutsideStep

\* What the reader's steps do to the shell's input and to the resizer.
LEMMA ReaderEnds ==
  ASSUME WindowInv, panic = "none", ReaderStep
  PROVE  EndingInv' /\ InputEnds'
<1>0. WindowNext
  BY DEF WindowNext
<1>1. /\ SizeChanClosed => SizeChanClosed'
      /\ "zero" \in Said => "zero" \in Said'
  BY <1>0, StopReasonsStay DEF WindowInv
<1>2. /\ EndingInv /\ InputEnds /\ HeldInv
      /\ GoroutineTypeOK /\ ConnTypeOK
  BY DEF WindowInv, WindowTypeOK
<1> USE DEF EndingInv, InputEnds, Reader, EndInput, connVars,
            shellVars
<1>3. CASE TakeText \/ TakeSize \/ TakeUnknown
  <2>1. /\ reader = "read" /\ UNCHANGED <<main, resizer, panic>>
        /\ \/ reader' \in {"stdin", "resize"} /\ UNCHANGED shell
           \/ EndInput("read")
    BY <1>3 DEF TakeText, TakeSize, TakeUnknown
  <2> QED
    BY <1>1, <1>2, <2>1
<1>4. CASE TakeClose
  <2>1. /\ reader = "read" /\ reader' \in {"close", "control"}
        /\ UNCHANGED <<main, resizer, panic, shell>>
    BY <1>4 DEF TakeClose
  <2> QED
    BY <1>1, <1>2, <2>1
<1>5. CASE ReadFails \/ LoseText \/ AnswerClose
  <2>1. \E from \in {"read", "stdin", "control"} : EndInput(from)
    BY <1>5 DEF ReadFails, LoseText, AnswerClose
  <2> QED
    BY <1>1, <1>2, <2>1
<1>6. CASE GiveText
  BY <1>1, <1>2, <1>6 DEF GiveText
<1>7. CASE SendSize
  <2>1. /\ reader = "resize" /\ reader' = "read" /\ resizer' \in {"over", "encode"}
        /\ UNCHANGED <<main, panic, shell>>
        /\ resizer' = "over" => sent[taken] = "zero"
    BY <1>7 DEF SendSize, IsNil
  <2>2. sent[taken] \in Said
    BY <1>2, <2>1 DEF HeldInv, WindowInv, WindowTypeOK, MessageTypeOK, Said
  <2> QED
    BY <1>1, <1>2, <2>1, <2>2
<1>8. CASE SendOnClosed
  BY <1>1, <1>2, <1>8 DEF SendOnClosed, SizeChanClosed
<1>9. CASE WriteClose \/ WriteCloseEnds
  <2>1. /\ reader \in {"close", "closeWrite"} /\ UNCHANGED <<main, resizer>>
        /\ \/ EndInput(reader)
           \/ reader' = "closeWrite" /\ UNCHANGED <<panic, shell>>
           \/ panic' = "concurrentWrite" /\ UNCHANGED shell
    BY <1>9 DEF WriteClose, WriteCloseEnds
  <2> QED
    BY <1>1, <1>2, <2>1
<1> QED
  BY <1>3, <1>4, <1>5, <1>6, <1>7, <1>8, <1>9 DEF ReaderStep

\* Nobody else ends the input, and only Close and nil stop the resizer.
LEMMA OthersEnd ==
  ASSUME WindowInv, panic = "none", WindowNext, ~ReaderStep
  PROVE  EndingInv' /\ InputEnds'
<1>1. /\ SizeChanClosed => SizeChanClosed'
      /\ "zero" \in Said => "zero" \in Said'
  BY StopReasonsStay DEF WindowInv
<1>2. /\ EndingInv /\ InputEnds /\ HeldInv
      /\ GoroutineTypeOK /\ ConnTypeOK
  BY DEF WindowInv, WindowTypeOK
<1> USE DEF EndingInv, InputEnds, connVars, clientVars, shellVars
<1>3. CASE StartProcess
  BY <1>1, <1>2, <1>3 DEF StartProcess, Handler, HeldInv
<1>4. CASE StartFails \/ StreamEnds \/ CloseSizeChan
  BY <1>1, <1>2, <1>4 DEF StartFails, StreamEnds, CloseSizeChan, Handler
<1>5. CASE CloseConn
  BY <1>1, <1>2, <1>5 DEF CloseConn, Handler
<1>6. CASE ResizerStep
  BY <1>1, <1>2, <1>6 DEF ResizerStep, NextClosed, EncodeSize, Resizer
<1>7. CASE WriterStep
  <2>1. UNCHANGED <<main, reader, resizer, shell>>
        /\ panic' \in {"none", "concurrentWrite"}
    BY <1>7 DEF WriterStep, Write, WriteEnds, WriterEnds, Writer
  <2> QED
    BY <1>1, <1>2, <2>1
<1>8. CASE PingFails \/ PingerEnds
  BY <1>1, <1>2, <1>8 DEF PingFails, PingerEnds, Pinger
<1>9. CASE Vanish \/ Exit
  BY <1>1, <1>2, <1>9 DEF Vanish, Exit, Outside
<1>10. ASSUME NEW m \in Message, Send(m)
       PROVE  EndingInv' /\ InputEnds'
  BY <1>1, <1>2, <1>10 DEF Send, Outside
<1> QED
  BY <1>3, <1>4, <1>5, <1>6, <1>7, <1>8, <1>9, <1>10
  DEF WindowNext, HandlerStep, PingerStep, OutsideStep

\* The invariant behind the theorems is inductive: types, what the reader holds,
\* who may be inside the websocket's guard, and how the goroutines end
\* (terminal.go, 96-133 and 299-335; window.go, 46-141).
THEOREM WindowInductive == WindowSpec => []WindowInv
<1>1. WindowInit => WindowInv
  <2>1. <<>> \in Seq(Message) /\ Len(<<>>) = 0
    OBVIOUS
  <2>2. WindowInit => GoroutineTypeOK
    BY DEF WindowInit, GoroutineTypeOK
  <2>3. WindowInit => ConnTypeOK
    BY DEF WindowInit, ConnTypeOK
  <2>4. WindowInit => MessageTypeOK
    BY <2>1 DEF WindowInit, MessageTypeOK
  <2>5. WindowInit => HeldInv /\ CrashNeedsRace
    BY DEF WindowInit, HeldInv, CrashNeedsRace
  <2>6. WindowInit => NoneSkipped
    BY DEF WindowInit, NoneSkipped, LastGiven
  <2>7. WindowInit => EndingInv /\ InputEnds
    BY DEF WindowInit, EndingInv, InputEnds
  <2> QED
    BY <2>2, <2>3, <2>4, <2>5, <2>6, <2>7 DEF WindowInv, WindowTypeOK
<1>2. WindowInv /\ [WindowNext]_windowVars => WindowInv'
  <2>1. WindowInv /\ WindowNext => WindowInv'
    BY HandlerTypes, HandlerKeeps, ReaderTypes, ReaderKeeps, ResizerTypes,
       ResizerKeeps, WriterTypes, WriterKeeps, PingerTypes, PingerKeeps,
       OutsideKeeps, NobodySkips, ReaderEnds, OthersEnd
    DEF WindowNext, WindowInv
  <2>2. WindowInv /\ UNCHANGED windowVars => WindowInv'
    BY SaidStays
    DEF WindowInv, WindowTypeOK, GoroutineTypeOK, ConnTypeOK, MessageTypeOK,
        HeldInv, NoneSkipped, LastGiven, CrashNeedsRace, SizeChanClosed,
        EndingInv, InputEnds, windowVars, connVars, clientVars, shellVars
  <2> QED
    BY <2>1, <2>2
<1> QED
  BY <1>1, <1>2, PTL DEF WindowSpec

\* Whatever the browser sends and however the goroutines interleave, the
\* process dies of a terminal only by a size read while it closes, or, in a
\* terminal that pings, by answering a Close frame during output.
THEOREM CrashesAreRaces == WindowSpec => []CrashNeedsRace
<1>1. WindowInv => CrashNeedsRace
  BY DEF WindowInv
<1> QED
  BY <1>1, WindowInductive, PTL

\* A size the reader holds is taken, unless the browser itself has stopped the
\* resizer by a size without sides, or the terminal is closing: the two
\* goroutines and the unbuffered channel between them never deadlock otherwise.
THEOREM ResizesAreTaken == WindowSpec => []ResizeAnswered
<1>1. WindowInv => ResizeAnswered
  BY DEF WindowInv, WindowTypeOK, GoroutineTypeOK, EndingInv, ResizeAnswered
<1> QED
  BY <1>1, WindowInductive, PTL

\* The shell's input ends with the reader, on each of the ways a read may end.
THEOREM InputsEnd == WindowSpec => []InputEnds
<1>1. WindowInv => InputEnds
  BY DEF WindowInv
<1> QED
  BY <1>1, WindowInductive, PTL

\* The next text is given, and it is the one that Terminal expects.
LEMMA GivesNext ==
  ASSUME WindowInv, GiveText
  PROVE  T!Hear
<1> USE DEF WindowInv
<1>1. /\ main = "stream" /\ UNCHANGED main /\ reader = "stdin"
      /\ UNCHANGED sent
      /\ given' = Append(given, [at |-> taken, whole |-> Fits(sent[taken])])
  BY DEF GiveText, Reader
<1>2. PhaseOf = "open" /\ UNCHANGED PhaseOf
  BY <1>1 DEF PhaseOf
<1>3. /\ LastGiven \in Nat /\ taken \in 0 .. Len(sent) /\ Len(sent) \in Nat
      /\ T!LastHeard = LastGiven
  BY LastGivenType DEF WindowTypeOK, MessageTypeOK, LastGiven, T!LastHeard
<1>4. taken \in T!LastHeard + 1 .. Len(sent) /\ sent[taken] \in T!Typed
  BY <1>1, <1>3 DEF NoneSkipped, HeldInv, Text, T!Typed
<1>5. \A j \in T!LastHeard + 1 .. taken - 1 : sent[j] \notin T!Typed
  BY <1>1, <1>3 DEF NoneSkipped, Text, T!Typed
<1> QED
  BY <1>1, <1>2, <1>4, <1>5 DEF T!Hear, Fits

\* Every other step of the goroutines opens or closes the terminal, or is
\* nothing that Terminal knows.
LEMMA StepImplements ==
  ASSUME WindowInv, WindowNext
  PROVE  [T!TerminalNext]_(T!terminalVars)
<1> USE DEF PhaseOf, T!terminalVars
<1>1. CASE HandlerStep
  <2>1. UNCHANGED <<sent, given>>
    BY <1>1 DEF HandlerStep, StartProcess, StartFails, StreamEnds, CloseSizeChan,
                CloseConn, Handler, clientVars, shellVars
  <2>2. CASE StartProcess
    BY <2>1, <2>2 DEF StartProcess, Handler, T!TerminalNext, T!Open
  <2>3. CASE StartFails \/ StreamEnds
    BY <2>1, <2>3 DEF StartFails, StreamEnds, Handler, T!TerminalNext,
                      T!CloseTerminal
  <2>4. CASE CloseSizeChan \/ CloseConn
    BY <2>1, <2>4 DEF CloseSizeChan, CloseConn, Handler
  <2> QED
    BY <1>1, <2>2, <2>3, <2>4 DEF HandlerStep
<1>2. CASE GiveText
  BY <1>2, GivesNext DEF T!TerminalNext
<1>3. CASE ReaderStep /\ ~GiveText
  <2>1. UNCHANGED <<main, sent, given>>
    BY <1>3 DEF ReaderStep, TakeText, TakeSize, TakeUnknown, TakeClose, ReadFails,
                LoseText, SendSize, SendOnClosed, AnswerClose, WriteClose,
                WriteCloseEnds, Reader, EndInput, shellVars
  <2> QED
    BY <2>1
<1>4. CASE ResizerStep \/ WriterStep \/ PingerStep
  <2>1. UNCHANGED <<main, sent, given>>
    BY <1>4 DEF ResizerStep, NextClosed, EncodeSize, Resizer, WriterStep, Write,
                WriteEnds, WriterEnds, Writer, PingerStep, PingFails, PingerEnds,
                Pinger, clientVars, shellVars
  <2> QED
    BY <2>1
<1>5. CASE Vanish \/ Exit
  <2>1. UNCHANGED <<main, sent, given>>
    BY <1>5 DEF Vanish, Exit, Outside, clientVars, shellVars
  <2> QED
    BY <2>1
<1>6. ASSUME NEW m \in Message, Send(m) PROVE T!TerminalNext
  <2>1. UNCHANGED <<main, given>> /\ sent' = Append(sent, m)
    BY <1>6 DEF Send, Outside, shellVars
  <2> QED
    BY <2>1 DEF T!TerminalNext, T!Type
<1> QED
  BY <1>1, <1>2, <1>3, <1>4, <1>5, <1>6 DEF WindowNext, OutsideStep

\* An open terminal keeps Terminal's promise: the shell hears the texts in
\* their order, each once, whole if it fits the buffer, and none after the
\* stream has ended (window.go, lines 83-107; terminal.go, 135-150).
THEOREM TerminalImplemented == WindowSpec => ImplementsTerminal
<1>1. WindowInit => T!TerminalInit
  BY DEF WindowInit, PhaseOf, T!TerminalInit
<1>2. WindowInv /\ [WindowNext]_windowVars => [T!TerminalNext]_(T!terminalVars)
  <2>1. WindowInv /\ UNCHANGED windowVars => UNCHANGED T!terminalVars
    BY DEF windowVars, clientVars, shellVars, PhaseOf, T!terminalVars
  <2> QED
    BY <2>1, StepImplements
<1> QED
  BY <1>1, <1>2, WindowInductive, PTL DEF WindowSpec, ImplementsTerminal,
                                          T!TerminalSpec

TP == INSTANCE TerminalProofs WITH phase <- PhaseOf, heard <- given

\* So the texts are heard as they were typed: what Terminal promises, the
\* goroutines keep.
THEOREM TextsAsTyped == WindowSpec => []TextsInOrder
<1>1. TP!TerminalSpec => []TP!HeardInOrder
  BY TP!HeardAsTyped
<1>2. T!TerminalInit => TP!TerminalInit
  BY DEF T!TerminalInit, TP!TerminalInit
<1>3. [T!TerminalNext]_(T!terminalVars) => [TP!TerminalNext]_(TP!terminalVars)
  BY DEF T!TerminalNext, T!Open, T!CloseTerminal, T!Type, T!Hear, T!LastHeard,
         T!Typed, T!terminalVars,
         TP!TerminalNext, TP!Open, TP!CloseTerminal, TP!Type, TP!Hear,
         TP!LastHeard, TP!Typed, TP!terminalVars
<1>4. TP!HeardInOrder => T!HeardInOrder
  BY DEF T!HeardInOrder, T!LastHeard, T!Typed,
         TP!HeardInOrder, TP!LastHeard, TP!Typed
<1> QED
  BY <1>1, <1>2, <1>3, <1>4, TerminalImplemented, PTL
  DEF ImplementsTerminal, TextsInOrder, T!TerminalSpec, TP!TerminalSpec
=============================================================================
