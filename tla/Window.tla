------------------------------- MODULE Window -------------------------------
(***************************************************************************)
(* pkg/webterminal, HandleTerminal and Window: one open terminal.  The     *)
(* handler's goroutine starts the exec stream, whose library runs three    *)
(* more on the Window: one copies what Read returns to the shell, one      *)
(* feeds it the sizes Next returns, one copies its output to Write.  A     *)
(* fifth pings the browser.  They share the websocket and the unbuffered   *)
(* sizeChan, and are cut where they may block or interfere.                *)
(*                                                                         *)
(* A text is abstracted to its place among the browser's messages and to   *)
(* whether it fits the buffer it is read with, a size to whether both its  *)
(* sides, one of them, or neither is positive.  The renewals Read and      *)
(* Write make are UserTerminal's Renew.                                    *)
(***************************************************************************)
EXTENDS Naturals, Sequences

CONSTANT MaxMessages  \* how many messages the browser sends

ASSUME WindowAssumption == MaxMessages \in Nat \ {0}

VARIABLES
  withPing,    \* startSessionWithPing's terminal, or HandlePodTerminal's?
  main,        \* the handler's goroutine
  reader,      \* the goroutine that copies from Read
  resizer,     \* the goroutine that calls Next
  writer,      \* the goroutine that copies to Write
  pinger,      \* startSessionWithPing's goroutine
  cancelled,   \* is the session's context done?
  connOpen,    \* has nobody closed the websocket on this side?
  isWriting,   \* the websocket's guard against concurrent writers
  closeFrame,  \* what became of the Close frame that answers the browser's
  deadlineSet, \* has Write left a deadline for writing on the websocket?
  writeErr,    \* has a write failed, or a Close frame been sent?  None is next
  panic,       \* what brought the process down
  client,      \* the browser
  sent,        \* the messages it has sent
  taken,       \* how many of them the reader has read
  shell,       \* the process in the container
  given        \* the texts it was given: their places in sent, and if whole

connVars == <<connOpen, isWriting, closeFrame, deadlineSet, writeErr>>
clientVars == <<client, sent>>
shellVars == <<shell, given>>
windowVars == <<withPing, main, reader, resizer, writer, pinger, cancelled,
                connVars,
                panic, clientVars, taken, shellVars>>

Text == {"short", "long"}
Size == {"zero", "partial", "full"}
Message == {"unknown", "close"} \cup Text \cup Size

GoroutineTypeOK ==
  /\ main \in {"probe", "stream", "returned", "sizeChanClosed", "done"}
  /\ reader \in {"off", "read", "stdin", "resize", "close", "closeWrite", "control",
                "over"}
  /\ resizer \in {"off", "next", "encode", "over"}
  /\ writer \in {"off", "copy", "write", "over"}
  /\ pinger \in {"on", "over"}
  /\ panic \in {"none", "sendOnClosed", "concurrentWrite"}
  /\ shell \in {"running", "inputEnded", "exited"}

ConnTypeOK ==
  /\ withPing \in BOOLEAN
  /\ cancelled \in BOOLEAN
  /\ connOpen \in BOOLEAN /\ isWriting \in BOOLEAN
  /\ deadlineSet \in BOOLEAN /\ writeErr \in BOOLEAN
  /\ closeFrame \in {"none", "sent", "failed"}
  /\ client \in {"there", "leaving", "gone"}

MessageTypeOK ==
  /\ sent \in Seq(Message) /\ Len(sent) <= MaxMessages
  /\ taken \in 0 .. Len(sent)
  /\ given \in Seq([at : Nat, whole : BOOLEAN])

WindowTypeOK == GoroutineTypeOK /\ ConnTypeOK /\ MessageTypeOK

WindowInit ==
  /\ withPing \in BOOLEAN
  /\ main = "probe"
  /\ reader = "off" /\ resizer = "off" /\ writer = "off"
  /\ pinger = IF withPing THEN "on" ELSE "over"
  /\ cancelled = FALSE
  /\ connOpen = TRUE /\ isWriting = FALSE /\ closeFrame = "none"
  /\ deadlineSet = FALSE /\ writeErr = FALSE
  /\ panic = "none"
  /\ client = "there" /\ sent = <<>>
  /\ taken = 0
  /\ shell = "running" /\ given = <<>>

\* A write fails for sure: the websocket remembers an error, it is closed, or
\* the browser is gone and the network has noticed.
MustFail == writeErr \/ ~connOpen \/ client = "gone"

\* WriteControl, of a ping or of the library's answer to a Close frame, has a
\* deadline of its own, and may fail by it at any time.  The websocket remembers
\* the error, unless it came of waiting for somebody else's write to end.
ControlFails ==
  /\ writeErr' \in {writeErr, TRUE}
  /\ writeErr' \/ writer = "write" \/ reader = "closeWrite"

\* Faulty: Close leaves the channel open.
SizeChanLeftOpen == FALSE

\* From the first statement of Close on.
SizeChanClosed == main \in {"sizeChanClosed", "done"}
-----------------------------------------------------------------------------
(* The handler's goroutine. *)

Handler(from, to) ==
  /\ main = from
  /\ main' = to
  /\ UNCHANGED <<withPing, pinger, closeFrame, isWriting, deadlineSet, panic,
                 clientVars, taken, shellVars>>

\* getShell found a shell and the stream is up.
StartProcess ==
  /\ ~cancelled
  /\ Handler("probe", "stream")
  /\ reader' = "read" /\ resizer' = "next" /\ writer' = "copy"
  /\ UNCHANGED <<cancelled, connOpen, writeErr>>

\* No shell, no stream, or no time left for them.  That there is no shell is
\* written to the browser, which may fail.
StartFails ==
  /\ Handler("probe", "returned")
  /\ writeErr' \in {writeErr, MustFail}
  /\ UNCHANGED <<reader, resizer, writer, cancelled, connOpen>>

\* StreamWithContext returns when the context is done, or when the process
\* has exited and its output was copied; it takes its connection down.
StreamEnds ==
  /\ cancelled \/ (shell = "exited" /\ writer = "over")
  /\ Handler("stream", "returned")
  /\ UNCHANGED <<reader, resizer, writer, cancelled, connOpen, writeErr>>

\* Window.Close: first the channel ...
CloseSizeChan ==
  /\ Handler("returned", "sizeChanClosed")
  /\ UNCHANGED <<reader, resizer, writer, cancelled, connOpen, writeErr>>

\* ... then the websocket; the context ends with the handler.
CloseConn ==
  /\ Handler("sizeChanClosed", "done")
  /\ connOpen' = FALSE
  /\ cancelled' = TRUE
  /\ UNCHANGED <<reader, resizer, writer, writeErr>>
-----------------------------------------------------------------------------
(* The reader: io.Copy from Read to the shell's standard input. *)

Reader(from, to) ==
  /\ reader = from
  /\ reader' = to
  /\ UNCHANGED <<withPing, main, writer, pinger, client, sent, connOpen,
                 deadlineSet>>

\* Faulty: Read's error is not followed by an EOT.
EndInputSilently(from) ==
  /\ Reader(from, "over")
  /\ UNCHANGED <<resizer, shellVars, panic>>

\* Read returned an error: EOT is copied, and the shell's input closed.
EndInput(from) ==
  /\ Reader(from, "over")
  /\ shell' = IF main = "stream" /\ shell = "running" THEN "inputEnded" ELSE shell
  /\ UNCHANGED <<resizer, given, panic>>

\* ReadJSON returns the browser's next message.
Take(ops) ==
  /\ reader = "read" /\ connOpen
  /\ taken < Len(sent) /\ sent[taken + 1] \in ops
  /\ taken' = taken + 1

TakeText ==
  /\ Take(Text) /\ Reader("read", "stdin")
  /\ UNCHANGED <<resizer, cancelled, connVars, panic, shellVars>>

\* Faulty: an unknown message is taken for a size.
TakeSizeOrUnknown ==
  /\ Take(Size \cup {"unknown"}) /\ Reader("read", "resize")
  /\ UNCHANGED <<resizer, cancelled, connVars, panic, shellVars>>

TakeSize ==
  /\ Take(Size) /\ Reader("read", "resize")
  /\ UNCHANGED <<resizer, cancelled, connVars, panic, shellVars>>

TakeUnknown ==
  /\ Take({"unknown"}) /\ EndInput("read")
  /\ UNCHANGED <<cancelled, connVars>>

\* Faulty: every Close frame is answered like output is written.
AnswerByWriteMessage ==
  /\ Take({"close"}) /\ Reader("read", "close")
  /\ UNCHANGED <<resizer, cancelled, connVars, panic, shellVars>>

\* A Close frame: startSessionWithPing's handler cancels the session and then
\* answers; the library's own, HandlePodTerminal's, only answers.
TakeClose ==
  /\ Take({"close"})
  /\ Reader("read", IF withPing THEN "close" ELSE "control")
  /\ cancelled' = (cancelled \/ withPing)
  /\ UNCHANGED <<resizer, connVars, panic, shellVars>>

\* A terminal that pings reads no longer than 30 seconds after the last Pong it
\* came across: the browser sends none, it is late (the pings are 27 seconds
\* apart), or the reader was held up.
PongMayBeLate == withPing

\* Nothing more can be read.
ReadFails ==
  /\ ~connOpen \/ client = "gone" \/ PongMayBeLate
  /\ EndInput("read")
  /\ UNCHANGED <<taken, cancelled, connVars>>

\* What does not fit the buffer is dropped.
Fits(text) == text = "short"

\* The text is copied to the shell, if there is one left to take it.
GiveText ==
  /\ main = "stream" /\ shell = "running"
  /\ Reader("stdin", "read")
  /\ given' = Append(given, [at |-> taken, whole |-> Fits(sent[taken])])
  /\ UNCHANGED <<resizer, taken, cancelled, connVars, panic, shell>>

\* Faulty: a text that the shell did not take is skipped.
SkipText ==
  /\ Reader("stdin", "read")
  /\ UNCHANGED <<resizer, taken, cancelled, connVars, panic, shellVars>>

LoseText ==
  /\ main # "stream" \/ shell = "exited"
  /\ EndInput("stdin")
  /\ UNCHANGED <<taken, cancelled, connVars>>

\* Faulty: one missing side is enough.
IsNilToo(size) == size \in {"zero", "partial"}

\* Next makes nil of a size without sides, and on nil the resizer returns.
IsNil(size) == size = "zero"

\* w.sizeChan <- size: the resizer takes it; on a closed channel it panics.
SendSize ==
  /\ ~SizeChanClosed /\ resizer = "next"
  /\ Reader("resize", "read")
  /\ resizer' = IF IsNil(sent[taken]) THEN "over" ELSE "encode"
  /\ UNCHANGED <<taken, cancelled, connVars, panic, shellVars>>

SendOnClosed ==
  /\ SizeChanClosed
  /\ Reader("resize", "over")
  /\ panic' = "sendOnClosed"
  /\ UNCHANGED <<resizer, taken, cancelled, connVars, shellVars>>

\* The library answers a Close frame by WriteControl, within a second or not
\* at all; either way the read has ended with an error.
AnswerClose ==
  /\ EndInput("control")
  /\ \/ /\ connOpen /\ ~writeErr
        /\ closeFrame' = "sent" /\ writeErr' = TRUE
     \/ closeFrame' = "failed" /\ ControlFails
  /\ UNCHANGED <<taken, cancelled, isWriting>>

\* The close handler's WriteMessage.
WriteClose ==
  /\ reader = "close"
  /\ \/ /\ writeErr
        /\ EndInput("close") /\ closeFrame' = "failed"
        /\ UNCHANGED isWriting
     \/ /\ ~writeErr
        /\ Reader("close", "closeWrite") /\ isWriting' = TRUE
        /\ UNCHANGED <<resizer, closeFrame, panic, shellVars>>
     \/ /\ ~writeErr /\ isWriting /\ panic' = "concurrentWrite"
        /\ Reader("close", "over")
        /\ UNCHANGED <<resizer, isWriting, closeFrame, shellVars>>
  /\ UNCHANGED <<taken, cancelled, writeErr>>

\* It sets no deadline: one that Write has left on the websocket may have
\* passed since.
WriteCloseEnds ==
  /\ reader = "closeWrite"
  /\ \/ /\ isWriting /\ EndInput("closeWrite")
        /\ \/ connOpen /\ ~writeErr /\ closeFrame' = "sent"
           \/ (MustFail \/ deadlineSet) /\ closeFrame' = "failed"
        /\ isWriting' = FALSE /\ writeErr' = TRUE
     \/ /\ ~isWriting /\ panic' = "concurrentWrite"
        /\ Reader("closeWrite", "over")
        /\ UNCHANGED <<resizer, isWriting, closeFrame, writeErr, shellVars>>
  /\ UNCHANGED <<taken, cancelled>>
-----------------------------------------------------------------------------
(* The resizer and the writer. *)

Resizer(from, to) ==
  /\ resizer = from
  /\ resizer' = to
  /\ UNCHANGED <<withPing, main, reader, writer, pinger, cancelled, connVars, panic,
                 clientVars, taken, shellVars>>

\* Receiving from the closed channel gives a size without sides.
NextClosed == SizeChanClosed /\ Resizer("next", "over")

EncodeSize == Resizer("encode", "next")

Writer(from, to) ==
  /\ writer = from
  /\ writer' = to
  /\ UNCHANGED <<withPing, main, reader, resizer, pinger, cancelled, connOpen,
                 closeFrame, clientVars, taken, shellVars>>

\* Write, for some output: it sets a deadline and writes by WriteMessage, which
\* fails after an earlier error, and panics if it notices another writer.
Write ==
  /\ main = "stream"
  /\ deadlineSet' = TRUE
  /\ \/ /\ ~writeErr
        /\ Writer("copy", "write")
        /\ isWriting' = TRUE /\ UNCHANGED panic
     \/ /\ ~writeErr /\ isWriting
        /\ Writer("copy", "over")
        /\ panic' = "concurrentWrite" /\ UNCHANGED isWriting
     \/ /\ writeErr
        /\ Writer("copy", "over")
        /\ UNCHANGED <<isWriting, panic>>
  /\ UNCHANGED writeErr

\* The write ends in time, or fails: a browser that is slow is enough.
WriteEnds ==
  /\ \/ /\ isWriting
        /\ \/ connOpen /\ ~writeErr /\ Writer("write", "copy") /\ UNCHANGED writeErr
           \/ Writer("write", "over") /\ writeErr' = TRUE
        /\ isWriting' = FALSE /\ UNCHANGED panic
     \/ /\ ~isWriting
        /\ Writer("write", "over")
        /\ panic' = "concurrentWrite" /\ UNCHANGED <<isWriting, writeErr>>
  /\ UNCHANGED deadlineSet

\* No more output.
WriterEnds ==
  /\ shell = "exited" \/ main # "stream"
  /\ Writer("copy", "over")
  /\ UNCHANGED <<isWriting, deadlineSet, writeErr, panic>>
-----------------------------------------------------------------------------
(* The pinger.  WriteControl may run next to other writers; a ping that goes *)
(* through changes nothing here.                                            *)

Pinger(to) ==
  /\ pinger = "on"
  /\ pinger' = to
  /\ UNCHANGED <<withPing, main, reader, resizer, writer, isWriting, closeFrame,
                 deadlineSet, clientVars, taken, shellVars>>

\* Faulty: a failed ping does not cancel the session.
PingOnlyCloses ==
  /\ Pinger("on") /\ ControlFails
  /\ connOpen' = FALSE /\ UNCHANGED <<cancelled, panic>>

PingFails ==
  /\ Pinger("on") /\ ControlFails
  /\ cancelled' = TRUE /\ connOpen' = FALSE /\ UNCHANGED panic

PingerEnds ==
  /\ cancelled
  /\ Pinger("over")
  /\ UNCHANGED <<cancelled, connOpen, writeErr, panic>>
-----------------------------------------------------------------------------
(* The browser, and the process in the container. *)

Outside ==
  UNCHANGED <<withPing, main, reader, resizer, writer, pinger, cancelled,
              connVars, panic, taken>>

Send(m) ==
  /\ client = "there" /\ Len(sent) < MaxMessages
  /\ sent' = Append(sent, m)
  /\ client' = IF m = "close" THEN "leaving" ELSE client
  /\ UNCHANGED shellVars
  /\ Outside

\* The browser, or the network to it, is gone without a word.
Vanish ==
  /\ client # "gone"
  /\ client' = "gone"
  /\ UNCHANGED <<sent, shellVars>>
  /\ Outside

Exit ==
  /\ main = "stream" /\ shell # "exited"
  /\ shell' = "exited"
  /\ UNCHANGED <<clientVars, given>>
  /\ Outside
-----------------------------------------------------------------------------
HandlerStep ==
  StartProcess \/ StartFails \/ StreamEnds \/ CloseSizeChan \/ CloseConn

ReaderStep ==
  \/ TakeText \/ TakeSize \/ TakeUnknown \/ TakeClose \/ ReadFails
  \/ GiveText \/ LoseText \/ SendSize \/ SendOnClosed
  \/ AnswerClose \/ WriteClose \/ WriteCloseEnds

ResizerStep == NextClosed \/ EncodeSize
WriterStep == Write \/ WriteEnds \/ WriterEnds
PingerStep == PingFails \/ PingerEnds
OutsideStep == (\E m \in Message : Send(m)) \/ Vanish \/ Exit

\* A panic in any goroutine ends the process, and every session with it.
WindowNext ==
  /\ panic = "none"
  /\ \/ HandlerStep \/ ReaderStep \/ ResizerStep \/ WriterStep \/ PingerStep
     \/ OutsideStep

WindowSpec == WindowInit /\ [][WindowNext]_windowVars

\* Goroutines that can go on do; the shell takes its input.  That a read may
\* fail because the browser is gone or its Pong late does not mean it does: only
\* a closed websocket is sure to end it.  A ping need not fail while it
\* can be written.  What a process has put out
\* before it exits is finite.  Browsers and processes owe nothing.
WindowFairness ==
  /\ WF_windowVars(HandlerStep)
  /\ WF_windowVars(ReaderStep /\ ~(ReadFails /\ connOpen))
  /\ WF_windowVars(ResizerStep)
  /\ WF_windowVars(WriteEnds) /\ SF_windowVars(WriterEnds)
  /\ WF_windowVars(PingFails /\ MustFail) /\ WF_windowVars(PingerEnds)

FairWindowSpec == WindowSpec /\ WindowFairness
-----------------------------------------------------------------------------
\* What the browser has sent.
Said == {sent[i] : i \in 1 .. Len(sent)}

\* Output, pings and input never collide by themselves: what can bring the
\* process down is a size read while the terminal closes (window.go, lines 48
\* and 101), or the answer to a Close frame written during output, and that
\* only in a terminal that pings (terminal.go, line 326; window.go, 133).
CrashNeedsRace ==
  /\ panic = "sendOnClosed" => Said \cap Size # {} /\ SizeChanClosed
  /\ panic = "concurrentWrite" => withPing /\ "close" \in Said

\* Why: nothing runs before the stream; the reader holds a text the shell has
\* yet to take, or waits on sizeChan with a size; it writes Close frames only
\* in a terminal that pings, and without one of those the websocket's guard
\* is set exactly while output is written.
HeldInv ==
  /\ main = "probe" => reader = "off" /\ writer = "off"
  /\ reader = "stdin" => taken > 0 /\ sent[taken] \in Text
  /\ reader = "resize" =>
       Said \cap Size # {} /\ taken > 0 /\ sent[taken] \in Size
  /\ reader \in {"close", "closeWrite"} => withPing /\ "close" \in Said
  /\ isWriting => writer = "write" \/ reader = "closeWrite"
  /\ writer = "write" /\ ~isWriting => withPing /\ "close" \in Said

\* The place of the last text the shell was given.
LastGiven == IF given = <<>> THEN 0 ELSE given[Len(given)].at

\* No text has been passed over, but the one the reader may hold.
NoneSkipped ==
  /\ LastGiven <= taken
  /\ reader = "stdin" =>
       /\ LastGiven < taken
       /\ \A i \in LastGiven + 1 .. taken - 1 : sent[i] \notin Text
  /\ reader \in {"off", "read", "resize"} =>
       \A i \in LastGiven + 1 .. taken : sent[i] \notin Text

\* The reader never waits in vain with a size: unless the browser has sent one
\* without sides, or Close has begun, which brings it down, the resizer is
\* there to take it, now or after one more size (window.go, lines 56-62 and
\* 101).
ResizeAnswered ==
  reader = "resize" =>
    resizer \in {"next", "encode"} \/ "zero" \in Said \/ SizeChanClosed

\* As long as the stream is up the shell's input ends when the reader does, and
\* not before: a shell is neither left waiting for a reader that is gone, on
\* whatever read, copy or Close frame it stopped, nor cut off by one that may
\* still read (window.go, lines 83-107; terminal.go, 135-150).
InputEnds ==
  main = "stream" /\ panic = "none" =>
    /\ reader = "over" => shell # "running"
    /\ shell = "inputEnded" => reader = "over"

\* Why: the resizer starts with the reader, and stops at a size without sides,
\* and a shell is untouched until the stream is up.
EndingInv ==
  /\ resizer = "off" => reader = "off"
  /\ resizer = "over" => "zero" \in Said \/ SizeChanClosed
  /\ main = "probe" => shell = "running"

WindowInv ==
  /\ WindowTypeOK /\ HeldInv /\ NoneSkipped /\ CrashNeedsRace
  /\ EndingInv /\ InputEnds

Over == main \notin {"probe", "stream"} \/ reader = "over" \/ panic # "none"

\* The terminal ends for good: when the shell has exited, or a terminal that
\* pings has lost its browser or can no longer be written to, Close is reached
\* however the goroutines stand (startProcess, lines 135-150;
\* startSessionWithPing, 305-311).
TerminalEnds ==
  shell = "exited" \/ (withPing /\ (client = "gone" \/ writeErr))
    ~> main = "done" \/ panic # "none"

\* And nothing stays behind: Close wakes the goroutines that are blocked in
\* Next or in ReadJSON (window.go, lines 46-62 and 83-88).
NoGoroutineLeft ==
  main = "done" ~>
    \/ panic # "none"
    \/ {reader, resizer, writer} \subseteq {"off", "over"} /\ pinger = "over"

\* The n-th message was read, and the reader is done with it.
Served(n) == taken > n \/ (taken = n /\ reader = "read")

\* What is typed, and each new size, is taken in while the terminal is open,
\* unless a size without sides was sent: resizing is done by the goroutine that
\* reads, and waits for one that stops at such a size (window.go, lines 56-62
\* and 101).
InputServed ==
  []("zero" \notin Said) =>
    \A n \in 1 .. MaxMessages : Len(sent) >= n ~> Served(n) \/ Over

\* What has become of the terminal, as Terminal sees it.
PhaseOf ==
  CASE main = "probe" -> "opening"
    [] main = "stream" -> "open"
    [] OTHER -> "closed"

T == INSTANCE Terminal WITH phase <- PhaseOf, heard <- given

\* However sizes, unknown messages, Close frames and the end of the terminal
\* come in between, the shell is given the texts in their order, each once and
\* whole if it fits the buffer, and nothing after the stream has ended
\* (window.go, lines 83-107; terminal.go, 135-150).
ImplementsTerminal == T!TerminalSpec

\* However its goroutines interleave, the shell has heard the texts in the order
\* they were typed, each once, none left out in between (window.go, lines
\* 83-107).
TextsInOrder == T!HeardInOrder

\* What the comment at terminal.go:325 says: the Close frame is sent for sure, as
\* long as the browser waits for it, no output is being written, no write has
\* failed before, and no failed ping has closed the websocket.
CloseAnswered ==
  [][withPing /\ writer = "copy" /\ closeFrame' = "failed" =>
       \/ client = "gone" \/ writeErr
       \/ ~connOpen /\ main # "done"]_closeFrame

\* What the case "resize message" of TestWindowRead says (window_test.go:149):
\* reading a size is no error.
ResizeTaken == panic # "sendOnClosed"
=============================================================================
