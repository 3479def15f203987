----------------------------- MODULE CliClient -----------------------------
(***************************************************************************)
(* The terminal client (cmd/cli/main.go): a Bubble Tea model, updated one  *)
(* message at a time, fed by key presses and by one pending websocket read *)
(* that every frame starts anew.  The server's end is external: it sends   *)
(* frames of an answer at any time, and the answer to an earlier question  *)
(* may still be coming when the user sends the next one.                   *)
(***************************************************************************)
EXTENDS Naturals, Sequences

CONSTANT MaxFrames \* bound on frames sent and on questions asked, each

VARIABLES
  clConnected, clQuit,
  clCurrent, \* currentResponse: the tokens of the answer being shown
  clHistory, \* chatHistory, without the wording
  clReads,   \* pending ReadMessage commands
  clWire,    \* frames on the way
  clSent,    \* history: the kinds of the frames sent
  clAsked,   \* questions written to the connection
  clView     \* what the viewport shows: history entries and tokens

clShown == <<clCurrent, clHistory, clView>>
clVars == <<clConnected, clQuit, clShown, clReads, clWire, clSent, clAsked>>

Frames == {"token", "step", "error"}

ClInit ==
  /\ clConnected = FALSE /\ clQuit = FALSE
  /\ clCurrent = <<>> /\ clHistory = <<>> /\ clView = [entries |-> 0, tokens |-> <<>>]
  /\ clReads = 0 /\ clWire = <<>> /\ clSent = <<>> /\ clAsked = 0

ShowHistory(h) == clView' = [entries |-> Len(h), tokens |-> <<>>]

\* connMsg, or errMsg when the dial fails
Connect ==
  /\ ~clConnected /\ ~clQuit
  /\ \/ /\ clConnected' = TRUE /\ clReads' = 1
        /\ clHistory' = Append(clHistory, [kind |-> "system"])
        /\ ShowHistory(clHistory') /\ UNCHANGED clQuit
     \/ clQuit' = TRUE /\ UNCHANGED <<clConnected, clReads, clHistory, clView>>
  /\ UNCHANGED <<clCurrent, clWire, clSent, clAsked>>

\* Mutation: the answer is cleared before it is kept.
EnterDrops ==
  /\ clConnected /\ ~clQuit /\ clAsked < MaxFrames
  /\ clHistory' = Append(clHistory, [kind |-> "question"])
  /\ clCurrent' = <<>> /\ clAsked' = clAsked + 1
  /\ ShowHistory(clHistory')
  /\ UNCHANGED <<clConnected, clQuit, clReads, clWire, clSent>>

\* Enter: what was shown of the last answer becomes history, then the question
\* is written and joins it.
Enter ==
  /\ clConnected /\ ~clQuit /\ clAsked < MaxFrames
  /\ LET kept == IF clCurrent = <<>> THEN clHistory
                 ELSE Append(clHistory, [kind |-> "answer", tokens |-> clCurrent])
     IN clHistory' = Append(kept, [kind |-> "question"])
  /\ clCurrent' = <<>> /\ clAsked' = clAsked + 1
  /\ ShowHistory(clHistory')
  /\ UNCHANGED <<clConnected, clQuit, clReads, clWire, clSent>>

\* The server, external: a frame of an answer to some question.
ServerSends(f) ==
  /\ clAsked > 0 /\ clConnected /\ ~clQuit
  /\ Len(clSent) < MaxFrames
  /\ clSent' = Append(clSent, f)
  /\ clWire' = Append(clWire, [kind |-> f, n |-> Len(clSent')])
  /\ UNCHANGED <<clConnected, clQuit, clShown, clReads, clAsked>>

\* wsMsg: the read that delivered it is over and one more is started.
Receive ==
  /\ clReads > 0 /\ clWire # <<>> /\ ~clQuit
  /\ LET f == Head(clWire) IN
       IF f.kind = "token"
       THEN /\ clCurrent' = Append(clCurrent, f.n)
            /\ clView' = [entries |-> Len(clHistory), tokens |-> clCurrent']
            /\ UNCHANGED clHistory
       ELSE /\ clHistory' = Append(clHistory, [kind |-> f.kind])
            /\ ShowHistory(clHistory') /\ UNCHANGED clCurrent
  /\ clWire' = Tail(clWire)
  /\ clReads' = (clReads - 1) + 1
  /\ UNCHANGED <<clConnected, clQuit, clSent, clAsked>>

\* Ctrl-C, or a read that fails
Quit ==
  /\ ~clQuit /\ clQuit' = TRUE
  /\ UNCHANGED <<clConnected, clShown, clReads, clWire, clSent, clAsked>>

ClNext == Connect \/ Enter \/ Receive \/ Quit \/ \E f \in Frames : ServerSends(f)

ClSpec == ClInit /\ [][ClNext]_clVars

-----------------------------------------------------------------------------
\* Properties

\* The tokens of the answers in a history.
TokensOf(h) ==
  LET t[i \in 0 .. Len(h)] ==
        IF i = 0 THEN <<>>
        ELSE IF h[i].kind = "answer" THEN t[i - 1] \o h[i].tokens ELSE t[i - 1]
  IN t[Len(h)]

\* The numbers of the tokens among frames.
TokensAmong(frames) ==
  LET t[i \in 0 .. Len(frames)] ==
        IF i = 0 THEN <<>>
        ELSE IF frames[i] = "token" THEN Append(t[i - 1], i) ELSE t[i - 1]
  IN t[Len(frames)]

Received == Len(clSent) - Len(clWire)

\* No token is lost, repeated or reordered: those kept in the history and those
\* of the answer being shown are all that were received, in order, although
\* questions are asked in the middle of an answer; the other frames that were
\* sent are on the way, in order.
TokensKeptInOrder ==
  /\ TokensOf(clHistory) \o clCurrent = TokensAmong(SubSeq(clSent, 1, Received))
  /\ \A k \in 1 .. Len(clWire) :
       clWire[k] = [kind |-> clSent[Received + k], n |-> Received + k]

\* Every frame is read in the end: a frame after which no read is started
\* freezes the client (the terminal runs each command it is given).
FramesAreRead == clWire # <<>> ~> clWire = <<>> \/ clQuit

\* A step or error frame redraws the history alone, so the answer being
\* streamed disappears from the view until its next token; a view never shows
\* a stale part of it, and never an answer already in the history.
ViewIsNotStale ==
  /\ clView.entries = Len(clHistory)
  /\ clView.tokens \in {<<>>, clCurrent}

\* What is on the screen and in the history is what was sent.
ScreenIsTrue == TokensKeptInOrder /\ ViewIsNotStale
=============================================================================
