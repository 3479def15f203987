--------------------------- MODULE WorkflowProofs ---------------------------
(***************************************************************************)
(* The approval gates of the graph engine and of the supervisor loops, and *)
(* the walk over a blueprint, for any blueprints, signals and bounds.      *)
(***************************************************************************)
EXTENDS GraphExecution, Supervisor, SequenceTheorems, FiniteSetTheorems,
        NaturalsInduction, WellFoundedInduction, TLAPS

-----------------------------------------------------------------------------
\* The supervisor's gate: what has been approved and not yet used, in the
\* channel or in the turn under way, is never more than what was sent.

Approvals(s) == {i \in 1 .. Len(s) : s[i] = TRUE}

LEMMA ApprovalsFinite ==
  ASSUME NEW s \in Seq(BOOLEAN)
  PROVE  IsFiniteSet(Approvals(s)) /\ Cardinality(Approvals(s)) \in Nat
<1>1. IsFiniteSet(1 .. Len(s)) /\ Approvals(s) \subseteq 1 .. Len(s)
  BY FS_Interval DEF Approvals
<1>2. IsFiniteSet(Approvals(s))
  BY <1>1, FS_Subset
<1> QED
  BY <1>2, FS_CardinalityType

LEMMA ApprovalsOfAppend ==
  ASSUME NEW s \in Seq(BOOLEAN), NEW b \in BOOLEAN
  PROVE  Cardinality(Approvals(Append(s, b))) =
           Cardinality(Approvals(s)) + (IF b = TRUE THEN 1 ELSE 0)
<1>1. /\ Len(Append(s, b)) = Len(s) + 1 /\ Len(s) \in Nat
      /\ \A i \in 1 .. Len(s) : Append(s, b)[i] = s[i]
      /\ Append(s, b)[Len(s) + 1] = b
  OBVIOUS
<1>2. CASE b = TRUE
  <2>1. Approvals(Append(s, b)) = Approvals(s) \cup {Len(s) + 1}
    BY <1>1, <1>2 DEF Approvals
  <2>2. Len(s) + 1 \notin Approvals(s)
    BY <1>1 DEF Approvals
  <2> QED
    BY <1>2, <2>1, <2>2, ApprovalsFinite, FS_AddElement
<1>3. CASE b = FALSE
  <2>1. Approvals(Append(s, b)) = Approvals(s)
    BY <1>1, <1>3 DEF Approvals
  <2> QED
    BY <1>3, <2>1, ApprovalsFinite
<1> QED
  BY <1>2, <1>3

LEMMA ApprovalsOfTail ==
  ASSUME NEW s \in Seq(BOOLEAN), s # <<>>
  PROVE  /\ Tail(s) \in Seq(BOOLEAN) /\ Head(s) \in BOOLEAN
         /\ Head(s) = TRUE => Cardinality(Approvals(Tail(s))) = Cardinality(Approvals(s)) - 1
         /\ Head(s) # TRUE => Cardinality(Approvals(Tail(s))) = Cardinality(Approvals(s))
<1>1. /\ Tail(s) \in Seq(BOOLEAN) /\ Head(s) \in BOOLEAN /\ Head(s) = s[1]
      /\ Len(s) \in Nat \ {0} /\ Len(Tail(s)) = Len(s) - 1
      /\ \A i \in 1 .. Len(s) - 1 : Tail(s)[i] = s[i + 1]
  BY HeadTailProperties
<1> DEFINE Rest == Approvals(s) \ {1}
<1> DEFINE shift == [i \in Rest |-> i - 1]
<1>2. /\ IsFiniteSet(Rest)
      /\ Head(s) = TRUE => Cardinality(Rest) = Cardinality(Approvals(s)) - 1
      /\ Head(s) # TRUE => Cardinality(Rest) = Cardinality(Approvals(s))
  <2>0. 1 \in 1 .. Len(s)
    BY <1>1
  <2>1. 1 \in Approvals(s) <=> Head(s) = TRUE
    BY <1>1, <2>0, Zenon DEF Approvals
  <2>2. /\ IsFiniteSet(Rest)
        /\ Cardinality(Rest) = IF 1 \in Approvals(s) THEN Cardinality(Approvals(s)) - 1
                               ELSE Cardinality(Approvals(s))
    BY ApprovalsFinite, FS_RemoveElement
  <2> HIDE DEF Rest
  <2> QED
    BY <2>1, <2>2
<1>3. \A i \in Rest : i \in 2 .. Len(s) /\ s[i] = TRUE
  BY <1>1 DEF Approvals
<1>4. \A i \in Rest : i - 1 \in Approvals(Tail(s))
  BY <1>1, <1>3 DEF Approvals
<1>5. \A j \in Approvals(Tail(s)) : j + 1 \in Rest /\ shift[j + 1] = j
  <2> SUFFICES ASSUME NEW j \in Approvals(Tail(s)) PROVE j + 1 \in Rest /\ shift[j + 1] = j
    OBVIOUS
  <2>1. j \in 1 .. Len(s) - 1 /\ s[j + 1] = TRUE
    BY <1>1 DEF Approvals
  <2>2. j + 1 \in Rest
    BY <1>1, <2>1 DEF Approvals
  <2> QED
    BY <2>1, <2>2
<1>6. \A i, k \in Rest : shift[i] = shift[k] => i = k
  BY <1>3
<1>7. shift \in Bijection(Rest, Approvals(Tail(s)))
  <2>1. shift \in [Rest -> Approvals(Tail(s))]
    BY <1>4
  <2> QED
    BY <1>5, <1>6, <2>1 DEF Bijection, Injection, Surjection, IsInjective
<1>8. Cardinality(Approvals(Tail(s))) = Cardinality(Rest)
  BY <1>2, <1>7, FS_Bijection DEF ExistsBijection
<1> QED
  BY <1>1, <1>2, <1>8

SupervisorPhases == SvOver \cup {"decide", "reply", "generate", "waiting", "run"}
\* Runs that the turn under way may still make.
Turn == IF svPhase = "run" THEN MaximumAttempts - svTry ELSE 0
Asking == IF svPhase = "waiting" THEN MaximumAttempts ELSE Turn

SvInv ==
  /\ svKind \in Kinds /\ svPhase \in SupervisorPhases
  /\ svSignals \in Seq(BOOLEAN)
  /\ svSent \in Nat /\ svAsked \in Nat /\ svRuns \in Nat
  /\ svTry \in 0 .. MaximumAttempts - 1 /\ (svPhase # "run" => svTry = 0)
  /\ svKind # "old" =>
       /\ svRuns + Turn + MaximumAttempts * Cardinality(Approvals(svSignals))
            <= MaximumAttempts * svSent
       /\ svRuns + Asking <= MaximumAttempts * svAsked
  /\ svSaved \in {"answer", "nothing"}
  /\ svSaved = "answer" => svPhase = "finished"

\* Steps that leave the channel alone and neither run code nor ask for a word.
LEMMA QuietSupervisor ==
  ASSUME SvInv, UNCHANGED <<svKind, svSaved, svChannel, svAsked>>, NoRun,
         svPhase' \in SupervisorPhases \ {"run", "waiting"}, svPhase \notin SvOver \cup {"run"}
  PROVE  SvInv'
<1>1. Cardinality(Approvals(svSignals)) \in Nat
  BY ApprovalsFinite DEF SvInv
<1>2. /\ svKind' = svKind /\ svSaved' = svSaved /\ svSignals' = svSignals
      /\ svSent' = svSent /\ svAsked' = svAsked /\ svRuns' = svRuns /\ svTry' = svTry
  BY DEF svChannel, NoRun
<1>3. Turn' = 0 /\ Asking' = 0 /\ Turn \in Nat /\ Asking \in Nat
  BY DEF Turn, Asking, MaximumAttempts
<1>4. svSaved = "nothing" /\ svTry = 0
  BY DEF SvInv, SvOver
<1> QED
  BY <1>1, <1>2, <1>3, <1>4 DEF SvInv, MaximumAttempts

\* The coder's turn begins: the user is asked for his word.
LEMMA AskingSupervisor ==
  ASSUME SvInv, UNCHANGED <<svKind, svSaved, svChannel>>, NoRun,
         svPhase \notin SvOver \cup {"run"}, svPhase' = "waiting", svAsked' = svAsked + 1
  PROVE  SvInv'
<1>1. Cardinality(Approvals(svSignals)) \in Nat
  BY ApprovalsFinite DEF SvInv
<1>2. /\ svKind' = svKind /\ svSaved' = svSaved /\ svSignals' = svSignals
      /\ svSent' = svSent /\ svRuns' = svRuns /\ svTry' = svTry
  BY DEF svChannel, NoRun
<1>3. Turn' = 0 /\ Asking' = 3 /\ Turn = 0 /\ Asking \in Nat
  BY DEF Turn, Asking, MaximumAttempts
<1>4. svSaved = "nothing" /\ svTry = 0
  BY DEF SvInv, SvOver
<1>5. svPhase' \in SupervisorPhases
  BY DEF SupervisorPhases
<1> QED
  BY <1>1, <1>2, <1>3, <1>4, <1>5 DEF SvInv, MaximumAttempts

\* A signal is taken: an approval leaves the channel for the turn under way.
LEMMA ReceivingSupervisor ==
  ASSUME SvInv, ReceiveSignal
  PROVE  SvInv'
<1> USE DEF SupervisorPhases, SvOver, MaximumAttempts
<1> DEFINE n == Cardinality(Approvals(svSignals))
           m == Cardinality(Approvals(svSignals'))
<1>1. /\ svPhase = "waiting" /\ svSignals' = Tail(svSignals) /\ svSignals' \in Seq(BOOLEAN)
      /\ Head(svSignals) = TRUE => m = n - 1
      /\ Head(svSignals) # TRUE => m = n
      /\ UNCHANGED <<svKind, svSaved, svSent, svAsked, svRuns, svTry>>
  BY ApprovalsOfTail DEF ReceiveSignal, SvInv, At, Report, NoRun
<1>2. m \in Nat /\ n \in Nat
  BY <1>1, ApprovalsFinite DEF SvInv
<1>3. svTry = 0 /\ svSaved = "nothing" /\ Turn = 0 /\ Asking = 3
  BY <1>1 DEF SvInv, Turn, Asking
<1> HIDE DEF n, m
<1>4. svKind # "old" => svRuns + 3 * n <= 3 * svSent /\ svRuns + 3 <= 3 * svAsked
  <2> SUFFICES ASSUME svKind # "old"
               PROVE  svRuns + 3 * n <= 3 * svSent /\ svRuns + 3 <= 3 * svAsked
    OBVIOUS
  <2>1. svRuns + Turn + 3 * n <= 3 * svSent /\ svRuns + Asking <= 3 * svAsked
    BY DEF SvInv, n
  <2> QED
    BY <1>2, <1>3, <2>1 DEF SvInv
<1>5. CASE Head(svSignals) = TRUE
  <2>1. svPhase' = "run" /\ m = n - 1
    BY <1>1, <1>5 DEF ReceiveSignal, At
  <2>2. Turn' = 3 /\ Asking' = 3
    <3>1. svTry' = 0 /\ svPhase' # "waiting"
      BY <1>1, <1>3, <2>1
    <3>2. Turn' = 3 - svTry' /\ Asking' = Turn'
      BY <2>1, <3>1 DEF Turn, Asking
    <3> QED
      BY <3>1, <3>2
  <2>3. svKind # "old" => svRuns + 3 + 3 * m <= 3 * svSent /\ svRuns + 3 <= 3 * svAsked
    BY <1>2, <1>4, <2>1 DEF SvInv
  <2> QED
    BY <1>1, <1>3, <2>1, <2>2, <2>3 DEF SvInv, m
<1>6. CASE Head(svSignals) # TRUE
  <2>1. svPhase' \in {"limit", "decide"} /\ m = n
    BY <1>1, <1>6 DEF ReceiveSignal, Report
  <2>2. Turn' = 0 /\ Asking' = 0
    BY <2>1 DEF Turn, Asking
  <2>3. svKind # "old" => svRuns + 0 + 3 * m <= 3 * svSent /\ svRuns + 0 <= 3 * svAsked
    BY <1>2, <1>4, <2>1 DEF SvInv
  <2> QED
    BY <1>1, <1>3, <2>1, <2>2, <2>3 DEF SvInv, m
<1> QED
  BY <1>5, <1>6

LEMMA AttemptUses ==
  ASSUME NEW r \in Nat, NEW q \in {r, r + 1}, NEW t \in 0 .. 2, NEW left \in Nat, left <= 2 - t
  PROVE  /\ \A k, s \in Nat : r + (3 - t) + 3 * k <= 3 * s => q + left + 3 * k <= 3 * s
         /\ \A s \in Nat : r + (3 - t) <= 3 * s => q + left <= 3 * s
OBVIOUS

\* An attempt to run code uses one of the runs that the turn had left.
LEMMA RunningSupervisor ==
  ASSUME SvInv, RunCode
  PROVE  SvInv'
<1> USE DEF SupervisorPhases, SvOver, MaximumAttempts
<1> DEFINE n == Cardinality(Approvals(svSignals))
<1>1. /\ svPhase = "run" /\ svRuns' \in {svRuns, svRuns + 1} /\ svSaved = "nothing"
      /\ UNCHANGED <<svKind, svSaved, svSignals, svSent, svAsked>>
  BY DEF RunCode, Report, At, svChannel, SvInv
<1>2. /\ n \in Nat /\ svTry \in 0 .. 2 /\ svRuns \in Nat /\ svSent \in Nat /\ svAsked \in Nat
      /\ Turn = 3 - svTry /\ Asking = 3 - svTry
  BY <1>1, ApprovalsFinite DEF SvInv, Turn, Asking
<1>3. svKind # "old" => /\ svRuns + (3 - svTry) + 3 * n <= 3 * svSent
                        /\ svRuns + (3 - svTry) <= 3 * svAsked
  <2> SUFFICES ASSUME svKind # "old"
               PROVE  /\ svRuns + (3 - svTry) + 3 * n <= 3 * svSent
                      /\ svRuns + (3 - svTry) <= 3 * svAsked
    OBVIOUS
  <2>1. svRuns + Turn + 3 * n <= 3 * svSent /\ svRuns + Asking <= 3 * svAsked
    BY DEF SvInv
  <2> QED
    BY <1>2, <2>1, Zenon
<1>4. Cardinality(Approvals(svSignals')) = n
  BY <1>1
<1>5. /\ svKind' = svKind /\ svKind \in Kinds /\ svSignals' \in Seq(BOOLEAN) /\ svSaved' = "nothing"
      /\ svSent' = svSent /\ svAsked' = svAsked /\ svRuns' \in Nat
  BY <1>1 DEF SvInv
<1> HIDE DEF n
\* What is left of the turn shrinks by one, at least.
<1>6. ASSUME Turn' \in Nat, Turn' <= 2 - svTry, svKind # "old"
      PROVE  svRuns' + Turn' + 3 * n <= 3 * svSent /\ svRuns' + Turn' <= 3 * svAsked
  <2>1. svRuns + (3 - svTry) + 3 * n <= 3 * svSent /\ svRuns + (3 - svTry) <= 3 * svAsked
    BY <1>3, <1>6
  <2>2. svRuns \in Nat /\ svTry \in 0 .. 2 /\ n \in Nat /\ svSent \in Nat /\ svAsked \in Nat
    BY <1>2
  <2> QED
    BY <1>1, <1>6, <2>1, <2>2, AttemptUses, Zenon
<1>7. ASSUME svPhase' \in SupervisorPhases, svTry' \in 0 .. 2, svPhase' # "run" => svTry' = 0,
             Turn' \in Nat, Asking' = Turn', Turn' <= 2 - svTry
      PROVE  SvInv'
  <2>1. svKind' # "old" =>
          /\ svRuns' + Turn' + MaximumAttempts * Cardinality(Approvals(svSignals'))
               <= MaximumAttempts * svSent'
          /\ svRuns' + Asking' <= MaximumAttempts * svAsked'
    BY <1>4, <1>5, <1>6, <1>7, Zenon
  <2>2. svSent' \in Nat /\ svAsked' \in Nat /\ svKind' \in Kinds
    BY <1>2, <1>5
  <2>3. svTry' \in 0 .. MaximumAttempts - 1
    BY <1>7
  <2>4. /\ svKind' \in Kinds /\ svSignals' \in Seq(BOOLEAN) /\ svRuns' \in Nat
        /\ svSaved' \in {"answer", "nothing"} /\ svSaved' # "answer"
        /\ svPhase' \in SupervisorPhases /\ (svPhase' # "run" => svTry' = 0)
    BY <1>5, <1>7
  <2> HIDE DEF MaximumAttempts, SupervisorPhases
  <2> QED
    BY <2>1, <2>2, <2>3, <2>4, Zenon DEF SvInv
<1>8. CASE Report /\ svTry' = 0
  <2>1. svPhase' \in {"limit", "decide"}
    BY <1>8 DEF Report
  <2>2. Turn' = 0 /\ Asking' = Turn'
    BY <2>1 DEF Turn, Asking
  <2> QED
    BY <1>2, <1>7, <1>8, <2>1, <2>2
<1>9. CASE svTry + 1 < MaximumAttempts /\ svTry' = svTry + 1 /\ At("run")
  <2>1. svPhase' = "run" /\ svTry' \in 0 .. 2
    BY <1>2, <1>9 DEF At
  <2>2. Turn' = 3 - svTry' /\ Asking' = Turn'
    BY <2>1 DEF Turn, Asking
  <2> QED
    BY <1>2, <1>7, <1>9, <2>1, <2>2
<1> QED
  BY <1>8, <1>9 DEF RunCode

LEMMA SupervisorStep ==
  ASSUME SvInv, [SvNext]_svVars
  PROVE  SvInv'
<1> USE DEF SupervisorPhases, SvOver
<1>0. Cardinality(Approvals(svSignals)) \in Nat
  BY ApprovalsFinite DEF SvInv
<1>1. CASE UNCHANGED svVars
  BY <1>1 DEF svVars, svChannel, SvInv, Turn, Asking
<1>2. CASE DecideFails \/ ChooseFinish \/ ChooseWorker
  BY <1>2, QuietSupervisor DEF DecideFails, ChooseFinish, ChooseWorker, At, Report, Same
<1>3. CASE ChooseCoder
  <2>1. CASE svKind = "plain"
    BY <1>3, <2>1, AskingSupervisor DEF ChooseCoder, At
  <2>2. CASE svKind = "stream"
    BY <1>3, <2>2, QuietSupervisor DEF ChooseCoder, At
  <2>3. CASE svKind = "old"
    BY <1>3, <2>3 DEF ChooseCoder, At, NoRun, svChannel, SvInv
  <2> QED
    BY <2>1, <2>2, <2>3 DEF SvInv, Kinds
<1>4. CASE GenerateCode
  <2>1. CASE Report /\ UNCHANGED svAsked
    BY <1>4, <2>1, QuietSupervisor DEF GenerateCode, Report
  <2>2. CASE At("waiting") /\ svAsked' = svAsked + 1
    BY <1>4, <2>2, AskingSupervisor DEF GenerateCode, At
  <2> QED
    BY <1>4, <2>1, <2>2 DEF GenerateCode
<1>5. ASSUME NEW b \in BOOLEAN, SvSignal(b) PROVE SvInv'
  <2>1. /\ svSignals' = Append(svSignals, b)
        /\ svSent' = svSent + (IF b = TRUE THEN 1 ELSE 0)
        /\ UNCHANGED <<svKind, svPhase, svAsked, svTry, svRuns, svSaved>>
    BY <1>5 DEF SvSignal, NoRun
  <2>2. Cardinality(Approvals(svSignals')) =
          Cardinality(Approvals(svSignals)) + (IF b = TRUE THEN 1 ELSE 0)
    BY <2>1, ApprovalsOfAppend DEF SvInv
  <2>3. svSignals' \in Seq(BOOLEAN)
    BY <2>1 DEF SvInv
  <2> QED
    BY <1>0, <2>1, <2>2, <2>3 DEF SvInv, Turn, Asking, MaximumAttempts
<1>6. CASE FinalReply
  <2>1. /\ svPhase = "reply" /\ svPhase' \in {"finished", "failed"}
        /\ svSaved' \in {"answer", "nothing"} /\ (svSaved' = "answer" => svPhase' = "finished")
        /\ UNCHANGED <<svKind, svSignals, svSent, svAsked, svTry, svRuns>>
    BY <1>6 DEF FinalReply, Same, NoRun, svChannel, SvInv
  <2> QED
    BY <1>0, <2>1 DEF SvInv, Turn, Asking
<1> QED
  BY <1>1, <1>2, <1>3, <1>4, <1>5, <1>6, ReceivingSupervisor, RunningSupervisor DEF SvNext, SvWork

\* Behind the gate no code runs without an approval of its own that was waited
\* for, however signals are repeated, late or early, and none more often than its
\* activity is tried; and only a turn that the user was given a reply for is saved.
THEOREM SupervisorGate == SvSpec => []GatedAndSaved
<1>1. SvInit => SvInv
  <2>1. Approvals(<<>>) = {}
    BY DEF Approvals
  <2>2. Cardinality(Approvals(<<>>)) = 0
    BY <2>1, FS_EmptySet
  <2> QED
    BY <2>2 DEF SvInit, SvInv, SupervisorPhases, Kinds, Turn, Asking, MaximumAttempts
<1>2. SvInv => GatedAndSaved
  <2> SUFFICES ASSUME SvInv PROVE GatedAndSaved
    OBVIOUS
  <2>1. Turn \in Nat /\ Asking \in Nat /\ Cardinality(Approvals(svSignals)) \in Nat
    BY ApprovalsFinite DEF SvInv, Turn, Asking, MaximumAttempts
  <2>2. svRuns \in Nat /\ svSent \in Nat /\ svAsked \in Nat
    BY DEF SvInv
  <2>3. svKind # "old" => /\ svRuns + Turn + 3 * Cardinality(Approvals(svSignals)) <= 3 * svSent
                          /\ svRuns + Asking <= 3 * svAsked
    BY DEF SvInv, MaximumAttempts
  <2>4. svSaved = "answer" => svPhase = "finished"
    BY DEF SvInv
  <2> QED
    BY <2>1, <2>2, <2>3, <2>4 DEF GatedAndSaved, MaximumAttempts
<1> QED
  BY <1>1, <1>2, SupervisorStep, PTL DEF SvSpec
-----------------------------------------------------------------------------
\* The graph engine's gate.

GxPhases == Over \cup {"stuck", "node", "publish", "published", "waiting", "execute",
                       "save", "announce"}
Signals == [approved: BOOLEAN, for: Nat, n: Nat]

\* What is run, or may be run yet, by AgentExecuteApproved.
Calls == gxRan \cup gxLate \cup (IF gxPhase = "execute" THEN {gxCall} ELSE {})
AreReviewed(S) ==
  /\ \A c \in S : c.code \in Nat /\ c.by.approved /\ c.by.for = c.code
  /\ \A c, d \in S : c.code = d.code => c.by = d.by
AllBelow(S, code) == \A c \in S : c.code < code

\* A pending answer is about code shown so far, and while code is being shown
\* or waited for none of it was given to the executor.
GateInv ==
  /\ gxPhase \in GxPhases
  /\ gxCode \in Nat /\ gxShown \in Nat /\ gxShown <= gxCode /\ gxSent \in Nat
  /\ gxPending # NoSignal => gxPending \in Signals /\ gxPending.for <= gxShown
  /\ AreReviewed(Calls) /\ AllBelow(Calls, gxCode + 1)
  /\ gxPhase \in {"publish", "published", "waiting"} => AllBelow(Calls, gxCode)
  /\ gxPhase \in {"published", "waiting"} => gxShown = gxCode
  /\ gxPhase = "waiting" /\ gxPending # NoSignal => gxPending.for = gxCode

LEMMA GoPhase ==
  ASSUME NEW c, Go(c)
  PROVE  gxPhase' \in {"save", "node"}
BY DEF Go

LEMMA RepliesPhase ==
  ASSUME NEW p, Replies(p)
  PROVE  gxPhase' \in {p, gxPhase}
BY DEF Replies

\* Fewer calls, or the same ones, are reviewed if these were.
LEMMA ReviewedSubset ==
  ASSUME NEW S, NEW T \in SUBSET S, NEW code, AreReviewed(S), AllBelow(S, code)
  PROVE  AreReviewed(T) /\ AllBelow(T, code)
BY DEF AreReviewed, AllBelow

\* Steps that bring up no code, no answer and no new call.
LEMMA QuietGate ==
  ASSUME GateInv, UNCHANGED <<gxUser, gxCode>>, Calls' \subseteq Calls,
         \/ gxPhase' \in GxPhases \ {"publish", "published", "waiting"}
         \/ gxPhase' = gxPhase
  PROVE  GateInv'
<1>1. UNCHANGED <<gxPending, gxShown, gxSent, gxCode>>
  BY DEF gxUser
<1>2. AreReviewed(Calls') /\ AllBelow(Calls', gxCode' + 1)
  BY <1>1, ReviewedSubset DEF GateInv
<1>3. gxPhase' \in {"publish", "published", "waiting"} => AllBelow(Calls', gxCode')
  BY <1>1 DEF GateInv, AllBelow
<1>4. AreReviewed(Calls)' /\ AllBelow(Calls, gxCode + 1)'
      /\ (gxPhase' \in {"publish", "published", "waiting"} => AllBelow(Calls, gxCode)')
  BY <1>2, <1>3 DEF AreReviewed, AllBelow
<1> QED
  BY <1>1, <1>4 DEF GateInv, Signals, GxPhases

LEMMA GateStep ==
  ASSUME GateInv, [GxNext]_gxVars
  PROVE  GateInv'
<1> USE DEF GxPhases, Over
<1>1. CASE UNCHANGED gxVars
  BY <1>1, QuietGate DEF gxVars, gxExec, Calls
<1>2. CASE MissingNode \/ RunPlainNode \/ RunRouter
  BY <1>2, GoPhase, QuietGate DEF MissingNode, RunPlainNode, RunRouter, gxExec, Calls
<1>3. CASE SaveTurn \/ AnnounceDone \/ AttemptFails
  <2>1. gxPhase' \in {gxPhase, "announce", "done"} /\ UNCHANGED <<gxUser, gxCode, gxExec>>
    BY <1>3, RepliesPhase DEF SaveTurn, AnnounceDone, AttemptFails
  <2>2. Calls' \subseteq Calls
    BY <2>1 DEF Calls, gxExec
  <2> QED
    BY <2>1, <2>2, QuietGate
<1>4. CASE PreviewCode
  <2>1. gxPhase = "node" /\ UNCHANGED <<gxUser, gxExec>>
    BY <1>4 DEF PreviewCode, AtNode
  <2>2. CASE Go("default") /\ UNCHANGED gxCode
    BY <2>1, <2>2, GoPhase, QuietGate DEF gxExec, Calls
  <2>3. CASE gxCode' = gxCode + 1 /\ gxPhase' = "publish"
    <3>1. Calls' = Calls /\ UNCHANGED <<gxPending, gxShown, gxSent>>
      BY <2>1, <2>3 DEF Calls, gxExec, gxUser
    <3>2. AreReviewed(Calls)' /\ AllBelow(Calls, gxCode + 1)' /\ AllBelow(Calls, gxCode)'
      BY <2>3, <3>1 DEF GateInv, AreReviewed, AllBelow
    <3> QED
      BY <2>3, <3>1, <3>2 DEF GateInv, Signals
  <2> QED
    BY <1>4, <2>2, <2>3 DEF PreviewCode
<1>5. CASE ShowCode
  <2>1. /\ gxPhase = "publish" /\ gxPhase' \in {"publish", "published"} /\ gxShown' = gxCode
        /\ UNCHANGED <<gxPending, gxSent, gxCode, gxExec>>
    BY <1>5, RepliesPhase DEF ShowCode
  <2>2. Calls' = Calls
    BY <2>1 DEF Calls, gxExec
  <2>3. AreReviewed(Calls)' /\ AllBelow(Calls, gxCode + 1)' /\ AllBelow(Calls, gxCode)'
    BY <2>1, <2>2 DEF GateInv, AreReviewed, AllBelow
  <2> QED
    BY <2>1, <2>3 DEF GateInv, Signals
<1>6. CASE WaitForApproval
  <2>1. /\ gxPhase = "published" /\ gxPhase' = "waiting" /\ gxPending' = NoSignal
        /\ UNCHANGED <<gxShown, gxSent, gxCode, gxExec>>
    BY <1>6 DEF WaitForApproval
  <2>2. Calls' = Calls
    BY <2>1 DEF Calls, gxExec
  <2>3. AreReviewed(Calls)' /\ AllBelow(Calls, gxCode + 1)' /\ AllBelow(Calls, gxCode)'
    BY <2>1, <2>2 DEF GateInv, AreReviewed, AllBelow
  <2> QED
    BY <2>1, <2>3 DEF GateInv
<1>7. ASSUME NEW b \in BOOLEAN, Signal(b) PROVE GateInv'
  <2>1. /\ gxPending' = [approved |-> b, for |-> gxShown, n |-> gxSent] /\ gxSent' = gxSent + 1
        /\ UNCHANGED <<gxPhase, gxCode, gxShown, gxExec>>
    BY <1>7 DEF Signal
  <2>2. gxPending' \in Signals /\ gxPending'.for = gxShown
    BY <2>1 DEF GateInv, Signals
  <2>3. Calls' = Calls
    BY <2>1 DEF Calls, gxExec
  <2>4. /\ AreReviewed(Calls)' /\ AllBelow(Calls, gxCode + 1)'
        /\ gxPhase \in {"publish", "published", "waiting"} => AllBelow(Calls, gxCode)'
    BY <2>1, <2>3 DEF GateInv, AreReviewed, AllBelow
  <2> QED
    BY <2>1, <2>2, <2>4 DEF GateInv, Signals
<1>8. CASE Decide
  <2>1. /\ gxPhase = "waiting" /\ gxPending # NoSignal /\ gxPending.for = gxCode
        /\ UNCHANGED <<gxUser, gxCode, gxLate, gxRan>>
    BY <1>8 DEF Decide, GateInv
  <2>2. CASE ~gxPending.approved
    <3>1. Go("default") /\ UNCHANGED gxCall
      BY <1>8, <2>2 DEF Decide
    <3> QED
      BY <2>1, <3>1, GoPhase, QuietGate DEF Calls
  <2>3. CASE gxPending.approved
    <3> DEFINE call == [code |-> gxCode, by |-> gxPending]
    <3>1. gxPhase' = "execute" /\ gxCall' = call
      BY <1>8, <2>3 DEF Decide
    <3>2. Calls' = Calls \cup {call}
      BY <2>1, <3>1 DEF Calls
    <3>3. call.code = gxCode /\ call.by = gxPending
      OBVIOUS
    <3>4. AreReviewed(Calls) /\ AllBelow(Calls, gxCode) /\ gxCode \in Nat
      BY <2>1 DEF GateInv
    <3> HIDE DEF call
    <3>5. AreReviewed(Calls')
      BY <2>1, <2>3, <3>2, <3>3, <3>4 DEF AreReviewed, AllBelow
    <3>6. AllBelow(Calls', gxCode' + 1)
      BY <2>1, <3>2, <3>3, <3>4 DEF AreReviewed, AllBelow
    <3>7. AreReviewed(Calls)' /\ AllBelow(Calls, gxCode + 1)'
      BY <3>5, <3>6 DEF AreReviewed, AllBelow
    <3> QED
      BY <2>1, <3>1, <3>7 DEF gxUser, GateInv, Signals
  <2> QED
    BY <2>2, <2>3
<1>9. CASE ExecuteCode
  <2>1. gxPhase = "execute" /\ UNCHANGED <<gxUser, gxCode>> /\ gxPhase' \in {"save", "node", "execute"}
    BY <1>9, GoPhase DEF ExecuteCode
  <2>2. Calls' \subseteq Calls
    BY <1>9 DEF ExecuteCode, Calls
  <2> QED
    BY <2>1, <2>2, QuietGate
<1>10. CASE OverrunCode \/ RunLate
  <2>1. Calls' \subseteq Calls
    BY <1>10 DEF OverrunCode, RunLate, Calls
  <2> QED
    BY <1>10, <2>1, QuietGate DEF OverrunCode, RunLate
<1>11. CASE CancelRun
  <2>1. Calls' \subseteq Calls
    BY <1>11 DEF CancelRun, Calls
  <2> QED
    BY <1>11, <2>1, QuietGate DEF CancelRun
<1> QED
  BY <1>1, <1>2, <1>3, <1>4, <1>5, <1>6, <1>7, <1>8, <1>9, <1>10, <1>11 DEF GxNext, Engine

LEMMA GateStarts == GxInit => GateInv
BY DEF GxInit, GateInv, GxPhases, Calls, AreReviewed, AllBelow

\* In any blueprint, with any loops and any signals: code runs only by an approval
\* given after that code was shown, and all its runs, retried or late, by one.
THEOREM GraphGate == GxSpec => []ShownCodeOnly
<1>1. GateInv => ShownCodeOnly
  BY DEF GateInv, AreReviewed, Calls, ShownCodeOnly
<1> QED
  BY <1>1, GateStarts, GateStep, PTL DEF GxSpec

-----------------------------------------------------------------------------
\* The walk: what Validate says of edges keeps a run among the blueprint's
\* nodes, but for a node's own `next'.

Active == {"publish", "published", "waiting", "execute"}
NamedByNext == \E n \in ToSet(gxBp.nodes) : n.next = gxAt

WalkInv ==
  /\ gxBp \in Blueprints /\ Validate(gxBp)
  /\ gxSteps \in 0 .. MaxSteps /\ gxFaults \in 0 .. GxMaxFaults /\ gxSaved \in Nat
  /\ gxPhase \in Active \cup {"node"} => LoopGoesOn(gxAt, gxSteps)
  /\ gxPhase = "node" => gxAt \in NodeIdsOf(gxBp) \/ (gxSteps > 0 /\ NamedByNext)
  /\ gxPhase \in Active => gxAt \in NodeIdsOf(gxBp) /\ Here.type = "Tool"
  /\ gxPhase = "stuck" => gxSteps > 0 /\ NamedByNext
  /\ gxPhase = "save" \/ gxSaved > 0 => WalkIsOver
  /\ gxPhase \in {"announce", "done"} => gxSaved > 0
  /\ gxSaved <= (IF gxPhase \in {"announce", "done", "cancelled"} THEN 1 ELSE 0) + gxFaults

LEMMA LeastPosition ==
  ASSUME NEW S \in SUBSET Nat, S # {}
  PROVE  Min(S) \in S
<1> DEFINE less == OpToRel(<, Nat)
<1>1. IsWellFoundedOn(less, Nat)
  BY NatLessThanWellFounded
<1>2. PICK x \in S : \A y \in S : ~(<<y, x>> \in less)
  <2> HIDE DEF less
  <2> QED
    BY <1>1, WFMin
<1>3. \A y \in S : ~(y < x)
  BY <1>2 DEF OpToRel
<1>4. \A y \in S : x <= y
  BY <1>3
<1> QED
  BY <1>4 DEF Min

\* findNextNode leads to a node, to the end, or where the node's `next' says.
LEMMA NextNode ==
  ASSUME WalkInv, gxAt \in NodeIdsOf(gxBp), NEW c
  PROVE  \/ findNextNode(Here, c) \in NodeIdsOf(gxBp) \cup {"END"}
         \/ \E n \in ToSet(gxBp.nodes) : n.next = findNextNode(Here, c)
<1>1. Here \in ToSet(gxBp.nodes)
  BY DEF Here, NodeIdsOf
<1>2. gxBp.edges \in Seq(Edges) /\ DOMAIN gxBp.edges \in SUBSET Nat
  BY GxAssumption DEF WalkInv
<1>3. ASSUME NEW S \in SUBSET DOMAIN gxBp.edges, S # {}
      PROVE  FirstEdge(S) \in NodeIdsOf(gxBp) \cup {"END"}
  <2>1. Min(S) \in DOMAIN gxBp.edges
    BY <1>2, <1>3, LeastPosition
  <2>2. gxBp.edges[Min(S)] \in ToSet(gxBp.edges)
    BY <2>1 DEF ToSet
  <2> QED
    BY <2>2 DEF FirstEdge, WalkInv, Validate, EdgesAreValid
<1> DEFINE matching == {i \in DOMAIN gxBp.edges :
                          gxBp.edges[i].source = Here.id /\ gxBp.edges[i].condition = c}
<1> DEFINE defaults == {i \in DOMAIN gxBp.edges :
                          gxBp.edges[i].source = Here.id /\ IsDefault(gxBp.edges[i].condition)}
<1>4. findNextNode(Here, c) \in {FirstEdge(matching), FirstEdge(defaults), Here.next}
      /\ (matching # {} => findNextNode(Here, c) = FirstEdge(matching))
      /\ (matching = {} /\ defaults # {} => findNextNode(Here, c) = FirstEdge(defaults))
      /\ (matching = {} /\ defaults = {} => findNextNode(Here, c) = Here.next)
  BY DEF findNextNode
<1>5. matching \in SUBSET DOMAIN gxBp.edges /\ defaults \in SUBSET DOMAIN gxBp.edges
  OBVIOUS
<1> HIDE DEF matching, defaults
<1> QED
  BY <1>1, <1>3, <1>4, <1>5

\* Nothing is saved while the walk goes on.
LEMMA WalkingUnsaved ==
  ASSUME WalkInv, gxPhase \in Active \cup {"node"}, gxAt \in NodeIdsOf(gxBp), Here.type # "End"
  PROVE  gxSaved = 0 /\ gxSteps \in Nat /\ gxSteps < MaxSteps
<1>1. LoopGoesOn(gxAt, gxSteps) /\ gxSteps \in 0 .. MaxSteps /\ gxSaved \in Nat
      /\ (gxSaved > 0 => WalkIsOver)
  BY DEF WalkInv
<1>2. gxAt \notin {"", "END"} /\ gxSteps < MaxSteps
  BY <1>1, Zenon DEF LoopGoesOn
<1>3. gxSteps < MaxSteps
  BY <1>2, Zenon
<1>4. gxSteps \in Nat /\ gxSteps # MaxSteps
  BY <1>1, <1>3, GxAssumption
<1>5. ~WalkIsOver
  BY <1>2, <1>4, Zenon DEF WalkIsOver
<1> QED
  BY <1>1, <1>3, <1>4, <1>5

LEMMA GoOn ==
  ASSUME WalkInv, gxPhase \in Active \cup {"node"}, gxAt \in NodeIdsOf(gxBp), Here.type # "End",
         NEW c, Go(c), UNCHANGED <<gxSaved, gxFaults>>
  PROVE  WalkInv'
<1>1. gxSteps \in Nat /\ gxSteps < MaxSteps /\ MaxSteps \in Nat /\ gxSaved = 0
  BY GxAssumption, WalkingUnsaved
<1>2. /\ gxAt' = findNextNode(Here, c) /\ gxSteps' = gxSteps + 1 /\ gxBp' = gxBp
      /\ gxPhase' \in {"save", "node"}
      /\ gxPhase' = "node" <=> LoopGoesOn(gxAt', gxSteps')
  BY DEF Go
<1>3. gxSteps' \in 0 .. MaxSteps /\ gxSteps' > 0
  BY <1>1, <1>2
<1>4. gxPhase' = "node" => LoopGoesOn(gxAt, gxSteps)'
  BY <1>2 DEF LoopGoesOn
<1>5. gxPhase' = "node" => gxAt' \in NodeIdsOf(gxBp') \/ NamedByNext'
  <2> SUFFICES ASSUME gxPhase' = "node" PROVE gxAt' \in NodeIdsOf(gxBp') \/ NamedByNext'
    OBVIOUS
  <2>1. gxAt' # "END"
    BY <1>4 DEF LoopGoesOn
  <2> QED
    BY <1>2, <2>1, NextNode DEF NamedByNext
<1>6. gxPhase' = "save" => WalkIsOver'
  <2> SUFFICES ASSUME gxPhase' = "save" PROVE gxAt' \in {"", "END"} \/ gxSteps' = MaxSteps
    BY DEF WalkIsOver
  <2>1. ~LoopGoesOn(gxAt', gxSteps')
    BY <1>2
  <2>2. gxAt' \in {"", "END"} \/ ~(gxSteps' < MaxSteps)
    BY <2>1 DEF LoopGoesOn
  <2>3. ~(gxSteps' < MaxSteps) => gxSteps' = MaxSteps
    BY <1>1, <1>3
  <2> QED
    BY <2>2, <2>3, Zenon
<1>7. gxPhase' \notin Active \cup {"announce", "done", "cancelled", "stuck"}
      /\ gxSaved' = 0 /\ gxFaults' \in 0 .. GxMaxFaults
  BY <1>1, <1>2 DEF Active, WalkInv
<1>8. gxBp' \in Blueprints /\ Validate(gxBp')
  BY <1>2 DEF WalkInv
<1> QED
  BY <1>3, <1>4, <1>5, <1>6, <1>7, <1>8, GxAssumption DEF WalkInv

\* Steps within a node, and out of the walk.
LEMMA StayOn ==
  ASSUME WalkInv, GxStay, UNCHANGED gxSaved, gxFaults' \in gxFaults .. GxMaxFaults,
         \/ gxPhase' = gxPhase
         \/ /\ gxPhase' \in Active /\ gxPhase \in Active \cup {"node"}
            /\ gxAt \in NodeIdsOf(gxBp) /\ Here.type = "Tool"
         \/ gxPhase' = "cancelled" /\ gxPhase # "done"
         \/ gxPhase' = "done" /\ gxPhase = "announce"
  PROVE  WalkInv'
<1>1. /\ UNCHANGED <<gxBp, gxAt, gxSteps>> /\ Here' = Here
      /\ (LoopGoesOn(gxAt, gxSteps)' <=> LoopGoesOn(gxAt, gxSteps))
      /\ (NamedByNext' <=> NamedByNext) /\ (WalkIsOver' <=> WalkIsOver)
  BY DEF GxStay, Here, LoopGoesOn, NamedByNext, WalkIsOver
<1>2. gxFaults' \in 0 .. GxMaxFaults /\ gxFaults <= gxFaults' /\ gxFaults \in Nat /\ gxSaved \in Nat
  BY GxAssumption DEF WalkInv
<1> DEFINE extra == IF gxPhase \in {"announce", "done", "cancelled"} THEN 1 ELSE 0
<1>3. extra \in 0 .. 1 /\ extra' \in 0 .. 1 /\ extra <= extra'
  BY DEF Active
<1>4. gxSaved <= extra + gxFaults /\ gxSaved' = gxSaved
  BY DEF WalkInv
<1>5. gxSaved' <= extra' + gxFaults'
  <2>1. \A n, f, g \in Nat, e, d \in 0 .. 1 : n <= e + f /\ e <= d /\ f <= g => n <= d + g
    OBVIOUS
  <2>2. gxFaults' \in Nat
    BY <1>2
  <2> HIDE DEF extra
  <2> QED
    BY <1>2, <1>3, <1>4, <2>1, <2>2, Zenon
<1> QED
  BY <1>1, <1>2, <1>5 DEF WalkInv, Active

\* An attempt to save.
LEMMA SaveOn ==
  ASSUME WalkInv, GxStay, WalkIsOver, gxSaved' = gxSaved + 1,
         gxPhase \notin {"announce", "done", "cancelled"},
         \/ gxPhase' \in {"announce", "cancelled"} /\ UNCHANGED gxFaults
         \/ gxPhase' = gxPhase /\ Fault
  PROVE  WalkInv'
<1>1. /\ UNCHANGED <<gxBp, gxAt, gxSteps>> /\ Here' = Here
      /\ (LoopGoesOn(gxAt, gxSteps)' <=> LoopGoesOn(gxAt, gxSteps))
      /\ (NamedByNext' <=> NamedByNext) /\ WalkIsOver'
  BY DEF GxStay, Here, LoopGoesOn, NamedByNext, WalkIsOver
<1>2. gxSaved \in Nat /\ gxFaults \in 0 .. GxMaxFaults /\ gxSaved <= gxFaults /\ GxMaxFaults \in Nat
  BY GxAssumption DEF WalkInv
<1>3. gxSaved' \in Nat /\ gxSaved' > 0 /\ gxFaults' \in 0 .. GxMaxFaults
      /\ gxSaved' <= (IF gxPhase' \in {"announce", "done", "cancelled"} THEN 1 ELSE 0) + gxFaults'
  BY <1>2 DEF Fault
<1> QED
  BY <1>1, <1>3 DEF WalkInv, Active

LEMMA WalkStep ==
  ASSUME WalkInv, [GxNext]_gxVars
  PROVE  WalkInv'
<1>0. gxFaults \in gxFaults .. GxMaxFaults /\ (Fault => gxFaults' \in gxFaults .. GxMaxFaults)
  BY GxAssumption DEF WalkInv, Fault
<1>1. CASE UNCHANGED gxVars
  BY <1>0, <1>1, StayOn DEF gxVars, GxStay
<1>2. gxPhase \in Active => gxAt \in NodeIdsOf(gxBp) /\ Here.type = "Tool"
  BY DEF WalkInv
<1>3. CASE MissingNode
  <2>1. WalkIsOver' <=> WalkIsOver
    BY <1>3 DEF MissingNode, GxStay, WalkIsOver, Here
  <2> QED
    BY <1>3, <2>1 DEF MissingNode, WalkInv, GxStay, Active, NamedByNext
<1>4. CASE RunPlainNode \/ RunRouter
  BY <1>4, GoOn DEF RunPlainNode, RunRouter, AtNode
<1>5. CASE PreviewCode
  <2>1. gxPhase = "node" /\ gxAt \in NodeIdsOf(gxBp) /\ Here.type = "Tool"
        /\ UNCHANGED <<gxSaved, gxFaults>>
    BY <1>5 DEF PreviewCode, AtNode
  <2>2. CASE Go("default")
    BY <2>1, <2>2, GoOn
  <2>3. CASE gxPhase' = "publish" /\ GxStay
    BY <1>0, <2>1, <2>3, StayOn DEF Active
  <2> QED
    BY <1>5, <2>2, <2>3 DEF PreviewCode
<1>6. CASE ShowCode \/ WaitForApproval
  <2>1. /\ GxStay /\ UNCHANGED gxSaved /\ gxPhase \in Active /\ gxPhase' \in Active
        /\ gxFaults' \in gxFaults .. GxMaxFaults
    BY <1>0, <1>6 DEF ShowCode, WaitForApproval, Replies, Active
  <2> QED
    BY <1>2, <2>1, StayOn
<1>7. CASE Decide
  <2>1. gxPhase = "waiting" /\ gxAt \in NodeIdsOf(gxBp) /\ Here.type = "Tool"
        /\ UNCHANGED <<gxSaved, gxFaults>>
    BY <1>2, <1>7 DEF Decide, Active
  <2>2. CASE Go("default")
    BY <2>1, <2>2, GoOn DEF Active
  <2>3. CASE gxPhase' = "execute" /\ GxStay
    BY <1>0, <2>1, <2>3, StayOn DEF Active
  <2> QED
    BY <1>7, <2>2, <2>3 DEF Decide
<1>8. CASE ExecuteCode
  <2>1. gxPhase = "execute" /\ UNCHANGED gxSaved
    BY <1>8 DEF ExecuteCode
  <2>2. CASE Go("default") /\ UNCHANGED gxFaults
    BY <1>2, <2>1, <2>2, GoOn DEF Active
  <2>3. CASE Fault /\ GxStay /\ UNCHANGED gxPhase
    BY <1>0, <2>1, <2>3, StayOn
  <2> QED
    BY <1>8, <2>2, <2>3 DEF ExecuteCode
<1>9. CASE OverrunCode \/ RunLate \/ AttemptFails
  BY <1>0, <1>9, StayOn DEF OverrunCode, RunLate, AttemptFails
<1>10. CASE SaveTurn
  <2>1. gxPhase \in {"node", "save"} /\ GxStay /\ gxSaved' = gxSaved + 1
    BY <1>10 DEF SaveTurn, AtNode
  <2>2. WalkIsOver
    BY <1>10 DEF SaveTurn, AtNode, WalkIsOver, WalkInv
  <2> QED
    BY <1>10, <2>1, <2>2, SaveOn DEF SaveTurn, Replies
<1>11. CASE AnnounceDone
  BY <1>0, <1>11, StayOn DEF AnnounceDone, Replies
<1>12. CASE CancelRun
  <2>1. gxPhase \notin {"done", "cancelled"} /\ GxStay /\ gxPhase' = "cancelled" /\ UNCHANGED gxFaults
    BY <1>12 DEF CancelRun, Running, Over
  <2>2. CASE UNCHANGED gxSaved
    BY <1>0, <2>1, <2>2, StayOn
  <2>3. CASE gxSaved' = gxSaved + 1 /\ (gxPhase = "save" \/ AtNode("End"))
    <3>1. WalkIsOver /\ gxPhase # "announce"
      BY <2>3 DEF AtNode, WalkIsOver, WalkInv
    <3> QED
      BY <2>1, <2>3, <3>1, SaveOn
  <2> QED
    BY <1>12, <2>2, <2>3 DEF CancelRun
<1>13. ASSUME NEW b \in BOOLEAN, Signal(b) PROVE WalkInv'
  BY <1>0, <1>13, StayOn DEF Signal
<1> QED
  BY <1>1, <1>3, <1>4, <1>5, <1>6, <1>7, <1>8, <1>9, <1>10, <1>11, <1>12, <1>13 DEF GxNext, Engine

LEMMA WalkStarts == GxInit => WalkInv
<1> SUFFICES ASSUME GxInit PROVE WalkInv
  OBVIOUS
<1>1. gxBp \in Blueprints /\ Validate(gxBp)
  BY DEF GxInit
<1>2. gxAt \in NodeIdsOf(gxBp)
  BY <1>1 DEF GxInit, Validate
<1>3. /\ gxSteps = 0 /\ gxSaved = 0 /\ gxFaults = 0
      /\ MaxSteps \in Nat \ {0} /\ GxMaxFaults \in Nat
      /\ gxPhase = IF LoopGoesOn(gxAt, gxSteps) THEN "node" ELSE "save"
  BY GxAssumption DEF GxInit
<1>4. gxPhase = "save" => WalkIsOver
  <2> SUFFICES ASSUME gxPhase = "save" PROVE WalkIsOver
    OBVIOUS
  <2>1. ~LoopGoesOn(gxAt, gxSteps)
    BY <1>3
  <2>2. gxSteps < MaxSteps
    BY <1>3
  <2> QED
    BY <2>1, <2>2, Zenon DEF LoopGoesOn, WalkIsOver
<1>5. gxPhase \in {"node", "save"} /\ (gxPhase = "node" => LoopGoesOn(gxAt, gxSteps))
  BY <1>3
<1> HIDE DEF LoopGoesOn
<1> QED
  BY <1>1, <1>2, <1>3, <1>4, <1>5 DEF WalkInv, Active

\* Whatever is drawn: a run of a validated blueprint is stuck only at a node that
\* a `next' names, stops within its steps, and saves its turn when the walk is
\* over, before it announces the end, and once but for attempts that failed.
THEOREM WalkIsSound == GxSpec => []WalkFitsBlueprint
<1>1. GxInit => WalkInv
  BY WalkStarts
<1>2. WalkInv => WalkFitsBlueprint
  BY GxAssumption DEF WalkInv, WalkFitsBlueprint, NamedByNext
<1> QED
  BY <1>1, <1>2, WalkStep, PTL DEF GxSpec

-----------------------------------------------------------------------------
\* What liveness needs beside fairness: the engine is brought nearer to its end
\* by each step it takes, and at every node it has something to do.

\* What a run has left: the nodes it may still visit and, within a visit, what is
\* left of a preview's approval.
InVisit == CASE gxPhase = "node" -> 5 [] gxPhase = "publish" -> 4 [] gxPhase = "published" -> 3
             [] gxPhase = "waiting" -> 2 [] OTHER -> 1
WalkLeft == CASE gxPhase \in Over \cup {"stuck"} -> 0
              [] gxPhase = "announce" -> 1
              [] gxPhase = "save" -> 2
              [] OTHER -> 5 * (MaxSteps - gxSteps) + InVisit - 3
GxLeft == WalkLeft + (GxMaxFaults - gxFaults)

\* Signals, and code that is run late, leave it where it is.
EngineAdvances ==
  [][IF Engine \/ CancelRun THEN GxLeft' < GxLeft ELSE GxLeft' = GxLeft]_gxVars

\* A node of the blueprint is of a type that the engine has a branch for.
NodesAreHandled ==
  gxPhase = "node" /\ gxAt \in NodeIdsOf(gxBp) => Here.type \in NodeTypes

LEMMA WalkLeftType ==
  ASSUME GateInv, WalkInv
  PROVE  /\ WalkLeft \in 0 .. 5 * MaxSteps + 2
         /\ gxPhase \in Active \cup {"node"} =>
              /\ MaxSteps - gxSteps \in Nat \ {0} /\ InVisit \in 1 .. 5
              /\ WalkLeft = 5 * (MaxSteps - gxSteps) + InVisit - 3
         /\ Running => WalkLeft > 0
         /\ gxFaults \in Nat /\ GxMaxFaults \in Nat /\ gxFaults <= GxMaxFaults
<1>1. gxSteps \in Nat /\ MaxSteps \in Nat \ {0} /\ gxSteps <= MaxSteps
  BY GxAssumption DEF WalkInv
<1>2. InVisit \in 1 .. 5
  BY DEF InVisit
<1>3. gxPhase \in Active \cup {"node"} => gxSteps < MaxSteps
  BY DEF WalkInv, LoopGoesOn
<1>4. gxPhase \in Over \cup {"stuck", "save", "announce"} \cup Active \cup {"node"}
  BY DEF GateInv, GxPhases, Active
<1>5. gxFaults \in Nat /\ GxMaxFaults \in Nat /\ gxFaults <= GxMaxFaults
  BY GxAssumption DEF WalkInv
<1> HIDE DEF InVisit
<1>6. CASE gxPhase \in Over \cup {"stuck", "save", "announce"}
  BY <1>1, <1>5, <1>6 DEF WalkLeft, Over, Active, Running
<1>7. CASE gxPhase \in Active \cup {"node"}
  <2>1. gxPhase \notin Over \cup {"stuck", "save", "announce"}
    BY <1>7 DEF Active, Over
  <2>2. WalkLeft = 5 * (MaxSteps - gxSteps) + InVisit - 3
    BY <2>1 DEF WalkLeft
  <2> QED
    BY <1>1, <1>2, <1>3, <1>5, <1>7, <2>2
<1> QED
  BY <1>4, <1>6, <1>7

LEMMA GoLowers ==
  ASSUME GateInv, WalkInv, gxPhase \in Active \cup {"node"}, NEW c, Go(c)
  PROVE  WalkLeft' < WalkLeft
<1> DEFINE k == MaxSteps - gxSteps
<1>1. k \in Nat \ {0} /\ WalkLeft = 5 * k + InVisit - 3 /\ InVisit \in 1 .. 5
  BY WalkLeftType
<1>2. CASE gxPhase' = "save"
  <2>1. WalkLeft' = 2
    BY <1>2 DEF WalkLeft, Over
  <2> QED
    BY <1>1, <2>1
<1>3. CASE gxPhase' = "node"
  <2>1. gxSteps' = gxSteps + 1 /\ gxSteps \in Nat /\ MaxSteps \in Nat
    BY GxAssumption DEF Go, WalkInv
  <2>2. WalkLeft' = 5 * (MaxSteps - gxSteps') + 2
    BY <1>3 DEF WalkLeft, InVisit, Over
  <2> QED
    BY <1>1, <2>1, <2>2
<1> QED
  BY <1>2, <1>3, GoPhase

\* Within a visit.
LEMMA VisitLowers ==
  ASSUME GateInv, WalkInv, GxStay, gxPhase \in Active \cup {"node"},
         gxPhase' \in Active, InVisit' < InVisit
  PROVE  WalkLeft' < WalkLeft
<1>1. /\ MaxSteps - gxSteps \in Nat \ {0} /\ InVisit \in 1 .. 5
      /\ WalkLeft = 5 * (MaxSteps - gxSteps) + InVisit - 3
  BY WalkLeftType
<1>2. InVisit' \in 1 .. 5
  BY DEF InVisit
<1>3. WalkLeft' = 5 * (MaxSteps - gxSteps') + InVisit' - 3 /\ gxSteps' = gxSteps
  BY DEF WalkLeft, GxStay, Active, Over
<1> HIDE DEF InVisit
<1> QED
  BY <1>1, <1>2, <1>3

\* An attempt that fails leaves the walk where it was, with fewer failures to come.
LEMMA FaultLowers ==
  ASSUME GateInv, WalkInv, GxStay, UNCHANGED gxPhase, Fault
  PROVE  GxLeft' < GxLeft
<1>1. WalkLeft' = WalkLeft
  BY DEF GxStay, WalkLeft, InVisit
<1>2. /\ gxFaults' = gxFaults + 1 /\ gxFaults \in Nat /\ GxMaxFaults \in Nat
      /\ WalkLeft \in Nat
  BY WalkLeftType, GxAssumption DEF Fault
<1> QED
  BY <1>1, <1>2 DEF GxLeft

LEMMA QuietLowers ==
  ASSUME GateInv, WalkInv, UNCHANGED gxFaults, WalkLeft' \in Int, WalkLeft' < WalkLeft
  PROVE  GxLeft' < GxLeft
<1>1. WalkLeft \in 0 .. 5 * MaxSteps + 2 /\ MaxSteps \in Nat
      /\ gxFaults \in Nat /\ GxMaxFaults \in Nat
  BY WalkLeftType, GxAssumption
<1>2. /\ GxLeft = WalkLeft + (GxMaxFaults - gxFaults)
      /\ GxLeft' = WalkLeft' + (GxMaxFaults - gxFaults)
  BY DEF GxLeft
<1>3. WalkLeft \in Int
  BY <1>1
<1>4. \A a, b \in Int, m, f \in Nat : a < b => a + (m - f) < b + (m - f)
  OBVIOUS
<1> QED
  BY <1>1, <1>2, <1>3, <1>4, Zenon

LEMMA EngineLowers ==
  ASSUME GateInv, WalkInv, Engine \/ CancelRun
  PROVE  GxLeft' < GxLeft
<1> USE DEF Active
<1>0. WalkLeft' \in Int
  <2>1. GateInv' /\ WalkInv'
    BY GateStep, WalkStep DEF GxNext
  <2>2. gxSteps' \in Int /\ MaxSteps \in Int /\ InVisit' \in Int
    BY <2>1, GxAssumption DEF WalkInv, InVisit
  <2> QED
    BY <2>2 DEF WalkLeft
<1>1. CASE MissingNode \/ CancelRun
  <2>1. WalkLeft' = 0 /\ Running /\ UNCHANGED gxFaults
    BY <1>1 DEF MissingNode, CancelRun, Running, WalkLeft, Over
  <2> QED
    BY <1>0, <2>1, WalkLeftType, QuietLowers
<1>2. CASE RunPlainNode \/ RunRouter
  BY <1>0, <1>2, GoLowers, QuietLowers DEF RunPlainNode, RunRouter, AtNode
<1>3. CASE PreviewCode
  <2>1. gxPhase = "node" /\ UNCHANGED gxFaults
    BY <1>3 DEF PreviewCode, AtNode
  <2>2. CASE Go("default")
    BY <1>0, <2>1, <2>2, GoLowers, QuietLowers
  <2>3. CASE gxPhase' = "publish" /\ GxStay
    BY <1>0, <2>1, <2>3, VisitLowers, QuietLowers DEF InVisit
  <2> QED
    BY <1>3, <2>2, <2>3 DEF PreviewCode
<1>4. CASE ShowCode \/ WaitForApproval
  <2>1. CASE /\ GxStay /\ UNCHANGED gxFaults
             /\ \/ gxPhase = "publish" /\ gxPhase' = "published"
                \/ gxPhase = "published" /\ gxPhase' = "waiting"
    BY <1>0, <2>1, VisitLowers, QuietLowers DEF InVisit
  <2>2. CASE UNCHANGED gxPhase /\ Fault /\ GxStay
    BY <2>2, FaultLowers
  <2> QED
    BY <1>4, <2>1, <2>2 DEF ShowCode, WaitForApproval, Replies
<1>5. CASE Decide
  <2>0. gxPhase = "waiting" /\ UNCHANGED gxFaults
    BY <1>5 DEF Decide
  <2>1. CASE Go("default")
    BY <1>0, <2>0, <2>1, GoLowers, QuietLowers
  <2>2. CASE gxPhase' = "execute" /\ GxStay
    BY <1>0, <2>0, <2>2, VisitLowers, QuietLowers DEF InVisit
  <2> QED
    BY <1>5, <2>1, <2>2 DEF Decide
<1>6. CASE ExecuteCode
  <2>1. CASE Go("default") /\ UNCHANGED gxFaults
    BY <1>0, <1>6, <2>1, GoLowers, QuietLowers DEF ExecuteCode
  <2>2. CASE Fault /\ GxStay /\ UNCHANGED gxPhase
    BY <2>2, FaultLowers
  <2> QED
    BY <1>6, <2>1, <2>2 DEF ExecuteCode
<1>7. CASE OverrunCode \/ AttemptFails
  BY <1>7, FaultLowers DEF OverrunCode, AttemptFails
<1>8. CASE SaveTurn \/ AnnounceDone
  <2>1. GxStay
    BY <1>8 DEF SaveTurn, AnnounceDone
  <2>2. CASE UNCHANGED gxPhase /\ Fault
    BY <2>1, <2>2, FaultLowers
  <2>3. CASE gxPhase = "announce" /\ gxPhase' = "done" /\ UNCHANGED gxFaults
    <3>1. WalkLeft = 1 /\ WalkLeft' = 0
      BY <2>3 DEF WalkLeft, Over
    <3> QED
      BY <1>0, <2>3, <3>1, QuietLowers
  <2>4. CASE gxPhase \in {"save", "node"} /\ gxPhase' = "announce" /\ UNCHANGED gxFaults
    <3>1. WalkLeft' = 1
      BY <2>4 DEF WalkLeft, Over
    <3>2. CASE gxPhase = "save"
      <4>1. WalkLeft = 2
        BY <3>2 DEF WalkLeft, Over
      <4> QED
        BY <1>0, <2>4, <3>1, <4>1, QuietLowers
    <3>3. CASE gxPhase = "node"
      <4>1. MaxSteps - gxSteps \in Nat \ {0} /\ WalkLeft = 5 * (MaxSteps - gxSteps) + InVisit - 3
            /\ InVisit = 5
        BY <3>3, WalkLeftType DEF InVisit
      <4>2. WalkLeft > 1
        BY <4>1
      <4> QED
        BY <1>0, <2>4, <3>1, <4>2, QuietLowers
    <3> QED
      BY <2>4, <3>2, <3>3
  <2> QED
    BY <1>8, <2>2, <2>3, <2>4 DEF SaveTurn, AnnounceDone, Replies, AtNode
<1> QED
  BY <1>1, <1>2, <1>3, <1>4, <1>5, <1>6, <1>7, <1>8 DEF Engine

LEMMA NodesHandled ==
  ASSUME WalkInv
  PROVE  NodesAreHandled
<1> SUFFICES ASSUME gxAt \in NodeIdsOf(gxBp) PROVE Here.type \in NodeTypes
  BY DEF NodesAreHandled
<1>1. Here \in ToSet(gxBp.nodes)
  BY DEF Here, NodeIdsOf
<1>2. ConfigIsValid(Here)
  BY <1>1 DEF WalkInv, Validate
<1> QED
  BY <1>2 DEF ConfigIsValid, NodeTypes

\* A validated blueprint's run takes at most five steps for each node it may visit,
\* two to save and announce, and one for each attempt that fails, loops or not,
\* whatever models, tools and user do; and then it is over, stuck where a `next'
\* names no node, or waits for the user: every node it reaches has a branch.
THEOREM EngineStepsEnd ==
  GxSpec => [](GxLeft \in 0 .. 5 * MaxSteps + 2 + GxMaxFaults /\ NodesAreHandled) /\ EngineAdvances
<1>1. GateInv /\ WalkInv => GxLeft \in 0 .. 5 * MaxSteps + 2 + GxMaxFaults /\ NodesAreHandled
  <2> SUFFICES ASSUME GateInv, WalkInv
               PROVE  GxLeft \in 0 .. 5 * MaxSteps + 2 + GxMaxFaults /\ NodesAreHandled
    OBVIOUS
  <2>1. /\ WalkLeft \in 0 .. 5 * MaxSteps + 2 /\ MaxSteps \in Nat
        /\ gxFaults \in Nat /\ GxMaxFaults \in Nat /\ gxFaults <= GxMaxFaults
    BY WalkLeftType, GxAssumption
  <2>2. GxLeft \in 0 .. 5 * MaxSteps + 2 + GxMaxFaults
    BY <2>1 DEF GxLeft
  <2> QED
    BY <2>2, NodesHandled
<1>2. GateInv /\ WalkInv /\ [GxNext]_gxVars =>
        [IF Engine \/ CancelRun THEN GxLeft' < GxLeft ELSE GxLeft' = GxLeft]_gxVars
  <2>1. ASSUME NEW b \in BOOLEAN, Signal(b) \/ RunLate PROVE GxLeft' = GxLeft
    BY <2>1 DEF Signal, RunLate, GxStay, GxLeft, WalkLeft, InVisit
  <2> QED
    BY <2>1, EngineLowers DEF GxNext
<1> QED
  BY <1>1, <1>2, GateStarts, GateStep, WalkStarts, WalkStep, PTL DEF GxSpec, EngineAdvances

-----------------------------------------------------------------------------
\* The supervisor loops: a turn is six steps at most, and then the reply.

InTurn == CASE svPhase = "decide" -> 6 [] svPhase = "generate" -> 5
            [] svPhase = "waiting" -> 4 [] OTHER -> 3 - svTry
SvLeft == IF svPhase \in SvOver THEN 0 ELSE IF svPhase = "reply" THEN 1
          ELSE 6 * (SvMaxSteps[svKind] - svStep) + InTurn - 5

LoopAdvances ==
  [][IF SvWork THEN SvLeft' < SvLeft ELSE SvLeft' = SvLeft]_svVars

InLoop == {"decide", "generate", "waiting", "run"}
SvBounded ==
  /\ svKind \in Kinds /\ svPhase \in SupervisorPhases
  /\ svStep \in Nat /\ svStep <= SvMaxSteps[svKind]
  /\ svPhase \in InLoop => svStep < SvMaxSteps[svKind]
  /\ svTry \in 0 .. MaximumAttempts - 1 /\ (svPhase # "run" => svTry = 0)

LEMMA SvLeftType ==
  ASSUME SvBounded
  PROVE  /\ SvLeft \in 0 .. 6 * SvMaxSteps[svKind] + 1
         /\ SvMaxSteps[svKind] \in Nat \ {0}
         /\ svPhase \in InLoop => SvLeft = 6 * (SvMaxSteps[svKind] - svStep) + InTurn - 5
<1>1. SvMaxSteps[svKind] \in Nat \ {0} /\ svStep \in Nat /\ svStep <= SvMaxSteps[svKind]
  BY SvBounds DEF SvBounded
<1>2. InTurn \in 1 .. 6
  BY DEF InTurn, SvBounded, MaximumAttempts
<1>3. svPhase \in SvOver \cup {"reply"} \cup InLoop
  BY DEF SvBounded, SupervisorPhases, InLoop
<1> HIDE DEF InTurn
<1>4. CASE svPhase \in SvOver \cup {"reply"}
  BY <1>1, <1>4 DEF SvLeft, SvOver, InLoop
<1>5. CASE svPhase \in InLoop
  <2>1. svPhase \notin SvOver /\ svPhase # "reply"
    BY <1>5 DEF InLoop, SvOver
  <2> QED
    BY <1>1, <1>2, <1>5, <2>1 DEF SvLeft, SvBounded
<1> QED
  BY <1>3, <1>4, <1>5

LEMMA ReportLowers ==
  ASSUME SvBounded, svPhase \in InLoop, Report, svTry' = 0
  PROVE  SvBounded' /\ SvLeft' < SvLeft
<1> DEFINE M == SvMaxSteps[svKind]
<1>1. /\ M \in Nat \ {0} /\ svStep \in Nat /\ svStep < M /\ InTurn \in 1 .. 6
      /\ SvLeft = 6 * (M - svStep) + InTurn - 5
  BY SvLeftType DEF SvBounded, InTurn, MaximumAttempts
<1>2. svStep' = svStep + 1 /\ svKind' = svKind /\ SvMaxSteps[svKind]' = M
  BY DEF Report
<1> HIDE DEF M
<1>3. CASE svStep' = M
  <2>1. svPhase' = "limit"
    BY <1>2, <1>3 DEF Report, M
  <2>2. SvLeft' = 0
    BY <2>1 DEF SvLeft, SvOver
  <2>3. SvBounded'
    BY <1>1, <1>2, <1>3, <2>1 DEF SvBounded, InLoop, SupervisorPhases, SvOver, MaximumAttempts
  <2> QED
    BY <1>1, <2>2, <2>3
<1>4. CASE svStep' # M
  <2>1. svPhase' = "decide"
    BY <1>2, <1>4 DEF Report, M
  <2>2. SvLeft' = 6 * (M - svStep') + 1
    BY <1>2, <2>1 DEF SvLeft, SvOver, InTurn
  <2>3. SvBounded'
    BY <1>1, <1>2, <1>4, <2>1 DEF SvBounded, InLoop, SupervisorPhases, MaximumAttempts
  <2> QED
    BY <1>1, <1>2, <2>2, <2>3
<1> QED
  BY <1>3, <1>4

\* On to a later phase of the turn, or out of the loop.
LEMMA TurnLowers ==
  ASSUME SvBounded, UNCHANGED <<svKind, svStep>>, svPhase \in InLoop,
         svTry' \in 0 .. MaximumAttempts - 1, svPhase' # "run" => svTry' = 0,
         \/ svPhase' \in {"failed", "finished", "reply"}
         \/ svPhase' \in InLoop /\ InTurn' < InTurn
  PROVE  SvBounded' /\ SvLeft' < SvLeft
<1> DEFINE M == SvMaxSteps[svKind]
<1>1. /\ M \in Nat \ {0} /\ svStep \in Nat /\ svStep < M /\ InTurn \in 1 .. 6 /\ InTurn' \in 1 .. 6
      /\ SvLeft = 6 * (M - svStep) + InTurn - 5 /\ SvMaxSteps[svKind]' = M
  BY SvLeftType DEF SvBounded, InTurn, MaximumAttempts
<1>2. SvBounded'
  BY <1>1 DEF SvBounded, SupervisorPhases, SvOver, InLoop
<1>3. CASE svPhase' \in {"failed", "finished", "reply"}
  <2>1. SvLeft' \in {0, 1}
    BY <1>3 DEF SvLeft, SvOver
  <2> HIDE DEF InTurn, M
  <2> QED
    BY <1>1, <1>2, <2>1
<1>4. CASE svPhase' \in InLoop /\ InTurn' < InTurn
  <2>1. SvLeft' = 6 * (M - svStep) + InTurn' - 5
    BY <1>1, <1>4 DEF SvLeft, SvOver, InLoop
  <2>2. InTurn' < InTurn
    BY <1>4
  <2>3. M - svStep \in Nat
    BY <1>1
  <2>4. \A d \in Nat, a \in 1 .. 6, b \in 1 .. 6 : b < a => 6 * d + b - 5 < 6 * d + a - 5
    OBVIOUS
  <2> HIDE DEF InTurn, M
  <2>5. SvLeft' < SvLeft
    BY <1>1, <2>1, <2>2, <2>3, <2>4, Zenon
  <2> QED
    BY <1>2, <2>5
<1> QED
  BY <1>3, <1>4

LEMMA LoopLowers ==
  ASSUME SvBounded, SvWork
  PROVE  SvBounded' /\ SvLeft' < SvLeft
<1> USE DEF InLoop, MaximumAttempts
<1>0. svTry \in 0 .. 2 /\ (svPhase # "run" => svTry = 0)
  BY DEF SvBounded
<1>1. CASE DecideFails \/ ChooseFinish
  BY <1>0, <1>1, TurnLowers DEF DecideFails, ChooseFinish, At, Same, NoRun
<1>2. CASE ChooseWorker
  BY <1>0, <1>2, ReportLowers DEF ChooseWorker, Same, NoRun
<1>3. CASE ChooseCoder
  <2>1. svTry' = 0 /\ svPhase = "decide"
    BY <1>0, <1>3 DEF ChooseCoder, NoRun
  <2>2. At("waiting") \/ At("generate") \/ At("run")
    BY <1>3 DEF ChooseCoder, SvBounded, Kinds
  <2>3. InTurn' < InTurn
    BY <2>1, <2>2 DEF At, InTurn
  <2> QED
    BY <2>1, <2>2, <2>3, TurnLowers DEF At
<1>4. CASE GenerateCode
  <2>0. svTry' = 0 /\ svPhase = "generate"
    BY <1>0, <1>4 DEF GenerateCode, NoRun
  <2>1. CASE Report
    BY <2>0, <2>1, ReportLowers
  <2>2. CASE At("waiting")
    BY <2>0, <2>2, TurnLowers DEF At, InTurn
  <2> QED
    BY <1>4, <2>1, <2>2 DEF GenerateCode
<1>5. CASE ReceiveSignal
  <2>0. svTry' = 0 /\ svPhase = "waiting"
    BY <1>0, <1>5 DEF ReceiveSignal, NoRun
  <2>1. CASE Report
    BY <2>0, <2>1, ReportLowers
  <2>2. CASE At("run")
    <3>1. svPhase' = "run" /\ UNCHANGED <<svKind, svStep>>
      BY <2>2 DEF At
    <3>2. InTurn' < InTurn
      BY <2>0, <3>1 DEF InTurn
    <3> QED
      BY <2>0, <3>1, <3>2, TurnLowers
  <2> QED
    BY <1>5, <2>1, <2>2 DEF ReceiveSignal
<1>6. CASE RunCode
  <2>1. CASE Report /\ svTry' = 0
    BY <1>6, <2>1, ReportLowers DEF RunCode
  <2>2. CASE svTry + 1 < MaximumAttempts /\ svTry' = svTry + 1 /\ At("run")
    <3>1. /\ svPhase = "run" /\ svPhase' = "run" /\ UNCHANGED <<svKind, svStep>>
          /\ svTry' \in 0 .. 2
      BY <1>0, <1>6, <2>2 DEF RunCode, At
    <3>2. InTurn' < InTurn
      BY <1>0, <2>2, <3>1 DEF InTurn
    <3> QED
      BY <3>1, <3>2, TurnLowers
  <2> QED
    BY <1>6, <2>1, <2>2 DEF RunCode
<1>7. CASE FinalReply
  <2>1. /\ svPhase = "reply" /\ svPhase' \in {"finished", "failed"}
        /\ UNCHANGED <<svKind, svStep>> /\ svTry' = 0
    BY <1>0, <1>7 DEF FinalReply, Same, NoRun
  <2>2. SvLeft = 1 /\ SvLeft' = 0
    BY <2>1 DEF SvLeft, SvOver
  <2> QED
    BY <2>1, <2>2 DEF SvBounded, SupervisorPhases, SvOver
<1> QED
  BY <1>1, <1>2, <1>3, <1>4, <1>5, <1>6, <1>7 DEF SvWork

\* A supervisor's run takes at most six steps for each turn of its loop and one
\* for the reply, whatever the model names and however many signals arrive.
THEOREM LoopStepsEnd ==
  SvSpec => [](SvLeft \in 0 .. 6 * SvMaxSteps[svKind] + 1) /\ LoopAdvances
<1>1. SvInit => SvBounded
  <2> SUFFICES ASSUME SvInit PROVE SvBounded
    OBVIOUS
  <2>1. svKind \in Kinds /\ svStep = 0 /\ svPhase = "decide" /\ svTry = 0
    BY DEF SvInit
  <2>2. SvMaxSteps[svKind] \in Nat \ {0}
    BY <2>1, SvBounds
  <2> QED
    BY <2>1, <2>2 DEF SvBounded, SupervisorPhases, MaximumAttempts
<1>2. SvBounded /\ [SvNext]_svVars => SvBounded'
  <2>1. ASSUME UNCHANGED <<svKind, svStep, svPhase, svTry>>, SvBounded PROVE SvBounded'
    BY <2>1 DEF SvBounded
  <2> QED
    BY <2>1, LoopLowers DEF SvNext, SvSignal, NoRun, svVars
<1>3. SvBounded => SvLeft \in 0 .. 6 * SvMaxSteps[svKind] + 1
  BY SvLeftType
<1>4. SvBounded /\ [SvNext]_svVars =>
        [IF SvWork THEN SvLeft' < SvLeft ELSE SvLeft' = SvLeft]_svVars
  <2>1. ASSUME NEW b \in BOOLEAN, SvSignal(b) PROVE SvLeft' = SvLeft
    BY <2>1 DEF SvSignal, NoRun, SvLeft, InTurn
  <2> QED
    BY <2>1, LoopLowers DEF SvNext
<1> QED
  BY <1>1, <1>2, <1>3, <1>4, PTL DEF SvSpec, LoopAdvances
=============================================================================
