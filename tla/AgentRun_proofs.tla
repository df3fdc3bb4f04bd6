-------------------------- MODULE AgentRun_proofs --------------------------
(***************************************************************************)
(* Proofs about AgentRun, for every set of agents, every setup and any     *)
(* number of runs.  First what does not depend on what a conversation      *)
(* holds: what bounds the hand-offs, the nesting of the callbacks and the  *)
(* refinement of SessionLog.  There the fields of a frame that nothing is  *)
(* said of are left in some set M.  Then the conversations: types, what    *)
(* every prompt holds, and what a hand-off carries over.                   *)
(***************************************************************************)
EXTENDS AgentRun, SequenceLemmas, FiniteSetTheorems, SequenceTheorems, TLAPS

Names == DOMAIN setup.agent

Frames(M) ==
  [agent : Names, stage : Stages, session : M, msgs : M, turn : M,
   depth : Nat, calls : M, batch : M]

Events == [what : {"pre", "ended", "post"}, agent : Names]

ShapeOK ==
  /\ setup \in Setups
  /\ \E M : stack \in Seq(Frames(M))
  /\ "status" \in DOMAIN ret
  /\ ret.status \in {"none", "error", "ok"}
  /\ log \in Seq(Events)

-----------------------------------------------------------------------------
(* The three things a step does to the stack.                              *)

LEMMA TopIsFrame ==
  ASSUME ShapeOK, stack # <<>>
  PROVE  /\ Len(stack) \in Nat \ {0}
         /\ Top = stack[Len(stack)]
         /\ Top.agent \in Names
         /\ Top.depth \in Nat
<1>1. PICK M : stack \in Seq(Frames(M))
  BY DEF ShapeOK
<1>2. Len(stack) \in Nat \ {0} /\ stack[Len(stack)] \in Frames(M)
  BY <1>1
<1>3. QED
  BY <1>2 DEF Top, Last, Frames

(* The last frame moves, and stays the frame of its agent at its depth.    *)
TopMoves(f) ==
  /\ stack # <<>>
  /\ SetTop(f)
  /\ \E M : f \in Frames(M)
  /\ f.agent = Top.agent
  /\ f.depth = Top.depth
  /\ setup' = setup

LEMMA TopMovesShape ==
  ASSUME ShapeOK, NEW f, TopMoves(f)
  PROVE  /\ \E M : stack' \in Seq(Frames(M)')
         /\ Len(stack') = Len(stack)
         /\ stack' # <<>>
         /\ \A i \in 1..Len(stack) :
              stack'[i].agent = stack[i].agent /\ stack'[i].depth = stack[i].depth
         /\ Top' = f
<1>1. PICK M : stack \in Seq(Frames(M))
  BY DEF ShapeOK
<1>a. PICK K : f \in Frames(K)
  BY DEF TopMoves
<1> DEFINE N == M \union K
<1>2. /\ Len(stack) \in Nat \ {0}
      /\ Top = stack[Len(stack)]
      /\ Top \in Frames(M)
  BY <1>1 DEF TopMoves, Top, Last
<1>3. Frames(M) \subseteq Frames(N)
  BY DEF Frames
<1>4. stack \in Seq(Frames(N))
  BY <1>1, <1>3, SeqMonotonic
<1>5. f \in Frames(N) /\ f.agent = Top.agent /\ f.depth = Top.depth
  BY <1>2, <1>a DEF TopMoves, Frames
<1>6. stack' = [stack EXCEPT ![Len(stack)] = f]
  BY DEF TopMoves, SetTop
<1> HIDE DEF N
<1>7. /\ stack' \in Seq(Frames(N))
      /\ Len(stack') = Len(stack)
      /\ \A i \in 1..Len(stack) : stack'[i] = IF i = Len(stack) THEN f ELSE stack[i]
  BY <1>2, <1>4, <1>5, <1>6, ExceptSeq
<1>8. Frames(N)' = Frames(N)
  BY DEF TopMoves, Frames, Names
<1>9. Top' = f /\ stack' # <<>>
  BY <1>2, <1>7 DEF Top, Last
<1>10. \A i \in 1..Len(stack) :
         stack'[i].agent = stack[i].agent /\ stack'[i].depth = stack[i].depth
  BY <1>2, <1>5, <1>7
<1>11. QED
  BY <1>7, <1>8, <1>9, <1>10

(* run is called: a frame is added to a stack that keeps its agents.       *)
LEMMA AppendShape ==
  ASSUME NEW M, NEW s \in Seq(Frames(M)), NEW agent \in Names, NEW history,
         NEW depth \in Nat, setup' = setup,
         stack' = Append(s, Frame(agent, history, depth))
  PROVE  /\ \E N : stack' \in Seq(Frames(N)')
         /\ Len(stack') = Len(s) + 1
         /\ stack' # <<>>
         /\ \A i \in 1..Len(s) : stack'[i] = s[i]
         /\ stack'[Len(s) + 1] = Frame(agent, history, depth)
         /\ Top' = Frame(agent, history, depth)
<1> DEFINE N == M \union {0, <<>>, history}
<1>1. Frames(M) \subseteq Frames(N)
  BY DEF Frames
<1>2. s \in Seq(Frames(N))
  BY <1>1, SeqMonotonic
<1>3. Frame(agent, history, depth) \in Frames(N)
  BY DEF Frame, Frames, Stages
<1> HIDE DEF N
<1>4. /\ stack' \in Seq(Frames(N))
      /\ stack' # <<>>
      /\ Len(stack') = Len(s) + 1
      /\ \A i \in 1..Len(s) : stack'[i] = s[i]
      /\ stack'[Len(s) + 1] = Frame(agent, history, depth)
  BY <1>2, <1>3, AppendProperties
<1>5. Frames(N)' = Frames(N)
  BY DEF Frames, Names
<1>6. Top' = stack'[Len(stack')]
  BY DEF Top, Last
<1>7. QED
  BY <1>4, <1>5, <1>6

(* run returns: the last frame goes.                                       *)
LEMMA FrontShape ==
  ASSUME ShapeOK, stack # <<>>, stack' = Front(stack), setup' = setup
  PROVE  /\ \E M : stack' \in Seq(Frames(M)')
         /\ Len(stack') = Len(stack) - 1
         /\ Len(stack) = 1 <=> stack' = <<>>
         /\ \A i \in 1..(Len(stack) - 1) : stack'[i] = stack[i]
<1>1. PICK M : stack \in Seq(Frames(M))
  BY DEF ShapeOK
<1>2. Len(stack) \in Nat \ {0}
  BY <1>1
<1>3. stack' = SubSeq(stack, 1, Len(stack) - 1)
  BY DEF Front
<1>4. \A i \in 1..(Len(stack) - 1) : stack[i] \in Frames(M)
  BY <1>1, <1>2, ElementOfSeq
<1>5. /\ stack' \in Seq(Frames(M))
      /\ Len(stack') = Len(stack) - 1
      /\ \A i \in 1..(Len(stack) - 1) : stack'[i] = stack[i]
  <2> DEFINE n == Len(stack) - 1
  <2>1. n \in Nat /\ stack' = SubSeq(stack, 1, n) /\ \A i \in 1..n : stack[i] \in Frames(M)
    BY <1>2, <1>3, <1>4
  <2> HIDE DEF n
  <2> DEFINE F == Frames(M)
  <2>2. \A i \in 1..n : stack[i] \in F
    BY <2>1
  <2> HIDE DEF F
  <2>3. /\ SubSeq(stack, 1, n) \in Seq(F)
        /\ Len(SubSeq(stack, 1, n)) = IF 1 <= n THEN n - 1 + 1 ELSE 0
        /\ \A i \in 1..(n - 1 + 1) : SubSeq(stack, 1, n)[i] = stack[1 + i - 1]
    BY <2>1, <2>2, SubSeqProperties
  <2>4. /\ stack' \in Seq(F)
        /\ Len(stack') = n
        /\ \A i \in 1..n : stack'[i] = stack[i]
    BY <2>1, <2>3
  <2>5. QED
    BY <2>4 DEF n, F
<1>6. Frames(M)' = Frames(M)
  BY DEF Frames, Names
<1>7. Len(stack) = 1 <=> stack' = <<>>
  BY <1>2, <1>5, EmptySeq
<1>8. QED
  BY <1>5, <1>6, <1>7

(* The steps that move the last frame, and those that leave the stack.     *)
LEMMA TopSteps ==
  ASSUME ShapeOK,
         Begin \/ SendPrompt \/ FinalAnswer \/ RequestTools \/ MinutePasses \/ ExecuteBatch
  PROVE  \E f : TopMoves(f) /\ f.stage \in Stages \ {"entering"}
<1>1. stack # <<>>
  BY DEF Begin, SendPrompt, FinalAnswer, RequestTools, MinutePasses, ExecuteBatch, At, Running
<1>2. PICK M : stack \in Seq(Frames(M))
  BY DEF ShapeOK
<1>3. Top \in Frames(M)
  BY <1>1, <1>2, ElementOfSeq DEF Top, Last
<1>4. CASE Begin
  <2>1. PICK readable \in Succeeds("load") :
          LET s == IF setup.session THEN 0 ELSE sessions'
          IN  SetTop([Top EXCEPT
                !.stage = "turn",
                !.session = s,
                !.msgs = SystemPrompt \o Recalled(s, readable) \o External
                           \o <<Message("user", Top.agent, llm, setup.size)>>])
    BY <1>4 DEF Begin
  <2> DEFINE s == IF setup.session THEN 0 ELSE sessions'
             msgs == SystemPrompt \o Recalled(s, readable) \o External
                       \o <<Message("user", Top.agent, llm, setup.size)>>
             f == [Top EXCEPT !.stage = "turn", !.session = s, !.msgs = msgs]
  <2>2. SetTop(f) /\ setup' = setup
    BY <1>4, <2>1 DEF Begin
  <2> HIDE DEF s, msgs
  <2>3. f \in Frames(M \union {s, msgs})
    BY <1>3 DEF Frames, Stages
  <2>4. f.agent = Top.agent /\ f.depth = Top.depth /\ f.stage = "turn"
    BY <1>3 DEF Frames
  <2> HIDE DEF f
  <2>5. QED
    BY <1>1, <2>2, <2>3, <2>4 DEF TopMoves, Stages
<1>5. CASE SendPrompt
  <2>1. PICK summarized \in Succeeds("summary") :
          SetTop([Top EXCEPT !.stage = "asked", !.msgs = ManageContext(Top, summarized)])
    BY <1>5 DEF SendPrompt
  <2> DEFINE msgs == ManageContext(Top, summarized)
             f == [Top EXCEPT !.stage = "asked", !.msgs = msgs]
  <2>2. SetTop(f) /\ setup' = setup
    BY <1>5, <2>1 DEF SendPrompt
  <2> HIDE DEF msgs
  <2>3. f \in Frames(M \union {msgs})
    BY <1>3 DEF Frames, Stages
  <2>4. f.agent = Top.agent /\ f.depth = Top.depth /\ f.stage = "asked"
    BY <1>3 DEF Frames
  <2> HIDE DEF f
  <2>5. QED
    BY <1>1, <2>2, <2>3, <2>4 DEF TopMoves, Stages
<1>6. CASE FinalAnswer
  <2> DEFINE f == [Top EXCEPT !.msgs = Answered]
  <2>2. SetTop(f) /\ setup' = setup /\ Top.stage = "asked"
    BY <1>6 DEF FinalAnswer, At
  <2>3. f \in Frames(M \union {Answered})
    BY <1>3 DEF Frames
  <2>4. f.agent = Top.agent /\ f.depth = Top.depth /\ f.stage = "asked"
    BY <1>3, <2>2 DEF Frames
  <2> HIDE DEF f
  <2>5. QED
    BY <1>1, <2>2, <2>3, <2>4 DEF TopMoves, Stages
<1>7. CASE RequestTools
  <2>1. PICK batch \in setup.batches, minuteOver \in BOOLEAN :
          LET limit == Config(Top).rateLimit
              calls == (IF minuteOver THEN 0 ELSE Top.calls) + Len(batch)
          IN  SetTop([Top EXCEPT
                !.stage = IF limit > 0 /\ calls > limit THEN "throttled" ELSE "batch",
                !.calls = IF limit > 0 THEN calls ELSE 0,
                !.batch = batch,
                !.msgs  = Requested])
    BY <1>7 DEF RequestTools
  <2> DEFINE limit == Config(Top).rateLimit
             counted == (IF minuteOver THEN 0 ELSE Top.calls) + Len(batch)
             stage == IF limit > 0 /\ counted > limit THEN "throttled" ELSE "batch"
             calls == IF limit > 0 THEN counted ELSE 0
             f == [Top EXCEPT !.stage = stage, !.calls = calls, !.batch = batch,
                              !.msgs = Requested]
  <2>2. SetTop(f) /\ setup' = setup
    BY <1>7, <2>1 DEF RequestTools
  <2>3. stage \in Stages \ {"entering"}
    BY DEF Stages
  <2> HIDE DEF limit, counted, stage, calls
  <2>4. f \in Frames(M \union {calls, batch, Requested})
    BY <1>3, <2>3 DEF Frames
  <2>5. f.agent = Top.agent /\ f.depth = Top.depth /\ f.stage = stage
    BY <1>3 DEF Frames
  <2> HIDE DEF f
  <2>6. QED
    BY <1>1, <2>2, <2>3, <2>4, <2>5 DEF TopMoves
<1>8. CASE MinutePasses
  <2> DEFINE f == [Top EXCEPT !.stage = "batch", !.calls = Len(Top.batch)]
  <2>2. SetTop(f) /\ setup' = setup
    BY <1>8 DEF MinutePasses
  <2>3. f \in Frames(M \union {Len(Top.batch)})
    BY <1>3 DEF Frames, Stages
  <2>4. f.agent = Top.agent /\ f.depth = Top.depth /\ f.stage = "batch"
    BY <1>3 DEF Frames
  <2> HIDE DEF f
  <2>5. QED
    BY <1>1, <2>2, <2>3, <2>4 DEF TopMoves, Stages
<1>9. CASE ExecuteBatch
  <2>1. PICK size \in setup.sizes :
          SetTop([Top EXCEPT
            !.stage = "turn",
            !.turn  = Top.turn + 1,
            !.batch = <<>>,
            !.msgs  = Top.msgs \o Results(Top, Len(Top.batch), size)])
    BY <1>9 DEF ExecuteBatch
  <2> DEFINE msgs == Top.msgs \o Results(Top, Len(Top.batch), size)
             f == [Top EXCEPT !.stage = "turn", !.turn = Top.turn + 1,
                              !.batch = <<>>, !.msgs = msgs]
  <2>2. SetTop(f) /\ setup' = setup
    BY <1>9, <2>1 DEF ExecuteBatch
  <2> HIDE DEF msgs
  <2>3. f \in Frames(M \union {Top.turn + 1, <<>>, msgs})
    BY <1>3 DEF Frames, Stages
  <2>4. f.agent = Top.agent /\ f.depth = Top.depth /\ f.stage = "turn"
    BY <1>3 DEF Frames
  <2> HIDE DEF f
  <2>5. QED
    BY <1>1, <2>2, <2>3, <2>4 DEF TopMoves, Stages
<1>10. QED
  BY SMTT(40), <1>4, <1>5, <1>6, <1>7, <1>8, <1>9

(* The steps by which the innermost run gives up.                          *)
GivesUp ==
  \/ RefuseByHook
  \/ Refuse
  \/ ExceedTurns
  \/ ProviderFails
  \/ OutputRefused
  \/ CancelledWhileThrottled
  \/ ExceedDepth

(* The steps of the loop that end nothing.                                 *)
GoesOn == SendPrompt \/ RequestTools \/ MinutePasses \/ ExecuteBatch

LEMMA StepCases == Step <=> GivesUp \/ GoesOn \/ Begin \/ FinalAnswer \/ HandOff \/ Return
BY DEF Step, GivesUp, GoesOn

LEMMA GivesUpEffect ==
  ASSUME ShapeOK, GivesUp
  PROVE  /\ Running
         /\ UNCHANGED <<setup, stack, store, memory>>
         /\ "status" \in DOMAIN ret' /\ ret'.status = "error"
         /\ \/ log' = log
            \/ log' = Append(log, Event("pre", Top.agent))
            \/ log' = Append(log, Event("ended", Top.agent))
<1>1. \A reason : ReturnError(reason) =>
        "status" \in DOMAIN ret' /\ ret'.status = "error"
  BY DEF ReturnError, NoResult
<1>2. QED
  BY <1>1 DEF GivesUp, RefuseByHook, Refuse, EnterRun, ExceedTurns, ProviderFails,
              OutputRefused, CancelledWhileThrottled, ExceedDepth, At

LEMMA GoesOnEffect ==
  ASSUME ShapeOK, GoesOn
  PROVE  /\ Running
         /\ UNCHANGED <<setup, ret, store, memory, log>>
         /\ Top.stage # "entering"
         /\ \E f : TopMoves(f) /\ f.stage # "entering"
<1>1. \E f : TopMoves(f) /\ f.stage # "entering"
  BY TopSteps DEF GoesOn
<1>2. QED
  BY <1>1 DEF GoesOn, SendPrompt, RequestTools, MinutePasses, ExecuteBatch, At

LEMMA ConfigType ==
  ASSUME ShapeOK, NEW a \in Names
  PROVE  /\ setup.agent[a].depthLimit \in Nat
         /\ setup.agent[a].handoffs \subseteq Names
         /\ setup.root \in Names
<1>1. IsSetup(setup)
  BY SetupsAssumption DEF ShapeOK
<1>2. setup.agent[a] \in AgentConfigs(Names)
  BY <1>1 DEF IsSetup, Names
<1>3. QED
  BY <1>1, <1>2 DEF IsSetup, AgentConfigs, Names

(* A hand-off adds the frame of a target to the agents on the stack.       *)
LEMMA HandOffEffect ==
  ASSUME ShapeOK, HandOff
  PROVE  /\ Running /\ Top.stage = "batch" /\ ~DepthExceeded(Top)
         /\ UNCHANGED <<setup, ret, store, memory, log>>
         /\ \E M : stack' \in Seq(Frames(M)')
         /\ Len(stack') = Len(stack) + 1
         /\ stack' # <<>>
         /\ \A i \in 1..Len(stack) :
              stack'[i].agent = stack[i].agent /\ stack'[i].depth = stack[i].depth
         /\ Top'.stage = "entering"
         /\ Top'.agent \in Names
         /\ Top'.depth = NextDepth(Top)
<1>1. /\ Running /\ Top.stage = "batch" /\ ~DepthExceeded(Top)
      /\ stack # <<>>
      /\ UNCHANGED <<setup, ret, store, memory, log>>
  BY DEF HandOff, At, Running
<1>2. PICK M : stack \in Seq(Frames(M))
  BY DEF ShapeOK
<1>3. Len(stack) \in Nat \ {0} /\ Top = stack[Len(stack)] /\ Top \in Frames(M)
  BY <1>1, <1>2 DEF Top, Last
<1>4. PICK k \in Handoffs(Top), size \in setup.sizes :
        LET msgs == Top.msgs \o Results(Top, k - 1, size)
        IN  stack' = Append(
              [stack EXCEPT ![Len(stack)] =
                 [Top EXCEPT !.stage = "handedOff", !.msgs = msgs]],
              Frame(Top.batch[k], HandedOver(msgs, Config(Top).history), NextDepth(Top)))
  BY DEF HandOff
<1> DEFINE msgs == Top.msgs \o Results(Top, k - 1, size)
           f == [Top EXCEPT !.stage = "handedOff", !.msgs = msgs]
           history == HandedOver(msgs, Config(Top).history)
           s == [stack EXCEPT ![Len(stack)] = f]
           N == M \union {msgs}
<1>5. stack' = Append(s, Frame(Top.batch[k], history, NextDepth(Top)))
  BY <1>4
<1>6. Top.batch[k] \in Names
  BY <1>3, ConfigType DEF Handoffs, Config, Frames
<1>7. NextDepth(Top) \in Nat
  BY <1>3 DEF NextDepth, Frames
<1> HIDE DEF msgs, history
<1>8. f \in Frames(N) /\ f.agent = Top.agent /\ f.depth = Top.depth
  BY <1>3 DEF Frames, Stages
<1>9. stack \in Seq(Frames(N))
  <2>1. Frames(M) \subseteq Frames(N)
    BY DEF Frames
  <2>2. QED
    BY <1>2, <2>1, SeqMonotonic
<1> HIDE DEF f, N
<1>10. /\ s \in Seq(Frames(N))
       /\ Len(s) = Len(stack)
       /\ \A i \in 1..Len(stack) : s[i] = IF i = Len(stack) THEN f ELSE stack[i]
  BY <1>3, <1>8, <1>9, ExceptSeq
<1>11. \A i \in 1..Len(stack) : s[i].agent = stack[i].agent /\ s[i].depth = stack[i].depth
  BY <1>3, <1>8, <1>10
<1> HIDE DEF s
<1>12. /\ \E K : stack' \in Seq(Frames(K)')
       /\ Len(stack') = Len(s) + 1
       /\ stack' # <<>>
       /\ \A i \in 1..Len(s) : stack'[i] = s[i]
       /\ Top' = Frame(Top.batch[k], history, NextDepth(Top))
  BY <1>1, <1>5, <1>6, <1>7, <1>10, AppendShape
<1>13. /\ Top'.stage = "entering"
       /\ Top'.agent = Top.batch[k]
       /\ Top'.depth = NextDepth(Top)
  BY <1>12 DEF Frame
<1>14. QED
  BY <1>1, <1>6, <1>10, <1>11, <1>12, <1>13

LEMMA RunEffect ==
  ASSUME ShapeOK, Run
  PROVE  /\ stack = <<>>
         /\ UNCHANGED <<setup, store, memory>>
         /\ ret' = NoResult
         /\ log' = <<>>
         /\ \E M : stack' \in Seq(Frames(M)')
         /\ Len(stack') = 1
         /\ stack' # <<>>
         /\ Top'.stage = "entering"
         /\ Top'.depth = 0
<1> DEFINE M == {0}
<1>1. /\ stack = <<>>
      /\ UNCHANGED <<setup, store, memory>>
      /\ ret' = NoResult
      /\ log' = <<>>
      /\ stack' = <<Frame(setup.root, setup.history, 0)>>
  BY DEF Run
<1>2. <<>> \in Seq(Frames(M)) /\ Len(<<>>) = 0
  OBVIOUS
<1>3. <<Frame(setup.root, setup.history, 0)>>
        = Append(<<>>, Frame(setup.root, setup.history, 0))
  OBVIOUS
<1>4. setup.root \in Names
  BY SetupsAssumption DEF ShapeOK, IsSetup, Names
<1> HIDE DEF M
<1> DEFINE root == setup.root
           history == setup.history
           empty == <<>>
<1>5. /\ root \in Names
      /\ empty \in Seq(Frames(M))
      /\ setup' = setup
      /\ stack' = Append(empty, Frame(root, history, 0))
  BY <1>1, <1>2, <1>3, <1>4
<1> HIDE DEF root, history, empty
<1>6. /\ \E K : stack' \in Seq(Frames(K)')
      /\ Len(stack') = Len(empty) + 1
      /\ stack' # <<>>
      /\ Top' = Frame(root, history, 0)
  BY <1>5, AppendShape
<1>7. QED
  BY <1>1, <1>2, <1>6 DEF Frame, empty

LEMMA ReturnEffect ==
  ASSUME ShapeOK, Return
  PROVE  /\ stack # <<>> /\ ret.status # "none"
         /\ UNCHANGED <<setup, store, memory>>
         /\ "status" \in DOMAIN ret' /\ ret'.status = ret.status
         /\ stack' = Front(stack)
         /\ Len(stack) = 1 \/ ret.status # "ok" => log' = log
         /\ Len(stack) # 1 /\ ret.status = "ok" =>
              log' = log \o <<Event("ended", stack[Len(stack) - 1].agent),
                              Event("post", stack[Len(stack) - 1].agent)>>
<1>1. "status" \in DOMAIN ret
  BY DEF ShapeOK
<1>2. log \in Seq(Events)
  BY DEF ShapeOK
<1>3. log \o <<>> = log
  BY <1>2
<1>4. QED
  BY <1>1, <1>3 DEF Return, Unwound

LEMMA BeginEffect ==
  ASSUME ShapeOK, Begin
  PROVE  /\ Running
         /\ Top.stage = "entering"
         /\ UNCHANGED <<setup, ret, store, memory>>
         /\ log' = Append(log, Event("pre", Top.agent))
         /\ \E f : TopMoves(f) /\ f.stage # "entering"
<1>1. \E f : TopMoves(f) /\ f.stage # "entering"
  BY TopSteps
<1>2. QED
  BY <1>1 DEF Begin, At, EnterRun

LEMMA FinalAnswerEffect ==
  ASSUME ShapeOK, FinalAnswer
  PROVE  /\ Running
         /\ Top.stage = "asked"
         /\ setup' = setup
         /\ "status" \in DOMAIN ret' /\ ret'.status = "ok"
         /\ log' = log \o <<Event("ended", Top.agent), Event("post", Top.agent)>>
         /\ \E f : TopMoves(f)
<1>1. \E f : TopMoves(f)
  BY TopSteps
<1>2. QED
  BY <1>1 DEF FinalAnswer, At, NoResult

-----------------------------------------------------------------------------
LEMMA EventType ==
  ASSUME NEW a \in Names, NEW what \in {"pre", "ended", "post"}
  PROVE  Event(what, a) \in Events
BY DEF Event, Events

(* The agents of the stack and the events of the log stay in their sets.   *)
LEMMA ShapeInvariant == ShapeOK /\ [Next]_vars => ShapeOK'
<1> SUFFICES ASSUME ShapeOK, [Next]_vars PROVE ShapeOK'
  OBVIOUS
<1>1. setup' = setup => Events' = Events /\ Names' = Names
  BY DEF Events, Names
<1>2. log \in Seq(Events) /\ ret.status \in {"none", "error", "ok"}
  BY DEF ShapeOK
<1>3. \A e \in Events : Append(log, e) \in Seq(Events)
  BY <1>2
<1>4. \A d, e \in Events : log \o <<d, e>> \in Seq(Events)
  BY <1>2
<1>5. \A i \in 1..Len(stack) : stack # <<>> => stack[i].agent \in Names
  <2>1. PICK M : stack \in Seq(Frames(M))
    BY DEF ShapeOK
  <2>2. \A i \in 1..Len(stack) : stack[i] \in Frames(M)
    BY <2>1, ElementOfSeq
  <2>3. QED
    BY <2>2 DEF Frames
<1>6. CASE Run
  <2>1. log' \in Seq(Events')
    BY <1>6, RunEffect
  <2>a. "status" \in DOMAIN NoResult /\ NoResult.status = "none"
    BY DEF NoResult
  <2>b. ret' = NoResult
    BY <1>6, RunEffect
  <2>2. "status" \in DOMAIN ret' /\ ret'.status = "none"
    BY <2>a, <2>b
  <2>3. setup' = setup /\ \E M : stack' \in Seq(Frames(M)')
    BY <1>6, RunEffect
  <2>4. QED
    BY <1>1, <2>1, <2>2, <2>3 DEF ShapeOK
<1>7. CASE GivesUp
  <2>1. /\ Running /\ UNCHANGED <<setup, stack>>
        /\ "status" \in DOMAIN ret' /\ ret'.status = "error"
        /\ \/ log' = log
           \/ log' = Append(log, Event("pre", Top.agent))
           \/ log' = Append(log, Event("ended", Top.agent))
    BY <1>7, GivesUpEffect
  <2>2. Top.agent \in Names
    BY <2>1, TopIsFrame DEF Running
  <2>3. log' \in Seq(Events)
    BY <2>1, <2>2, <1>2, <1>3, EventType
  <2>4. \A M : Frames(M)' = Frames(M)
    BY <2>1 DEF Frames, Names
  <2>5. QED
    BY <1>1, <2>1, <2>3, <2>4 DEF ShapeOK
<1>8. CASE GoesOn
  <2>1. UNCHANGED <<setup, ret, log>> /\ \E f : TopMoves(f)
    BY <1>8, GoesOnEffect
  <2>2. \E M : stack' \in Seq(Frames(M)')
    BY <2>1, TopMovesShape
  <2>3. QED
    BY <1>1, <2>1, <2>2 DEF ShapeOK
<1>9. CASE Begin
  <2>1. /\ Running /\ UNCHANGED <<setup, ret>> /\ \E f : TopMoves(f)
        /\ log' = Append(log, Event("pre", Top.agent))
    BY <1>9, BeginEffect
  <2>2. \E M : stack' \in Seq(Frames(M)')
    BY <2>1, TopMovesShape
  <2>3. Top.agent \in Names
    BY <2>1, TopIsFrame DEF Running
  <2>4. log' \in Seq(Events)
    BY <2>1, <2>3, <1>3, EventType
  <2>5. QED
    BY <1>1, <2>1, <2>2, <2>4 DEF ShapeOK
<1>10. CASE FinalAnswer
  <2>1. /\ Running /\ setup' = setup /\ \E f : TopMoves(f)
        /\ "status" \in DOMAIN ret' /\ ret'.status = "ok"
        /\ log' = log \o <<Event("ended", Top.agent), Event("post", Top.agent)>>
    BY <1>10, FinalAnswerEffect
  <2>2. \E M : stack' \in Seq(Frames(M)')
    BY <2>1, TopMovesShape
  <2>3. Top.agent \in Names
    BY <2>1, TopIsFrame DEF Running
  <2>4. log' \in Seq(Events)
    BY <2>1, <2>3, <1>4, EventType
  <2>5. QED
    BY <1>1, <2>1, <2>2, <2>4 DEF ShapeOK
<1>11. CASE HandOff
  <2>1. /\ UNCHANGED <<setup, ret, log>>
        /\ \E M : stack' \in Seq(Frames(M)')
    BY <1>11, HandOffEffect
  <2>2. QED
    BY <1>1, <2>1 DEF ShapeOK
<1>12. CASE Return
  <2>1. \E M : stack' \in Seq(Frames(M)')
    BY <1>12, ReturnEffect, FrontShape
  <2>2. Len(stack) \in Nat \ {0}
    BY <1>12, ReturnEffect, TopIsFrame
  <2>3. log' \in Seq(Events)
    <3>1. CASE Len(stack) = 1 \/ ret.status # "ok"
      BY <1>12, <3>1, <1>2, ReturnEffect
    <3>2. CASE Len(stack) # 1 /\ ret.status = "ok"
      <4>1. stack[Len(stack) - 1].agent \in Names
        <5>1. stack # <<>>
          BY <1>12, ReturnEffect
        <5>2. Len(stack) - 1 \in 1..Len(stack)
          <6>1. Len(stack) # 1
            BY <3>2
          <6>2. QED
            BY <6>1, <2>2
        <5>3. QED
          BY <1>5, <5>1, <5>2
      <4>2. QED
        BY <1>12, <3>2, <4>1, <1>4, ReturnEffect, EventType
    <3>3. QED
      BY <3>1, <3>2
  <2>4. QED
    BY <1>1, <1>2, <1>12, <2>1, <2>3, ReturnEffect DEF ShapeOK
<1>13. CASE UNCHANGED vars
  <2>1. \A M : Frames(M)' = Frames(M)
    BY <1>13 DEF vars, Frames, Names
  <2>2. QED
    BY <1>1, <1>13, <2>1 DEF vars, ShapeOK
<1>14. QED
  BY <1>6, <1>7, <1>8, <1>9, <1>10, <1>11, <1>12, <1>13, StepCases DEF Next

-----------------------------------------------------------------------------
(* The depth a frame finds in its context is the number of agents with a   *)
(* limit below it, and a frame that has handed off was below its limit.    *)
DepthInv ==
  /\ \A i \in 1..Len(stack) : stack[i].depth = Cardinality(LimitedBelow(i))
  /\ \A i \in 1..(Len(stack) - 1) :
       Config(stack[i]).depthLimit > 0 => stack[i].depth < Config(stack[i]).depthLimit

(* The first n frames are those of the same agents as before.              *)
SameBelow(n) ==
  /\ setup' = setup
  /\ n <= Len(stack)
  /\ n <= Len(stack')
  /\ \A i \in 1..n :
       stack'[i].agent = stack[i].agent /\ stack'[i].depth = stack[i].depth

LEMMA SameBelowKeeps ==
  ASSUME NEW n \in Nat, SameBelow(n), Len(stack) \in Nat, Len(stack') \in Nat
  PROVE  \A i \in 1..n : /\ LimitedBelow(i)' = LimitedBelow(i)
                         /\ Config(stack[i])' = Config(stack[i])
                         /\ stack'[i].depth = stack[i].depth
<1>1. \A i \in 1..n : Config(stack[i])' = Config(stack[i])
  BY DEF SameBelow, Config
<1>2. ASSUME NEW i \in 1..n
      PROVE  LimitedBelow(i)' = LimitedBelow(i)
  <2>1. \A j \in 1..(i - 1) : j \in 1..n
    OBVIOUS
  <2>2. QED
    BY <1>1, <2>1 DEF LimitedBelow
<1>3. QED
  BY <1>1, <1>2 DEF SameBelow

LEMMA LimitedBelowFinite ==
  ASSUME NEW i \in Nat
  PROVE  IsFiniteSet(LimitedBelow(i)) /\ Cardinality(LimitedBelow(i)) \in Nat
<1>1. IsFiniteSet(1..(i - 1))
  BY FS_Interval
<1>2. LimitedBelow(i) \subseteq 1..(i - 1)
  BY DEF LimitedBelow
<1>3. QED
  BY <1>1, <1>2, FS_Subset, FS_CardinalityType

LEMMA StackLength ==
  ASSUME ShapeOK
  PROVE  /\ Len(stack) \in Nat
         /\ Len(stack) = 0 <=> stack = <<>>
<1>1. PICK M : stack \in Seq(Frames(M))
  BY DEF ShapeOK
<1>2. QED
  BY <1>1

LEMMA NextStackLength ==
  ASSUME ShapeOK'
  PROVE  /\ Len(stack') \in Nat
         /\ Len(stack') = 0 <=> stack' = <<>>
<1>1. PICK M : stack' \in Seq(Frames(M)')
  BY DEF ShapeOK
<1>2. QED
  BY <1>1

(* A stack that does not grow keeps the account.                           *)
LEMMA ShrinkKeepsDepth ==
  ASSUME DepthInv, Len(stack) \in Nat, Len(stack') \in Nat, SameBelow(Len(stack'))
  PROVE  DepthInv'
<1> DEFINE n == Len(stack')
<1>1. n \in Nat /\ n <= Len(stack)
  BY DEF SameBelow
<1>2. \A i \in 1..n : /\ LimitedBelow(i)' = LimitedBelow(i)
                      /\ Config(stack[i])' = Config(stack[i])
                      /\ stack'[i].depth = stack[i].depth
  BY SameBelowKeeps
<1>3. \A i \in 1..n : i \in 1..Len(stack)
  BY <1>1
<1>4. \A i \in 1..(n - 1) : i \in 1..n /\ i \in 1..(Len(stack) - 1)
  BY <1>1
<1>5. \A i \in 1..n : stack'[i].depth = Cardinality(LimitedBelow(i)')
  BY <1>2, <1>3 DEF DepthInv
<1>6. \A i \in 1..(n - 1) :
        Config(stack[i])'.depthLimit > 0 => stack'[i].depth < Config(stack[i])'.depthLimit
  BY <1>2, <1>4 DEF DepthInv
<1>7. QED
  BY <1>5, <1>6 DEF DepthInv

(* A hand-off counts once if the agent has a limit, and is checked then.   *)
LEMMA HandOffKeepsDepth ==
  ASSUME ShapeOK, ShapeOK', DepthInv, HandOff
  PROVE  DepthInv'
<1>a. stack # <<>>
  BY HandOffEffect DEF Running
<1>b. PICK n \in Nat \ {0} : n = Len(stack)
  BY <1>a, TopIsFrame
<1>c. Len(stack') = n + 1
  BY <1>b, HandOffEffect
<1>1. /\ Len(stack) = n
      /\ Len(stack') = n + 1
      /\ Top = stack[n]
      /\ Top.agent \in Names
      /\ Top' = stack'[n + 1]
  BY <1>a, <1>b, <1>c, TopIsFrame DEF Top, Last
<1>2. SameBelow(n)
  BY <1>1, HandOffEffect DEF SameBelow
<1>3. \A i \in 1..n : /\ LimitedBelow(i)' = LimitedBelow(i)
                      /\ Config(stack[i])' = Config(stack[i])
                      /\ stack'[i].depth = stack[i].depth
  BY <1>1, <1>2, SameBelowKeeps
<1>4. stack'[n + 1].depth = NextDepth(stack[n])
  BY <1>1, HandOffEffect
<1>5. Top.depth = Cardinality(LimitedBelow(n)) /\ n \notin LimitedBelow(n)
  BY <1>1 DEF DepthInv, LimitedBelow
<1>6. LimitedBelow(n + 1)' =
        IF Config(stack[n]).depthLimit > 0 THEN LimitedBelow(n) \union {n}
        ELSE LimitedBelow(n)
  <2>1. LimitedBelow(n + 1)' = {j \in 1..n : Config(stack[j])'.depthLimit > 0}
    BY <1>1 DEF LimitedBelow
  <2>2. LimitedBelow(n + 1)' = {j \in 1..n : Config(stack[j]).depthLimit > 0}
    BY <1>3, <2>1
  <2>3. QED
    BY <1>1, <2>2 DEF LimitedBelow
<1>7. IsFiniteSet(LimitedBelow(n)) /\ Cardinality(LimitedBelow(n)) \in Nat
  BY <1>1, LimitedBelowFinite
<1>8. Cardinality(LimitedBelow(n) \union {n}) = Cardinality(LimitedBelow(n)) + 1
  BY <1>5, <1>7, FS_AddElement
<1>9. stack'[n + 1].depth = Cardinality(LimitedBelow(n + 1)')
  BY <1>1, <1>4, <1>5, <1>6, <1>8 DEF NextDepth
<1>10. Config(stack[n]).depthLimit \in Nat
  BY <1>1, ConfigType DEF Config
<1>11. Config(stack[n]).depthLimit > 0 => stack[n].depth < Config(stack[n]).depthLimit
  BY <1>1, <1>5, <1>7, <1>10, HandOffEffect DEF DepthExceeded
<1>12. \A i \in 1..(n + 1) : stack'[i].depth = Cardinality(LimitedBelow(i)')
  <2>1. \A i \in 1..n : stack'[i].depth = Cardinality(LimitedBelow(i)')
    BY <1>1, <1>3 DEF DepthInv
  <2>2. \A i \in 1..(n + 1) : i \in 1..n \/ i = n + 1
    OBVIOUS
  <2>3. QED
    BY <1>9, <2>1, <2>2
<1>13. \A i \in 1..n :
         Config(stack[i])'.depthLimit > 0 => stack'[i].depth < Config(stack[i])'.depthLimit
  <2>1. ASSUME NEW i \in 1..n
        PROVE  Config(stack[i]).depthLimit > 0 => stack[i].depth < Config(stack[i]).depthLimit
    BY <1>1, <1>11 DEF DepthInv
  <2>2. QED
    BY <1>3, <2>1
<1>14. QED
  BY <1>1, <1>12, <1>13 DEF DepthInv

LEMMA DepthInvariant == ShapeOK /\ ShapeOK' /\ DepthInv /\ [Next]_vars => DepthInv'
<1> SUFFICES ASSUME ShapeOK, ShapeOK', DepthInv, [Next]_vars PROVE DepthInv'
  OBVIOUS
<1>1. Len(stack) \in Nat /\ Len(stack') \in Nat
  BY StackLength, NextStackLength
<1>2. CASE Run
  <2>1. Len(stack') = 1 /\ stack'[1].depth = 0
    BY <1>2, RunEffect DEF Top, Last
  <2>2. LimitedBelow(1)' = {}
    BY DEF LimitedBelow
  <2>3. Cardinality(LimitedBelow(1)') = 0
    BY <2>2, FS_EmptySet
  <2>4. 1..Len(stack') = {1} /\ 1..(Len(stack') - 1) = {}
    BY <2>1
  <2>5. QED
    BY <2>1, <2>3, <2>4 DEF DepthInv
<1>3. CASE GoesOn \/ Begin \/ FinalAnswer
  <2>1. setup' = setup /\ \E f : TopMoves(f)
    BY <1>3, GoesOnEffect, BeginEffect, FinalAnswerEffect
  <2>2. SameBelow(Len(stack'))
    BY <1>1, <2>1, TopMovesShape DEF SameBelow
  <2>3. QED
    BY <1>1, <2>2, ShrinkKeepsDepth
<1>4. CASE GivesUp \/ UNCHANGED vars
  <2>1. setup' = setup /\ stack' = stack
    BY <1>4, GivesUpEffect DEF vars
  <2>2. SameBelow(Len(stack'))
    BY <1>1, <2>1 DEF SameBelow
  <2>3. QED
    BY <1>1, <2>2, ShrinkKeepsDepth
<1>5. CASE HandOff
  BY <1>5, HandOffKeepsDepth
<1>6. CASE Return
  <2>1. /\ setup' = setup /\ stack # <<>>
        /\ Len(stack') = Len(stack) - 1
        /\ \A i \in 1..(Len(stack) - 1) : stack'[i] = stack[i]
    BY <1>6, ReturnEffect, FrontShape
  <2>2. SameBelow(Len(stack'))
    BY <1>1, <2>1 DEF SameBelow
  <2>3. QED
    BY <1>1, <2>2, ShrinkKeepsDepth
<1>7. QED
  BY <1>2, <1>3, <1>4, <1>5, <1>6, StepCases DEF Next

-----------------------------------------------------------------------------
(* The runs whose pre hook has passed.                                     *)
Entered == IF stack # <<>> /\ Top.stage = "entering" THEN Len(stack) - 1 ELSE Len(stack)

(* On the way down the log is the pre hooks of the stack.                  *)
GoingDown ==
  ret.status = "none" =>
    /\ Len(log) = Entered
    /\ \A i \in 1..Entered : log[i] = Event("pre", stack[i].agent)

NoPost == ret.status = "error" => \A i \in 1..Len(log) : log[i].what # "post"

(* With n pre hooks and the runs from m on left, innermost first.          *)
Left(n, m) ==
  /\ m <= n
  /\ Len(log) = 3 * n - 2 * m + 2
  /\ \A i \in 1..n : log[i].what = "pre"
  /\ \A i \in m..n : /\ log[3 * n - 2 * i + 1] = Event("ended", log[i].agent)
                     /\ log[3 * n - 2 * i + 2] = Event("post", log[i].agent)

(* On the way up from a result the callbacks undo the pre hooks.           *)
GoingUp ==
  ret.status = "ok" =>
    \E n \in Nat, m \in Nat \ {0} :
      /\ Left(n, m)
      /\ stack = <<>> => m = 1
      /\ stack # <<>> =>
           m = Len(stack) /\ \A i \in 1..m : log[i].agent = stack[i].agent

CallInv == GoingDown /\ NoPost /\ GoingUp

LEMMA TwoMore ==
  ASSUME NEW S, NEW s \in Seq(S), NEW a \in S, NEW b \in S
  PROVE  /\ Len(s \o <<a, b>>) = Len(s) + 2
         /\ \A i \in 1..Len(s) : (s \o <<a, b>>)[i] = s[i]
         /\ (s \o <<a, b>>)[Len(s) + 1] = a
         /\ (s \o <<a, b>>)[Len(s) + 2] = b
OBVIOUS

LEMMA OneMore ==
  ASSUME NEW S, NEW s \in Seq(S), NEW a \in S
  PROVE  /\ Len(Append(s, a)) = Len(s) + 1
         /\ \A i \in 1..Len(s) : Append(s, a)[i] = s[i]
         /\ Append(s, a)[Len(s) + 1] = a
OBVIOUS

LEMMA CallInvariant == ShapeOK /\ ShapeOK' /\ CallInv /\ [Next]_vars => CallInv'
<1> SUFFICES ASSUME ShapeOK, ShapeOK', CallInv, [Next]_vars PROVE CallInv'
  OBVIOUS
<1>1. /\ Len(stack) \in Nat /\ Len(stack') \in Nat
      /\ Len(stack) = 0 <=> stack = <<>>
      /\ log \in Seq(Events) /\ Len(log) \in Nat
  BY StackLength, NextStackLength DEF ShapeOK
<1>2. CASE Run
  <2>a. NoResult.status = "none"
    BY DEF NoResult
  <2>b. /\ ret' = NoResult /\ log' = <<>>
        /\ stack' # <<>> /\ Top'.stage = "entering" /\ Len(stack') = 1
    BY <1>2, RunEffect
  <2>1. ret'.status = "none" /\ log' = <<>> /\ Entered' = 0
    BY <2>a, <2>b DEF Entered
  <2>2. QED
    BY <2>1 DEF CallInv, GoingDown, NoPost, GoingUp
<1>3. CASE GivesUp
  <2>1. /\ Running
        /\ ret'.status = "error"
        /\ \/ log' = log
           \/ log' = Append(log, Event("pre", Top.agent))
           \/ log' = Append(log, Event("ended", Top.agent))
    BY <1>3, GivesUpEffect
  <2>2. \A i \in 1..Len(log) : log[i].what # "post"
    BY <2>1 DEF CallInv, GoingDown, Running, Event
  <2>3. Top.agent \in Names
    BY <2>1, TopIsFrame DEF Running
  <2>4. \A e \in Events : e.what # "post" =>
          \A i \in 1..Len(Append(log, e)) : Append(log, e)[i].what # "post"
    BY <1>1, <2>2
  <2>5. \A i \in 1..Len(log') : log'[i].what # "post"
    <3>1. Event("pre", Top.agent) \in Events /\ Event("pre", Top.agent).what # "post"
      BY <2>3 DEF Event, Events
    <3>2. Event("ended", Top.agent) \in Events /\ Event("ended", Top.agent).what # "post"
      BY <2>3 DEF Event, Events
    <3>3. QED
      BY <2>1, <2>2, <2>4, <3>1, <3>2
  <2>6. QED
    BY <2>1, <2>5 DEF CallInv, GoingDown, NoPost, GoingUp
<1>4. CASE GoesOn
  <2>1. /\ Running /\ UNCHANGED <<ret, log>> /\ Top.stage # "entering"
        /\ \E f : TopMoves(f) /\ f.stage # "entering"
    BY <1>4, GoesOnEffect
  <2>2. /\ Len(stack') = Len(stack)
        /\ \A i \in 1..Len(stack) : stack'[i].agent = stack[i].agent
        /\ Top'.stage # "entering"
    BY <2>1, TopMovesShape
  <2>3. Entered = Len(stack) /\ Entered' = Len(stack)
    BY <2>1, <2>2 DEF Entered
  <2>4. QED
    BY <2>1, <2>2, <2>3 DEF CallInv, GoingDown, NoPost, GoingUp, Running
<1>5. CASE Begin
  <2>1. /\ Running /\ ret' = ret /\ Top.stage = "entering"
        /\ log' = Append(log, Event("pre", Top.agent))
        /\ \E f : TopMoves(f) /\ f.stage # "entering"
    BY <1>5, BeginEffect
  <2>2. /\ Len(stack') = Len(stack)
        /\ \A i \in 1..Len(stack) : stack'[i].agent = stack[i].agent
        /\ Top'.stage # "entering"
    BY <2>1, TopMovesShape
  <2>3. /\ Entered = Len(stack) - 1 /\ Entered' = Len(stack)
        /\ Len(stack) \in Nat \ {0}
        /\ Top = stack[Len(stack)] /\ Top.agent \in Names
    BY <2>1, <2>2, TopIsFrame DEF Entered, Running
  <2>4. Event("pre", Top.agent) \in Events
    BY <2>3, EventType
  <2>5. /\ Len(log) = Len(stack) - 1
        /\ \A i \in 1..(Len(stack) - 1) : log[i] = Event("pre", stack[i].agent)
    BY <2>1, <2>3 DEF CallInv, GoingDown, Running
  <2>6. /\ Len(log') = Len(stack)
        /\ \A i \in 1..(Len(stack) - 1) : log'[i] = log[i]
        /\ log'[Len(stack)] = Event("pre", stack[Len(stack)].agent)
    BY <1>1, <2>1, <2>3, <2>4, <2>5, OneMore
  <2>7. \A i \in 1..Len(stack) : log'[i] = Event("pre", stack'[i].agent)
    <3>1. \A i \in 1..Len(stack) : i = Len(stack) \/ i \in 1..(Len(stack) - 1)
      BY <2>3
    <3>2. QED
      BY <2>2, <2>5, <2>6, <3>1
  <2>8. QED
    BY <2>1, <2>3, <2>6, <2>7 DEF CallInv, GoingDown, NoPost, GoingUp, Running
<1>6. CASE FinalAnswer
  <2>1. /\ Running /\ Top.stage = "asked" /\ ret'.status = "ok"
        /\ log' = log \o <<Event("ended", Top.agent), Event("post", Top.agent)>>
        /\ \E f : TopMoves(f)
    BY <1>6, FinalAnswerEffect
  <2>2. /\ Len(stack') = Len(stack)
        /\ stack' # <<>>
        /\ \A i \in 1..Len(stack) : stack'[i].agent = stack[i].agent
    BY <2>1, TopMovesShape
  <2>3. /\ Entered = Len(stack)
        /\ Len(stack) \in Nat \ {0}
        /\ Top = stack[Len(stack)] /\ Top.agent \in Names
    BY <2>1, TopIsFrame DEF Entered, Running
  <2>4. PICK n \in Nat \ {0} : n = Len(stack)
    BY <2>3
  <2>5. /\ Len(log) = n
        /\ \A i \in 1..n : log[i] = Event("pre", stack[i].agent)
    BY <2>1, <2>3, <2>4 DEF CallInv, GoingDown, Running
  <2>6. Event("ended", Top.agent) \in Events /\ Event("post", Top.agent) \in Events
    BY <2>3, EventType
  <2>7. /\ Len(log') = n + 2
        /\ \A i \in 1..n : log'[i] = log[i]
        /\ log'[n + 1] = Event("ended", Top.agent)
        /\ log'[n + 2] = Event("post", Top.agent)
    BY <1>1, <2>1, <2>5, <2>6, TwoMore
  <2>8. \A i \in 1..n : log'[i].what = "pre" /\ log'[i].agent = stack'[i].agent
    <3>1. ASSUME NEW i \in 1..n
          PROVE  /\ log'[i] = Event("pre", stack[i].agent)
                 /\ stack'[i].agent = stack[i].agent
      BY <2>2, <2>4, <2>5, <2>7
    <3>2. \A a : Event("pre", a).what = "pre" /\ Event("pre", a).agent = a
      BY DEF Event
    <3>3. QED
      BY <3>1, <3>2
  <2>9. log'[n].agent = Top.agent
    BY <2>2, <2>3, <2>4, <2>8
  <2>10. Left(n, n)'
    <3>1. n <= n /\ Len(log') = 3 * n - 2 * n + 2
      BY <2>7
    <3>2. n..n = {n} /\ 3 * n - 2 * n + 1 = n + 1 /\ 3 * n - 2 * n + 2 = n + 2
      OBVIOUS
    <3>3. \A i \in n..n : /\ log'[3 * n - 2 * i + 1] = Event("ended", log'[i].agent)
                          /\ log'[3 * n - 2 * i + 2] = Event("post", log'[i].agent)
      BY <2>7, <2>9, <3>2
    <3>4. QED
      BY <2>8, <3>1, <3>3 DEF Left, Event
  <2>11. QED
    BY <2>1, <2>2, <2>4, <2>8, <2>10 DEF CallInv, GoingDown, NoPost, GoingUp
<1>7. CASE HandOff
  <2>1. /\ Running /\ UNCHANGED <<ret, log>> /\ Top.stage = "batch"
        /\ Len(stack') = Len(stack) + 1
        /\ stack' # <<>>
        /\ \A i \in 1..Len(stack) : stack'[i].agent = stack[i].agent
        /\ Top'.stage = "entering"
    BY <1>7, HandOffEffect
  <2>2. Entered = Len(stack) /\ Entered' = Len(stack)
    BY <1>1, <2>1 DEF Entered
  <2>3. QED
    BY <2>1, <2>2 DEF CallInv, GoingDown, NoPost, GoingUp, Running
<1>8. CASE Return
  <2>1. /\ stack # <<>> /\ ret.status # "none" /\ ret'.status = ret.status
        /\ Len(stack') = Len(stack) - 1
        /\ Len(stack) = 1 <=> stack' = <<>>
        /\ \A i \in 1..(Len(stack) - 1) : stack'[i] = stack[i]
    BY <1>8, ReturnEffect, FrontShape
  <2>2. CASE ret.status # "ok"
    BY <1>8, <2>1, <2>2, ReturnEffect DEF CallInv, GoingDown, NoPost, GoingUp
  <2>3. CASE ret.status = "ok"
    <3>1. PICK n \in Nat, m \in Nat \ {0} :
            /\ Left(n, m)
            /\ m = Len(stack) /\ \A i \in 1..m : log[i].agent = stack[i].agent
      BY <2>1, <2>3 DEF CallInv, GoingUp
    <3>2. CASE m = 1
      <4>1. log' = log /\ stack' = <<>>
        BY <1>8, <2>1, <3>1, <3>2, ReturnEffect
      <4>2. Left(n, m)'
        BY <3>1, <4>1 DEF Left
      <4>3. QED
        BY <2>1, <2>3, <3>2, <4>1, <4>2 DEF CallInv, GoingDown, NoPost, GoingUp
    <3>3. CASE m # 1
      <4>1. /\ m - 1 \in Nat \ {0}
            /\ Len(stack') = m - 1 /\ stack' # <<>>
            /\ \A i \in 1..(m - 1) : stack'[i] = stack[i]
        BY <2>1, <3>1, <3>3
      <4> DEFINE a == stack[m - 1].agent
      <4>2. log' = log \o <<Event("ended", a), Event("post", a)>>
        BY <1>8, <2>3, <3>1, <3>3, ReturnEffect
      <4>3. /\ m <= n
            /\ Len(log) = 3 * n - 2 * m + 2
            /\ \A i \in 1..n : log[i].what = "pre"
            /\ \A i \in m..n : /\ log[3 * n - 2 * i + 1] = Event("ended", log[i].agent)
                               /\ log[3 * n - 2 * i + 2] = Event("post", log[i].agent)
        BY <3>1 DEF Left
      <4>4. log[m - 1] \in Events /\ log[m - 1].agent = a
        <5>1. m - 1 \in 1..m /\ m - 1 \in 1..Len(log)
          BY <4>1, <4>3
        <5>2. QED
          BY <1>1, <3>1, <5>1, ElementOfSeq
      <4>5. Event("ended", a) \in Events /\ Event("post", a) \in Events
        BY <4>4, EventType DEF Events
      <4>6. /\ Len(log') = Len(log) + 2
            /\ \A i \in 1..Len(log) : log'[i] = log[i]
            /\ log'[Len(log) + 1] = Event("ended", a)
            /\ log'[Len(log) + 2] = Event("post", a)
        <5> HIDE DEF a
        <5>1. QED
          BY <1>1, <4>2, <4>5, TwoMore
      <4>7. Left(n, m - 1)'
        <5>1. m - 1 <= n /\ Len(log') = 3 * n - 2 * (m - 1) + 2
          BY <4>3, <4>6
        <5>2. \A i \in 1..n : i \in 1..Len(log)
          BY <4>3
        <5>3. \A i \in 1..n : log'[i].what = "pre"
          BY <4>3, <4>6, <5>2
        <5>4. ASSUME NEW i \in (m - 1)..n
              PROVE  /\ log'[3 * n - 2 * i + 1] = Event("ended", log'[i].agent)
                     /\ log'[3 * n - 2 * i + 2] = Event("post", log'[i].agent)
          <6>1. i \in 1..n /\ log'[i] = log[i]
            BY <4>1, <4>6, <5>2
          <6>2. CASE i = m - 1
            <7>1. 3 * n - 2 * i + 1 = Len(log) + 1 /\ 3 * n - 2 * i + 2 = Len(log) + 2
              BY <4>1, <4>3, <6>2
            <7>2. QED
              BY <4>4, <4>6, <6>1, <6>2, <7>1
          <6>3. CASE i # m - 1
            <7>1. i \in m..n
              BY <4>1, <6>3
            <7>2. 3 * n - 2 * i + 1 \in 1..Len(log) /\ 3 * n - 2 * i + 2 \in 1..Len(log)
              BY <4>3, <7>1
            <7>3. QED
              BY <4>3, <4>6, <6>1, <7>1, <7>2
          <6>4. QED
            BY <6>2, <6>3
        <5>5. QED
          BY <5>1, <5>3, <5>4 DEF Left, Event
      <4>8. \A i \in 1..(m - 1) : log'[i].agent = stack'[i].agent
        <5>1. \A i \in 1..(m - 1) : i \in 1..m /\ i \in 1..Len(log)
          BY <4>1, <4>3
        <5>2. QED
          BY <3>1, <4>1, <4>6, <5>1
      <4>9. QED
        BY <2>1, <2>3, <4>1, <4>7, <4>8 DEF CallInv, GoingDown, NoPost, GoingUp
    <3>4. QED
      BY <3>2, <3>3
  <2>4. QED
    BY <2>2, <2>3
<1>9. CASE UNCHANGED vars
  BY <1>9 DEF vars, CallInv, GoingDown, NoPost, GoingUp, Entered, Left, Top, Event, Last
<1>10. QED
  BY <1>2, <1>3, <1>4, <1>5, <1>6, <1>7, <1>8, <1>9, StepCases DEF Next

-----------------------------------------------------------------------------
(* The inductive invariant.                                                *)
IInv == ShapeOK /\ DepthInv /\ CallInv

LEMMA InitIInv == Init => IInv
<1> SUFFICES ASSUME Init PROVE IInv
  OBVIOUS
<1>1. stack = <<>> /\ log = <<>> /\ setup \in Setups
  BY DEF Init
<1>2. "status" \in DOMAIN ret /\ ret.status = "none"
  BY DEF Init, NoResult
<1>3. ShapeOK
  BY <1>1, <1>2 DEF ShapeOK
<1>4. Len(stack) = 0
  BY <1>1
<1>5. DepthInv
  BY <1>4 DEF DepthInv
<1>6. CallInv
  BY <1>1, <1>2, <1>4 DEF CallInv, GoingDown, NoPost, GoingUp, Entered
<1>7. QED
  BY <1>3, <1>5, <1>6 DEF IInv

(* The stack's depths and the callbacks' log are accounted for in every    *)
(* reachable state, for every set of setups and without bound on runs.     *)
THEOREM Inductive == Spec => []IInv
<1>1. IInv /\ [Next]_vars => IInv'
  BY ShapeInvariant, DepthInvariant, CallInvariant DEF IInv
<1>2. QED
  BY InitIInv, <1>1, PTL DEF Spec

(* Whatever agents without a limit are in the chain, an agent with a limit  *)
(* of m hands off only after less than m hand-offs of agents with a limit. *)
THEOREM HandoffsBounded == Spec => []DepthBounded
<1>1. IInv => DepthBounded
  <2> SUFFICES ASSUME IInv, NEW i \in 1..(Len(stack) - 1),
                      Config(stack[i]).depthLimit > 0
               PROVE  Cardinality(LimitedBelow(i)) < Config(stack[i]).depthLimit
    BY DEF DepthBounded
  <2>1. Len(stack) \in Nat
    BY StackLength DEF IInv
  <2>2. i \in 1..Len(stack)
    BY <2>1
  <2>3. stack[i].depth = Cardinality(LimitedBelow(i))
    BY <2>2 DEF IInv, DepthInv
  <2>4. stack[i].depth < Config(stack[i]).depthLimit
    BY DEF IInv, DepthInv
  <2>5. QED
    BY <2>3, <2>4
<1>2. QED
  BY Inductive, <1>1, PTL

(* When every agent has a limit of at most m, no chain of hand-offs is     *)
(* longer than m: the reading of WithMaxHandoffDepth that the code honours. *)
AllLimited(m) ==
  \A a \in Names : setup.agent[a].depthLimit > 0 /\ setup.agent[a].depthLimit <= m

ChainWithin(m) == AllLimited(m) => Len(stack) <= m + 1

THEOREM ChainsWithinLimit == ASSUME NEW m \in Nat PROVE Spec => []ChainWithin(m)
<1>1. IInv => ChainWithin(m)
  <2> SUFFICES ASSUME IInv, AllLimited(m) PROVE Len(stack) <= m + 1
    BY DEF ChainWithin
  <2>1. Len(stack) \in Nat
    BY StackLength DEF IInv
  <2>2. CASE Len(stack) <= 1
    BY <2>1, <2>2
  <2>3. CASE Len(stack) > 1
    <3> DEFINE i == Len(stack) - 1
    <3>1. i \in 1..(Len(stack) - 1) /\ i \in 1..Len(stack) /\ i \in Nat
      BY <2>1, <2>3
    <3>2. \A j \in 1..Len(stack) : stack[j].agent \in Names
      <4>1. PICK M : stack \in Seq(Frames(M))
        BY DEF IInv, ShapeOK
      <4>2. \A j \in 1..Len(stack) : stack[j] \in Frames(M)
        BY <4>1, ElementOfSeq
      <4>3. QED
        BY <4>2 DEF Frames
    <3>3. \A j \in 1..Len(stack) :
            Config(stack[j]).depthLimit > 0 /\ Config(stack[j]).depthLimit <= m
      BY <3>2 DEF AllLimited, Config
    <3>4. LimitedBelow(i) = 1..(i - 1)
      BY <2>1, <3>1, <3>3 DEF LimitedBelow
    <3>5. Cardinality(LimitedBelow(i)) = i - 1
      BY <3>1, <3>4, FS_Interval
    <3>6. i - 1 < Config(stack[i]).depthLimit
      BY <3>1, <3>3, <3>5 DEF IInv, DepthInv
    <3>7. Config(stack[i]).depthLimit \in Nat
      BY <3>1, <3>2, ConfigType DEF IInv, Config
    <3>8. i - 1 < m
      BY <3>1, <3>3, <3>6, <3>7
    <3>9. QED
      BY <2>1, <3>8
  <2>4. QED
    BY <2>1, <2>2, <2>3
<1>2. QED
  BY Inductive, <1>1, PTL

(* The hooks of Run see a success as a well-nested recursion, a failure    *)
(* without a post hook, however deep the hand-offs and wherever it fails.  *)
THEOREM CallbacksAreNested == Spec => []CallbacksNest
<1>1. IInv => CallbacksNest
  <2> SUFFICES ASSUME IInv, stack = <<>>
               PROVE  /\ ret.status = "ok" => WellNested(log)
                      /\ ret.status = "error" => \A i \in DOMAIN log : log[i].what # "post"
    BY DEF CallbacksNest
  <2>1. log \in Seq(Events) /\ DOMAIN log = 1..Len(log)
    BY DEF IInv, ShapeOK
  <2>2. ASSUME ret.status = "ok" PROVE WellNested(log)
    <3>1. PICK n \in Nat : Left(n, 1)
      BY <2>2 DEF IInv, CallInv, GoingUp
    <3>2. n \in 1..Len(log) /\ Len(log) = 3 * n
      BY <3>1 DEF Left
    <3>3. QED
      BY <3>1, <3>2 DEF WellNested, Left
  <2>3. QED
    BY <2>1, <2>2 DEF IInv, CallInv, NoPost
<1>2. QED
  BY Inductive, <1>1, PTL

-----------------------------------------------------------------------------
(* A save touches one session, which then exists.                          *)
LEMMA SaveOne ==
  ASSUME NEW where, NEW s, NEW msgs
  PROVE  /\ s \in DOMAIN Save(where, s, msgs)
         /\ \A t \in (DOMAIN where \union DOMAIN Save(where, s, msgs)) \ {s} :
              /\ t \in DOMAIN where
              /\ t \in DOMAIN Save(where, s, msgs)
              /\ Save(where, s, msgs)[t] = where[t]
BY DEF Save

(* Run implements SessionLog: an error leaves every history as it was, a   *)
(* success has updated that of one session, once, before Run returned.     *)
THEOREM RefinesSessionLog == Spec => ImplementsSessionLog
<1>1. Init => StoreLog!LogInit /\ MemoryLog!LogInit
  <2> SUFFICES ASSUME Init PROVE StoreLog!LogInit /\ MemoryLog!LogInit
    OBVIOUS
  <2>1. NoResult.status = "none"
    BY DEF NoResult
  <2>2. stack = <<>> /\ ret.status = "none" /\ store = <<>> /\ memory = <<>>
    BY <2>1 DEF Init
  <2>3. Phase = "idle"
    BY <2>2 DEF Phase
  <2>4. QED
    BY <2>2, <2>3 DEF StoreLog!LogInit, MemoryLog!LogInit
<1>2. IInv /\ [Next]_vars =>
        /\ [StoreLog!LogNext]_<<store, Phase>>
        /\ [MemoryLog!LogNext]_<<memory, Phase>>
  <2> SUFFICES ASSUME IInv, [Next]_vars
               PROVE  /\ [StoreLog!LogNext]_<<store, Phase>>
                      /\ [MemoryLog!LogNext]_<<memory, Phase>>
    OBVIOUS
  <2> USE DEF StoreLog!LogNext, MemoryLog!LogNext, StoreLog!StartRun, MemoryLog!StartRun,
              StoreLog!SaveRun, MemoryLog!SaveRun, StoreLog!EndRun, MemoryLog!EndRun,
              StoreLog!FailRun, MemoryLog!FailRun
  <2>1. ShapeOK /\ ret.status \in {"none", "error", "ok"}
    BY DEF IInv, ShapeOK
  <2>2. CASE Run
    <3>1. stack = <<>> /\ stack' # <<>> /\ ret' = NoResult /\ UNCHANGED <<store, memory>>
      BY <2>1, <2>2, RunEffect
    <3>2. Phase \in {"idle", "ok", "failed"} /\ Phase' = "running"
      BY <2>1, <3>1 DEF Phase, NoResult
    <3>3. QED
      BY <3>1, <3>2
  <2>3. CASE GivesUp
    <3>1. /\ stack # <<>> /\ stack' = stack /\ UNCHANGED <<store, memory>>
          /\ ret.status = "none" /\ ret'.status = "error"
      BY <2>1, <2>3, GivesUpEffect DEF Running
    <3>2. QED
      BY <3>1 DEF Phase
  <2>4. CASE GoesOn \/ Begin \/ HandOff
    <3>1. /\ stack # <<>> /\ stack' # <<>> /\ UNCHANGED <<ret, store, memory>>
      BY <2>1, <2>4, GoesOnEffect, BeginEffect, HandOffEffect, TopMovesShape DEF Running
    <3>2. QED
      BY <3>1 DEF Phase
  <2>5. CASE FinalAnswer
    <3>1. /\ stack # <<>> /\ stack' # <<>>
          /\ ret.status = "none" /\ ret'.status = "ok"
      BY <2>1, <2>5, FinalAnswerEffect, TopMovesShape DEF Running
    <3>2. Phase = "running" /\ Phase' = "saved"
      BY <3>1 DEF Phase
    <3>3. store' = store \/ \E s, msgs : store' = Save(store, s, msgs)
      BY <2>5 DEF FinalAnswer
    <3>4. memory' = memory \/ \E s, msgs : memory' = Save(memory, s, msgs)
      BY <2>5 DEF FinalAnswer
    <3>5. StoreLog!SaveRun
      BY <3>2, <3>3, SaveOne DEF StoreLog!OnlySession
    <3>6. MemoryLog!SaveRun
      BY <3>2, <3>4, SaveOne DEF MemoryLog!OnlySession
    <3>7. QED
      BY <3>5, <3>6
  <2>6. CASE Return
    <3>1. /\ stack # <<>> /\ ret.status \in {"error", "ok"} /\ ret'.status = ret.status
          /\ UNCHANGED <<store, memory>>
      BY <2>1, <2>6, ReturnEffect
    <3>2. QED
      BY <3>1 DEF Phase
  <2>7. CASE UNCHANGED vars
    BY <2>7 DEF vars, Phase
  <2>8. QED
    BY <2>2, <2>3, <2>4, <2>5, <2>6, <2>7, StepCases DEF Next
<1>3. QED
  BY <1>1, <1>2, Inductive, PTL
     DEF Spec, ImplementsSessionLog, StoreLog!LogSpec, MemoryLog!LogSpec


-----------------------------------------------------------------------------
(* What the operators of Transcript make of a conversation.                *)

LEMMA Joined ==
  ASSUME NEW S, NEW u \in Seq(S), NEW v \in Seq(S)
  PROVE  /\ u \o v \in Seq(S)
         /\ Len(u \o v) = Len(u) + Len(v)
         /\ Len(u) > 0 => u \o v # <<>> /\ (u \o v)[1] = u[1]
<1>1. /\ u \o v \in Seq(S)
      /\ Len(u \o v) = Len(u) + Len(v)
      /\ \A i \in 1..(Len(u) + Len(v)) :
           (u \o v)[i] = IF i <= Len(u) THEN u[i] ELSE v[i - Len(u)]
  BY ConcatProperties
<1>2. Len(u) \in Nat /\ Len(v) \in Nat /\ (u \o v = <<>> => Len(u \o v) = 0)
  OBVIOUS
<1> DEFINE w == u \o v
<1>3. /\ Len(w) = Len(u) + Len(v) /\ (w = <<>> => Len(w) = 0)
      /\ \A i \in 1..(Len(u) + Len(v)) : w[i] = IF i <= Len(u) THEN u[i] ELSE v[i - Len(u)]
  BY <1>1, <1>2
<1> HIDE DEF w
<1>4. Len(u) > 0 => w # <<>> /\ w[1] = u[1]
  BY <1>2, <1>3
<1>5. QED
  BY <1>1, <1>4 DEF w

(* Trimming leaves a part of the conversation, and a system message that   *)
(* leads it stays where it is.                                             *)
LEMMA TrimKeeps ==
  ASSUME NEW A, NEW msgs \in Seq(Messages(A)), NEW limit
  PROVE  /\ SlidingWindowTrim(msgs, limit) \in Seq(Messages(A))
         /\ HasSystem(msgs) =>
              /\ SlidingWindowTrim(msgs, limit) # <<>>
              /\ SlidingWindowTrim(msgs, limit)[1] = msgs[1]
<1> DEFINE M == Messages(A)
           system == IF HasSystem(msgs) THEN SubSeq(msgs, 1, 1) ELSE <<>>
           body   == IF HasSystem(msgs) THEN Tail(msgs) ELSE msgs
           budget == limit - CharTokens(system)
           fits   == {i \in 1..Len(body) : SuffixTokens(body, i) <= budget}
           first  == Min(fits \union {Len(body)})
           rest   == SubSeq(body, first, Len(body))
<1>1. SlidingWindowTrim(msgs, limit)
        = IF Len(msgs) < 2 THEN msgs
          ELSE IF budget <= 0 THEN SubSeq(msgs, 1, 1)
          ELSE system \o rest
  BY DEF SlidingWindowTrim
<1>2. fits \subseteq 1..Len(body)
  OBVIOUS
<1> HIDE DEF fits, budget
<1>3. msgs \in Seq(M)
  OBVIOUS
<1> HIDE DEF M
<1>4. HasSystem(msgs) => msgs # <<>>
  BY DEF HasSystem
<1>5. CASE Len(msgs) < 2
  BY <1>1, <1>3, <1>4, <1>5 DEF M
<1>6. CASE Len(msgs) >= 2
  <2>1. /\ Len(msgs) \in Nat
        /\ SubSeq(msgs, 1, 1) \in Seq(M) /\ Len(SubSeq(msgs, 1, 1)) = 1
        /\ SubSeq(msgs, 1, 1)[1] = msgs[1]
    BY <1>3, <1>6
  <2>2. system \in Seq(M) /\ Len(system) = IF HasSystem(msgs) THEN 1 ELSE 0
    BY <2>1
  <2>3. HasSystem(msgs) => system[1] = msgs[1]
    BY <2>1
  <2>4. body \in Seq(M) /\ Len(body) \in Nat \ {0}
    <3>1. CASE HasSystem(msgs)
      <4>1. Tail(msgs) \in Seq(M) /\ Len(Tail(msgs)) = Len(msgs) - 1
        BY <1>3, <1>4, <3>1, HeadTailProperties
      <4>2. QED
        BY <2>1, <1>6, <3>1, <4>1
    <3>2. CASE ~HasSystem(msgs)
      BY <1>3, <1>6, <3>2
    <3>3. QED
      BY <3>1, <3>2
  <2> HIDE DEF system, body
  <2> DEFINE n == Len(body)
             t == fits \union {n}
  <2>a. n \in Nat \ {0} /\ fits \subseteq 1..n
    BY <1>2, <2>4
  <2> HIDE DEF n
  <2>5. t \in SUBSET (1..n) /\ t # {} /\ n \in Nat
    BY <2>a
  <2> HIDE DEF t
  <2>6. Min(t) \in t
    BY <2>5, MinUpTo
  <2>b. Min(t) \in 1..n
    BY <2>5, <2>6
  <2>7. first \in 1..Len(body)
    BY <2>b DEF t, n
  <2> HIDE DEF first
  <2>8. rest \in Seq(M)
    BY <2>4, <2>7
  <2> HIDE DEF rest
  <2>9. /\ system \o rest \in Seq(M)
        /\ Len(system) > 0 => system \o rest # <<>> /\ (system \o rest)[1] = system[1]
    BY <2>2, <2>8, Joined
  <2>10. HasSystem(msgs) =>
           /\ system \o rest # <<>> /\ (system \o rest)[1] = msgs[1]
           /\ SubSeq(msgs, 1, 1) # <<>>
    <3>1. SubSeq(msgs, 1, 1) # <<>>
      <4> DEFINE lead == SubSeq(msgs, 1, 1)
      <4>1. lead \in Seq(M) /\ Len(lead) = 1
        BY <2>1
      <4> HIDE DEF lead
      <4>2. lead # <<>>
        BY <4>1, EmptySeq
      <4>3. QED
        BY <4>2 DEF lead
    <3> SUFFICES ASSUME HasSystem(msgs)
                 PROVE  system \o rest # <<>> /\ (system \o rest)[1] = msgs[1]
      BY <3>1
    <3>2. Len(system) = 1 /\ system[1] = msgs[1]
      BY <2>2, <2>3
    <3>3. Len(system) > 0
      BY <3>2
    <3>4. QED
      BY <2>9, <3>2, <3>3
  <2>11. CASE budget <= 0
    BY <1>1, <1>6, <2>1, <2>10, <2>11 DEF M
  <2>12. CASE ~(budget <= 0)
    BY <1>1, <1>6, <2>1, <2>9, <2>10, <2>12 DEF M
  <2>13. QED
    BY <2>11, <2>12
<1>7. QED
  BY <1>3, <1>5, <1>6

(* So does a summary.                                                      *)
LEMMA SummaryKeeps ==
  ASSUME NEW A, NEW msgs \in Seq(Messages(A)), NEW summary \in Messages(A),
         CanSummarize(msgs)
  PROVE  /\ Summarized(msgs, summary) \in Seq(Messages(A))
         /\ HasSystem(msgs) =>
              /\ Summarized(msgs, summary) # <<>>
              /\ Summarized(msgs, summary)[1] = msgs[1]
<1> DEFINE M == Messages(A)
           system == IF HasSystem(msgs) THEN SubSeq(msgs, 1, 1) ELSE <<>>
           recent == SubSeq(msgs, Len(msgs) - SummarizeKeepRecent + 1, Len(msgs))
<1>1. Summarized(msgs, summary) = (system \o <<summary>>) \o recent
  BY DEF Summarized
<1>2. msgs \in Seq(M) /\ summary \in M /\ Len(msgs) \in Nat /\ Len(msgs) >= 5
  BY DEF CanSummarize, SummarizeKeepRecent
<1> HIDE DEF M
<1>3. system \in Seq(M) /\ Len(system) = IF HasSystem(msgs) THEN 1 ELSE 0
  BY <1>2
<1>4. HasSystem(msgs) => system[1] = msgs[1]
  BY <1>2
<1>5. recent \in Seq(M)
  BY <1>2 DEF SummarizeKeepRecent
<1> HIDE DEF system, recent
<1> DEFINE head == system \o <<summary>>
<1>a. <<summary>> \in Seq(M) /\ Len(<<summary>>) = 1 /\ <<summary>>[1] = summary
  BY <1>2
<1>b. HasSystem(msgs) => msgs[1] = system[1] /\ Len(system) > 0
  BY <1>3, <1>4
<1> DEFINE one == <<summary>>
<1>6. /\ head \in Seq(M) /\ Len(head) = Len(system) + 1
      /\ Len(system) > 0 => head[1] = system[1]
  <2>1. one \in Seq(M) /\ Len(one) = 1 /\ head = system \o one
    BY <1>a
  <2> HIDE DEF one, head
  <2>2. QED
    BY ZenonT(60), <1>3, <2>1, Joined
<1> HIDE DEF head
<1>7. /\ head \o recent \in Seq(M)
      /\ Len(head) > 0 => head \o recent # <<>> /\ (head \o recent)[1] = head[1]
  BY <1>5, <1>6, Joined
<1>8. Len(head) > 0
  BY <1>3, <1>6
<1>9. QED
  BY <1>1, <1>b, <1>6, <1>7, <1>8 DEF M, head

(* What is persisted of a conversation is what has another role than       *)
(* "system", in its order.                                                 *)
Persisted(A) == {m \in Messages(A) : IsPersisted(m)}

LEMMA WithoutSystemAmong ==
  ASSUME NEW A, NEW msgs \in Seq(Messages(A))
  PROVE  WithoutSystem(msgs) = Among(msgs, Persisted(A))
<1> DEFINE T == Persisted(A)
<1>1. \A i \in DOMAIN msgs : IsPersisted(msgs[i]) <=> msgs[i] \in T
  BY DEF Persisted
<1>2. WithoutSystem(msgs)
        = FlattenSeq([i \in DOMAIN msgs |-> IF IsPersisted(msgs[i]) THEN <<msgs[i]>> ELSE <<>>])
  BY DEF WithoutSystem, Selected
<1>3. Among(msgs, T)
        = FlattenSeq([i \in DOMAIN msgs |-> IF msgs[i] \in T THEN <<msgs[i]>> ELSE <<>>])
  BY DEF Among, Selected
<1> HIDE DEF T
<1>4. [i \in DOMAIN msgs |-> IF IsPersisted(msgs[i]) THEN <<msgs[i]>> ELSE <<>>]
        = [i \in DOMAIN msgs |-> IF msgs[i] \in T THEN <<msgs[i]>> ELSE <<>>]
  BY <1>1
<1>5. QED
  BY <1>2, <1>3, <1>4 DEF T

LEMMA LastPersistedTyped ==
  ASSUME NEW A, NEW msgs \in Seq(Messages(A)), NEW n \in Nat
  PROVE  WithoutSystem(msgs) \in Seq(Messages(A)) /\ LastPersisted(msgs, n) \in Seq(Messages(A))
<1> DEFINE M == Messages(A)
           kept == WithoutSystem(msgs)
           a == Len(kept) - n + 1
           from == Max({1, a})
<1>1. kept \in Seq(M)
  <2>1. Among(msgs, Persisted(A)) \in Seq(M)
    BY AmongTyped
  <2>2. QED
    BY <2>1, WithoutSystemAmong
<1>2. LastPersisted(msgs, n) = SubSeq(kept, from, Len(kept))
  BY DEF LastPersisted
<1> HIDE DEF kept, M
<1>3. Len(kept) \in Nat /\ a \in Int
  BY <1>1
<1> HIDE DEF a
<1>4. from \in Int /\ from >= 1
  <2>1. \E x \in {1, a} : \A y \in {1, a} : x >= y
    BY <1>3
  <2>2. QED
    BY SMTT(40), <1>3, <2>1 DEF Max
<1> HIDE DEF from
<1>5. SubSeq(kept, from, Len(kept)) \in Seq(M)
  BY <1>1, <1>3, <1>4
<1>6. QED
  BY <1>1, <1>2, <1>5 DEF M, kept

-----------------------------------------------------------------------------
(* Tool results and their calls.                                           *)

(* A call with that number is in the conversation.                         *)
Called(msgs, id) == \E j \in DOMAIN msgs : msgs[j].role = "call" /\ msgs[j].id = id

(* What is added to a conversation may answer the calls that it holds.     *)
LEMMA AnswersAdded ==
  ASSUME NEW M, NEW u \in Seq(M), NEW v \in Seq(M), ResultsHaveCalls(u),
         \A i \in DOMAIN v : v[i].role = "tool" =>
           \/ Called(u, v[i].id)
           \/ \E j \in 1..(i - 1) : v[j].role = "call" /\ v[j].id = v[i].id
  PROVE  ResultsHaveCalls(u \o v)
<1> DEFINE w == u \o v
<1>1. /\ w \in Seq(M) /\ Len(w) = Len(u) + Len(v)
      /\ \A i \in 1..(Len(u) + Len(v)) : w[i] = IF i <= Len(u) THEN u[i] ELSE v[i - Len(u)]
  BY ConcatProperties
<1>2. /\ DOMAIN u = 1..Len(u) /\ DOMAIN v = 1..Len(v) /\ Len(u) \in Nat /\ Len(v) \in Nat
      /\ DOMAIN w = 1..(Len(u) + Len(v))
  BY <1>1
<1> HIDE DEF w
<1> SUFFICES ASSUME NEW i \in DOMAIN w, w[i].role = "tool"
             PROVE  \E j \in 1..(i - 1) : w[j].role = "call" /\ w[j].id = w[i].id
  BY DEF ResultsHaveCalls, w
<1>3. CASE i <= Len(u)
  <2>1. i \in DOMAIN u /\ w[i] = u[i]
    BY <1>1, <1>2, <1>3
  <2>2. PICK j \in 1..(i - 1) : u[j].role = "call" /\ u[j].id = u[i].id
    BY <2>1 DEF ResultsHaveCalls
  <2>3. w[j] = u[j]
    BY <1>1, <1>2, <2>1
  <2>4. QED
    BY <2>1, <2>2, <2>3
<1>4. CASE i > Len(u)
  <2>1. i - Len(u) \in DOMAIN v /\ w[i] = v[i - Len(u)]
    BY <1>1, <1>2, <1>4
  <2>2. CASE Called(u, v[i - Len(u)].id)
    <3>1. PICK j \in DOMAIN u : u[j].role = "call" /\ u[j].id = v[i - Len(u)].id
      BY <2>2 DEF Called
    <3>2. w[j] = u[j] /\ j \in 1..(i - 1)
      BY <1>1, <1>2, <1>4, <3>1
    <3>3. QED
      BY <2>1, <3>1, <3>2
  <2>3. CASE \E j \in 1..(i - Len(u) - 1) :
               v[j].role = "call" /\ v[j].id = v[i - Len(u)].id
    <3>1. PICK j \in 1..(i - Len(u) - 1) :
            v[j].role = "call" /\ v[j].id = v[i - Len(u)].id
      BY <2>3
    <3> DEFINE k == Len(u) + j
    <3>a. /\ k \in 1..(Len(u) + Len(v)) /\ k - Len(u) = j /\ ~(k <= Len(u))
          /\ k \in 1..(i - 1)
      BY <1>2, <1>4
    <3> HIDE DEF k
    <3>b. w[k] = v[k - Len(u)]
      BY <1>1, <3>a
    <3>2. w[Len(u) + j] = v[j] /\ Len(u) + j \in 1..(i - 1)
      BY <3>a, <3>b DEF k
    <3>3. QED
      BY <2>1, <3>1, <3>2
  <2>4. QED
    BY <2>1, <2>2, <2>3
<1>5. QED
  BY <1>2, <1>3, <1>4

LEMMA AnswersJoin ==
  ASSUME NEW M, NEW u \in Seq(M), NEW v \in Seq(M), ResultsHaveCalls(u), ResultsHaveCalls(v)
  PROVE  ResultsHaveCalls(u \o v)
<1>1. \A i \in DOMAIN v : v[i].role = "tool" =>
        \E j \in 1..(i - 1) : v[j].role = "call" /\ v[j].id = v[i].id
  BY DEF ResultsHaveCalls
<1>2. QED
  BY <1>1, AnswersAdded

LEMMA AnswersAppend ==
  ASSUME NEW M, NEW u \in Seq(M), NEW m \in M, ResultsHaveCalls(u),
         m.role = "tool" => Called(u, m.id)
  PROVE  ResultsHaveCalls(Append(u, m))
<1> DEFINE one == <<m>>
<1>1. one \in Seq(M) /\ DOMAIN one = {1} /\ one[1] = m /\ Append(u, m) = u \o one
  OBVIOUS
<1> HIDE DEF one
<1>2. \A i \in DOMAIN one : one[i].role = "tool" => Called(u, one[i].id)
  BY <1>1
<1>3. ResultsHaveCalls(u \o one)
  BY <1>1, <1>2, AnswersAdded
<1>4. QED
  BY <1>1, <1>3

LEMMA AnswersNone == ResultsHaveCalls(<<>>)
BY DEF ResultsHaveCalls

(* The calls are persisted with their results.                             *)
LEMMA AnswersPersisted ==
  ASSUME NEW A, NEW msgs \in Seq(Messages(A)), ResultsHaveCalls(msgs)
  PROVE  ResultsHaveCalls(WithoutSystem(msgs))
<1> DEFINE M == Messages(A)
           P == Persisted(A)
           T == {s \in Seq(M) : ResultsHaveCalls(s) => ResultsHaveCalls(Among(s, P))}
<1>1. <<>> \in T
  BY AnswersNone, AmongEmpty
<1>2. ASSUME NEW s \in Seq(M), NEW e \in M, s \in T
      PROVE  Append(s, e) \in T
  <2> DEFINE r == Append(s, e)
  <2>1. /\ r \in Seq(M) /\ DOMAIN r = 1..(Len(s) + 1) /\ DOMAIN s = 1..Len(s) /\ Len(s) \in Nat
        /\ \A i \in 1..Len(s) : r[i] = s[i]
        /\ r[Len(s) + 1] = e
    BY AppendedIs
  <2> HIDE DEF r
  <2> SUFFICES ASSUME ResultsHaveCalls(r) PROVE ResultsHaveCalls(Among(r, P))
    BY <2>1 DEF r
  <2>2. ResultsHaveCalls(s)
    BY SMTT(40), <2>1 DEF ResultsHaveCalls
  <2>3. ResultsHaveCalls(Among(s, P)) /\ Among(s, P) \in Seq(M)
    BY <1>2, <2>2, AmongTyped
  <2>4. CASE e \notin P
    BY <2>3, <2>4, AmongAppend DEF r
  <2>5. CASE e \in P
    <3>1. Among(r, P) = Append(Among(s, P), e)
      BY <2>5, AmongAppend DEF r
    <3>2. e.role = "tool" => Called(Among(s, P), e.id)
      <4> SUFFICES ASSUME e.role = "tool" PROVE Called(Among(s, P), e.id)
        OBVIOUS
      <4>1. PICK j \in 1..(Len(s) + 1 - 1) : r[j].role = "call" /\ r[j].id = r[Len(s) + 1].id
        BY <2>1 DEF ResultsHaveCalls
      <4>2. j \in 1..Len(s) /\ s[j].role = "call" /\ s[j].id = e.id
        BY <2>1, <4>1
      <4>3. s[j] \in Range(s) \cap P
        BY <2>1, <4>2 DEF Range, Persisted, IsPersisted
      <4>4. s[j] \in Range(Among(s, P))
        BY <4>3, AmongRange
      <4>5. PICK i \in DOMAIN Among(s, P) : Among(s, P)[i] = s[j]
        BY <4>4 DEF Range
      <4>6. QED
        BY <4>2, <4>5 DEF Called
    <3>3. QED
      BY <2>3, <3>1, <3>2, AnswersAppend
  <2>6. QED
    BY <2>4, <2>5
<1> HIDE DEF M, T
<1>3. \A s \in Seq(M) : s \in T
  BY <1>1, <1>2, SeqInduction
<1>4. msgs \in Seq(M)
  BY DEF M
<1>5. ResultsHaveCalls(Among(msgs, P))
  BY <1>3, <1>4 DEF T
<1>6. QED
  BY <1>5, WithoutSystemAmong

-----------------------------------------------------------------------------
(* A conversation within another one.                                      *)

LEMMA InfixElements ==
  ASSUME NEW M, NEW s \in Seq(M), NEW t \in Seq(M)
  PROVE  IsInfix(s, t) <=>
           \E k \in 0..(Len(t) - Len(s)) : \A i \in 1..Len(s) : t[k + i] = s[i]
<1>1. Len(s) \in Nat /\ Len(t) \in Nat /\ DOMAIN t = 1..Len(t)
  OBVIOUS
<1> SUFFICES ASSUME NEW k \in 0..(Len(t) - Len(s))
             PROVE  SubSeq(t, k + 1, k + Len(s)) = s <=> \A i \in 1..Len(s) : t[k + i] = s[i]
  BY DEF IsInfix
<1> DEFINE m == k + 1
           n == k + Len(s)
           r == SubSeq(t, m, n)
<1>2. m \in Int /\ n \in Int /\ \A i \in m..n : t[i] \in M
  BY <1>1
<1> HIDE DEF m, n
<1>3. /\ r \in Seq(M)
      /\ Len(r) = IF m <= n THEN n - m + 1 ELSE 0
      /\ \A i \in 1..(n - m + 1) : r[i] = t[m + i - 1]
  BY <1>2, SubSeqProperties
<1> HIDE DEF r
<1>4. Len(r) = Len(s) /\ \A i \in 1..Len(s) : r[i] = t[k + i]
  <2>1. n - m + 1 = Len(s) /\ \A i \in 1..Len(s) : m + i - 1 = k + i
    BY <1>1 DEF m, n
  <2>2. Len(r) = Len(s)
    BY <1>1, <1>2, <1>3 DEF m, n
  <2>3. \A i \in 1..Len(s) : r[i] = t[m + i - 1]
    BY <1>3, <2>1
  <2>4. ASSUME NEW i \in 1..Len(s) PROVE r[i] = t[k + i]
    BY <2>1, <2>3
  <2>5. QED
    BY <2>2, <2>4
<1>5. (\A i \in 1..Len(s) : r[i] = s[i]) => r = s
  BY <1>3, <1>4, SeqEqual
<1>6. r = s => \A i \in 1..Len(s) : r[i] = s[i]
  OBVIOUS
<1>7. r = s <=> \A i \in 1..Len(s) : t[k + i] = s[i]
  BY <1>4, <1>5, <1>6
<1>8. QED
  BY <1>7 DEF r, m, n

LEMMA InfixSelf == ASSUME NEW M, NEW s \in Seq(M) PROVE IsInfix(s, s)
<1>1. 0 \in 0..(Len(s) - Len(s)) /\ \A i \in 1..Len(s) : s[0 + i] = s[i]
  OBVIOUS
<1>2. QED
  BY <1>1, InfixElements

LEMMA InfixJoin ==
  ASSUME NEW M, NEW s \in Seq(M), NEW t \in Seq(M), NEW u \in Seq(M), IsInfix(s, t)
  PROVE  IsInfix(s, t \o u) /\ IsInfix(s, u \o t)
<1>1. PICK k \in 0..(Len(t) - Len(s)) : \A i \in 1..Len(s) : t[k + i] = s[i]
  BY ZenonT(60), InfixElements
<1>2. Len(s) \in Nat /\ Len(t) \in Nat /\ Len(u) \in Nat
  OBVIOUS
<1>3. IsInfix(s, t \o u)
  <2> DEFINE w == t \o u
  <2>1. /\ w \in Seq(M) /\ Len(w) = Len(t) + Len(u)
        /\ \A i \in 1..(Len(t) + Len(u)) : w[i] = IF i <= Len(t) THEN t[i] ELSE u[i - Len(t)]
    BY ConcatProperties
  <2> HIDE DEF w
  <2>2. k \in 0..(Len(w) - Len(s)) /\ \A i \in 1..Len(s) : w[k + i] = s[i]
    BY SMTT(40), <1>1, <1>2, <2>1
  <2>3. IsInfix(s, w)
    BY <2>1, <2>2, InfixElements
  <2>4. QED
    BY <2>3 DEF w
<1>4. IsInfix(s, u \o t)
  <2> DEFINE w == u \o t
             n == Len(u) + k
  <2>1. /\ w \in Seq(M) /\ Len(w) = Len(u) + Len(t)
        /\ \A i \in 1..(Len(u) + Len(t)) : w[i] = IF i <= Len(u) THEN u[i] ELSE t[i - Len(u)]
    BY ConcatProperties
  <2> HIDE DEF w
  <2>2. n \in 0..(Len(w) - Len(s))
    BY <1>2, <2>1
  <2>3. ASSUME NEW i \in 1..Len(s) PROVE w[n + i] = s[i]
    <3>1. /\ n + i \in 1..(Len(u) + Len(t)) /\ ~(n + i <= Len(u))
          /\ (n + i) - Len(u) = k + i
      BY <1>2
    <3>2. w[n + i] = t[(n + i) - Len(u)]
      BY <2>1, <3>1
    <3>3. QED
      BY <1>1, <3>1, <3>2
  <2> HIDE DEF n
  <2>4. IsInfix(s, w)
    BY <2>1, <2>2, <2>3, InfixElements
  <2>5. QED
    BY <2>4 DEF w
<1>5. QED
  BY <1>3, <1>4

-----------------------------------------------------------------------------
(* Frames and what they hold.                                              *)

LEMMA SetupType ==
  ASSUME setup \in Setups
  PROVE  /\ setup.root \in Names
         /\ setup.history \in Conversations
         /\ setup.maxTurns \in Nat
         /\ setup.batches \subseteq Seq(Names \union {Tool})
         /\ setup.sizes \subseteq Nat
         /\ setup.size \in Nat
         /\ \A a \in Names :
              /\ setup.agent[a].handoffs \subseteq Names
              /\ setup.agent[a].maxTurns \in Nat
              /\ setup.agent[a].memory \in Nat
              /\ setup.agent[a].prompt \in Nat
              /\ setup.agent[a].rateLimit \in Nat
              /\ setup.agent[a].history \in Int
<1>1. IsSetup(setup)
  BY SetupsAssumption
<1>2. setup.agent \in [Names -> AgentConfigs(Names)]
  BY <1>1 DEF IsSetup, Names
<1>3. ASSUME NEW a \in Names
      PROVE  /\ setup.agent[a].handoffs \subseteq Names
             /\ setup.agent[a].maxTurns \in Nat
             /\ setup.agent[a].memory \in Nat
             /\ setup.agent[a].prompt \in Nat
             /\ setup.agent[a].rateLimit \in Nat
             /\ setup.agent[a].history \in Int
  <2>1. setup.agent[a] \in AgentConfigs(Names)
    BY <1>2
  <2>2. QED
    BY <2>1 DEF AgentConfigs
<1>4. QED
  BY <1>1, <1>3 DEF IsSetup, Names, Conversations

TypedFrames(n) ==
  [agent : Names, stage : Stages, session : 0..n, msgs : Conversations,
   turn : Nat, depth : Nat, calls : Nat, batch : setup.batches \union {<<>>}]

(* What no run may lose: its instructions, and the calls of its results.   *)
Led(f) ==
  Config(f).prompt > 0 =>
    f.msgs # <<>> /\ f.msgs[1].role = "system" /\ f.msgs[1].by = f.agent

Answering == Untrimmed /\ ResultsHaveCalls(setup.history)

Sound(f) ==
  /\ f.turn <= MaxTurnsOf(f)
  /\ f.stage \in {"asked", "throttled", "batch"} => f.turn < MaxTurnsOf(f)
  /\ f.stage # "entering" => Led(f)
  /\ Answering => ResultsHaveCalls(f.msgs)

(* A run that loses nothing holds the conversation of the one that handed  *)
(* off to it.                                                              *)
Lossless(f) == Config(f).memory = 0 /\ Config(f).strategy = "error"

Carries(f, g) ==
  setup.history = <<>> /\ Config(f).history = 0 /\ Lossless(g) => IsInfix(f.msgs, g.msgs)

StackIs(s, n) ==
  /\ s \in Seq(TypedFrames(n))
  /\ Len(s) <= MaxFrames
  /\ \A i \in 1..Len(s) : Sound(s[i])
  /\ \A i \in 1..(Len(s) - 1) : Carries(s[i], s[i + 1])

StackOK == StackIs(stack, sessions)

KeptOK ==
  /\ IsHistory(store)
  /\ IsHistory(memory)
  /\ Answering => \A s \in DOMAIN store : ResultsHaveCalls(store[s])

(* The calls that are about to be answered were the last thing said.       *)
Pending ==
  Answering /\ Running /\ Top.stage \in {"throttled", "batch"} => Called(Top.msgs, llm)

RestOK ==
  /\ setup \in Setups
  /\ runs \in 0..MaxRuns
  /\ ret \in Returns
  /\ sessions \in Nat
  /\ llm \in Nat
  /\ log \in Seq(Callbacks)

ConversationInv == RestOK /\ StackOK /\ KeptOK /\ Pending

LEMMA TopTyped ==
  ASSUME StackOK, stack # <<>>
  PROVE  /\ Len(stack) \in Nat \ {0}
         /\ Top = stack[Len(stack)]
         /\ Top \in TypedFrames(sessions)
         /\ Sound(Top)
<1>1. stack \in Seq(TypedFrames(sessions))
  BY DEF StackOK, StackIs
<1>2. /\ Len(stack) \in Nat \ {0} /\ Top = stack[Len(stack)]
      /\ stack[Len(stack)] \in TypedFrames(sessions)
  BY <1>1 DEF Top, Last
<1>3. QED
  BY <1>2 DEF StackOK, StackIs

LEMMA MoreSessions ==
  ASSUME NEW m \in Nat, NEW n \in Nat, m <= n
  PROVE  TypedFrames(m) \subseteq TypedFrames(n)
<1>1. 0..m \subseteq 0..n
  OBVIOUS
<1>2. QED
  BY <1>1 DEF TypedFrames

(* What is said of a frame depends on the setup only.                      *)
LEMMA SetupKeeps ==
  ASSUME setup' = setup
  PROVE  /\ Conversations' = Conversations
         /\ Names' = Names
         /\ Callbacks' = Callbacks
         /\ Answering' = Answering
         /\ StackOK' <=> StackIs(stack', sessions')
<1>1. Conversations' = Conversations /\ Names' = Names /\ Callbacks' = Callbacks
  BY DEF Conversations, Names, Callbacks
<1>2. TypedFrames(sessions)' = TypedFrames(sessions')
  BY <1>1 DEF TypedFrames
<1>3. Answering' = Answering
  BY DEF Answering, Untrimmed
<1>4. \A f : Sound(f)' = Sound(f)
  BY <1>3 DEF Sound, Led, MaxTurnsOf, Config
<1>5. \A f, g : Carries(f, g)' = Carries(f, g)
  BY DEF Carries, Lossless, Config
<1>6. StackOK' <=> StackIs(stack', sessions')
  BY <1>2, <1>4, <1>5 DEF StackOK, StackIs
<1>7. QED
  BY <1>1, <1>3, <1>6

(* The last frame moves, and keeps the conversation it was given.          *)
Moved(f, n) ==
  /\ f \in TypedFrames(n)
  /\ f.agent = Top.agent
  /\ Sound(f)
  /\ Lossless(f) => \A s \in Conversations : IsInfix(s, Top.msgs) => IsInfix(s, f.msgs)

LEMMA MovedStack ==
  ASSUME StackOK, stack # <<>>, sessions \in Nat, NEW m \in Nat, sessions <= m,
         NEW f, Moved(f, m)
  PROVE  LET s == [stack EXCEPT ![Len(stack)] = f]
         IN  /\ StackIs(s, m) /\ Len(s) = Len(stack)
             /\ Last(s) = f /\ s # <<>>
<1> DEFINE F == TypedFrames(m)
           n == Len(stack)
           s == [stack EXCEPT ![n] = f]
<1>1. n \in Nat \ {0} /\ Top = stack[n] /\ n <= MaxFrames
  BY TopTyped DEF StackOK, StackIs
<1>2. stack \in Seq(F)
  <2>1. TypedFrames(sessions) \subseteq F
    BY MoreSessions
  <2>2. stack \in Seq(TypedFrames(sessions))
    BY DEF StackOK, StackIs
  <2> HIDE DEF F
  <2>3. QED
    BY <2>1, <2>2, SeqMonotonic
<1>3. f \in F
  BY DEF Moved
<1> HIDE DEF F
<1>4. /\ s \in Seq(F)
      /\ Len(s) = n
      /\ \A i \in 1..n : s[i] = IF i = n THEN f ELSE stack[i]
  BY <1>1, <1>2, <1>3, ExceptSeq
<1> HIDE DEF s
<1>5. Last(s) = f /\ s # <<>>
  BY <1>1, <1>4 DEF Last
<1>6. ASSUME NEW i \in 1..n PROVE Sound(s[i])
  BY <1>1, <1>4 DEF Moved, StackOK, StackIs
<1>7. ASSUME NEW i \in 1..(n - 1) PROVE Carries(s[i], s[i + 1])
  <2>1. /\ Carries(stack[i], stack[i + 1]) /\ s[i] = stack[i]
        /\ i \in 1..n /\ i + 1 \in 1..n
    BY <1>1, <1>4 DEF StackOK, StackIs
  <2>2. CASE i + 1 # n
    BY <2>1, <2>2, <1>4
  <2>3. CASE i + 1 = n
    <3>1. stack[i].msgs \in Conversations
      <4>1. stack[i] \in F
        BY <1>2, <2>1
      <4>2. QED
        BY <4>1 DEF F, TypedFrames
    <3>2. s[i + 1] = f /\ f.agent = Top.agent /\ stack[i + 1] = Top
      BY <1>1, <1>4, <2>1, <2>3 DEF Moved
    <3>3. Lossless(f) <=> Lossless(Top)
      BY <3>2 DEF Lossless, Config
    <3>4. QED
      BY <2>1, <3>1, <3>2, <3>3 DEF Carries, Moved
  <2>4. QED
    BY <2>2, <2>3
<1>8. StackIs(s, m)
  BY <1>1, <1>4, <1>6, <1>7 DEF StackIs, F
<1>9. QED
  BY <1>4, <1>5, <1>8 DEF s

MovesTo(f) == SetTop(f) /\ Moved(f, sessions')

LEMMA MoveKeeps ==
  ASSUME ConversationInv, stack # <<>>, setup' = setup,
         sessions' \in Nat, sessions <= sessions', NEW f, MovesTo(f)
  PROVE  StackOK' /\ Top' = f /\ stack' # <<>>
<1>1. sessions \in Nat /\ StackOK
  BY DEF ConversationInv, RestOK
<1> DEFINE m == sessions'
           s == [stack EXCEPT ![Len(stack)] = f]
<1>2. m \in Nat /\ sessions <= m /\ Moved(f, m) /\ stack' = s
  BY DEF MovesTo, SetTop
<1> HIDE DEF m
<1>3. StackIs(s, m) /\ Last(s) = f /\ s # <<>>
  BY <1>1, <1>2, MovedStack
<1> HIDE DEF s
<1>4. StackOK'
  BY <1>2, <1>3, SetupKeeps DEF m
<1>5. QED
  BY <1>2, <1>3, <1>4 DEF Top

-----------------------------------------------------------------------------
(* The steps of the loop.                                                  *)

LEMMA MessageType ==
  ASSUME NEW a \in Names, NEW role \in Roles, NEW id \in Nat, NEW size \in Nat
  PROVE  /\ Message(role, a, id, size) \in Messages(DOMAIN setup.agent)
         /\ Message(role, a, id, size).role = role
         /\ Message(role, a, id, size).by = a
         /\ Message(role, a, id, size).id = id
BY DEF Message, Messages, Names

LEMMA HistoryRead ==
  ASSUME NEW where, IsHistory(where), NEW s
  PROVE  Saved(where, s) \in Conversations
<1>1. <<>> \in Conversations
  BY DEF Conversations
<1>2. QED
  BY <1>1 DEF IsHistory, Saved

LEMMA HistoryWritten ==
  ASSUME NEW where, IsHistory(where), NEW s \in 0..sessions, NEW msgs \in Conversations
  PROVE  IsHistory(Save(where, s, msgs))
BY DEF IsHistory, Save

LEMMA HistoryStays ==
  ASSUME NEW where, IsHistory(where), setup' = setup, sessions \in Nat, sessions' \in Nat,
         sessions <= sessions', where' = where
  PROVE  IsHistory(where)'
<1>1. Conversations' = Conversations
  BY DEF Conversations
<1>2. 0..sessions \subseteq 0..sessions'
  OBVIOUS
<1>3. QED
  BY <1>1, <1>2 DEF IsHistory

(* A run begins with its instructions, what it remembers, and what it was  *)
(* handed.                                                                 *)
LEMMA BeginMoves ==
  ASSUME ConversationInv, Begin
  PROVE  /\ stack # <<>> /\ Running /\ UNCHANGED <<setup, runs, ret, store, memory, llm>>
         /\ sessions' \in Nat /\ sessions <= sessions'
         /\ log' = Append(log, Event("pre", Top.agent))
         /\ \E f : MovesTo(f) /\ f.stage = "turn"
<1>1. /\ stack # <<>> /\ Running /\ UNCHANGED <<setup, runs, ret, store, memory, llm>>
      /\ log' = Append(log, Event("pre", Top.agent))
      /\ sessions' = IF setup.session THEN sessions ELSE sessions + 1
      /\ Top.stage = "entering"
  BY DEF Begin, At, Running, EnterRun
<1>2. sessions \in Nat /\ sessions' \in Nat /\ sessions <= sessions'
  BY <1>1 DEF ConversationInv, RestOK
<1>3. PICK readable \in Succeeds("load") :
        LET s == IF setup.session THEN 0 ELSE sessions'
        IN  SetTop([Top EXCEPT
              !.stage = "turn",
              !.session = s,
              !.msgs = SystemPrompt \o Recalled(s, readable) \o External
                         \o <<Message("user", Top.agent, llm, setup.size)>>])
  BY DEF Begin
<1> DEFINE s == IF setup.session THEN 0 ELSE sessions'
           M == Messages(DOMAIN setup.agent)
           user == Message("user", Top.agent, llm, setup.size)
           one == <<user>>
           recalled == Recalled(s, readable)
           prompt == SystemPrompt
           external == External
           u == prompt \o recalled
           v == u \o external
           msgs == v \o one
           f == [Top EXCEPT !.stage = "turn", !.session = s, !.msgs = msgs]
<1>4. SetTop(f)
  BY <1>3
<1>5. Top \in TypedFrames(sessions) /\ Sound(Top)
  BY <1>1, TopTyped DEF ConversationInv
<1>6. Top.agent \in Names /\ setup \in Setups /\ llm \in Nat /\ Top.msgs \in Conversations
  BY <1>5 DEF TypedFrames, ConversationInv, RestOK
<1>7. s \in 0..sessions'
  BY <1>2
<1>8. one \in Seq(M) /\ ResultsHaveCalls(one) /\ Len(one) = 1
  <2>1. user \in M /\ user.role = "user"
    <3>1. "user" \in Roles /\ setup.size \in Nat
      BY <1>6, SetupType DEF Roles
    <3>2. QED
      BY <1>6, <3>1, MessageType
  <2> HIDE DEF user, M
  <2>2. QED
    BY <2>1 DEF ResultsHaveCalls
<1>9. /\ prompt \in Seq(M) /\ ResultsHaveCalls(prompt)
      /\ setup.agent[Top.agent].prompt > 0 =>
           Len(prompt) > 0 /\ prompt[1].role = "system" /\ prompt[1].by = Top.agent
  <2> DEFINE p == Message("system", Top.agent, 0, setup.agent[Top.agent].prompt)
  <2>1. p \in M /\ p.role = "system" /\ p.by = Top.agent
    <3>1. "system" \in Roles /\ setup.agent[Top.agent].prompt \in Nat
      BY <1>6, SetupType DEF Roles
    <3>2. QED
      BY <1>6, <3>1, MessageType
  <2>2. prompt = IF setup.agent[Top.agent].prompt = 0 THEN <<>> ELSE <<p>>
    BY DEF SystemPrompt, Config
  <2> HIDE DEF p, M, prompt
  <2>3. <<p>> \in Seq(M) /\ Len(<<p>>) = 1 /\ <<p>>[1] = p /\ ResultsHaveCalls(<<p>>)
    BY <2>1 DEF ResultsHaveCalls
  <2>4. CASE setup.agent[Top.agent].prompt = 0
    <3>1. prompt = <<>>
      BY <2>2, <2>4
    <3>2. <<>> \in Seq(M)
      OBVIOUS
    <3>3. QED
      BY <3>1, <3>2, <2>4, AnswersNone
  <2>5. CASE setup.agent[Top.agent].prompt # 0
    <3>1. prompt = <<p>>
      BY <2>2, <2>5
    <3>2. QED
      BY <3>1, <2>1, <2>3
  <2>6. QED
    BY <2>4, <2>5
<1>10. recalled \in Seq(M) /\ (Answering => ResultsHaveCalls(recalled))
  <2>1. /\ IsHistory(store) /\ IsHistory(memory)
        /\ Answering => \A t \in DOMAIN store : ResultsHaveCalls(store[t])
    BY DEF ConversationInv, KeptOK
  <2>2. /\ <<>> \in Seq(M) /\ Saved(store, s) \in Seq(M) /\ Saved(memory, s) \in Seq(M)
    BY <2>1, HistoryRead DEF Conversations
  <2>3. Answering => ResultsHaveCalls(Saved(store, s))
    BY <2>1, AnswersNone DEF Saved
  <2>4. Answering => ~(Config(Top).memory > 0)
    BY <1>6 DEF Answering, Untrimmed, Config, Names
  <2> HIDE DEF M, s, recalled
  <2>5. /\ recalled \in {<<>>, Saved(store, s), Saved(memory, s)}
        /\ Answering => recalled \in {<<>>, Saved(store, s)}
    BY <2>4 DEF Recalled, recalled
  <2>6. QED
    BY <2>2, <2>3, <2>5, AnswersNone
<1>11. /\ external \in Seq(M) /\ (Answering => ResultsHaveCalls(external))
       /\ Lossless(Top) => external = Top.msgs
  <2>1. external = Top.msgs \/ external = <<>>
    BY DEF External
  <2>2. Answering => ResultsHaveCalls(Top.msgs)
    BY <1>5 DEF Sound
  <2>3. Lossless(Top) => external = Top.msgs
    BY DEF External, Lossless
  <2>4. <<>> \in Seq(M)
    OBVIOUS
  <2>5. QED
    BY <1>6, <2>1, <2>2, <2>3, <2>4, AnswersNone DEF Conversations
<1>12. Conversations = Seq(M)
  BY DEF Conversations
<1> HIDE DEF s, M, user, one, recalled, prompt, external
<1>13. /\ u \in Seq(M) /\ (Answering => ResultsHaveCalls(u))
       /\ Len(prompt) > 0 => Len(u) > 0 /\ u[1] = prompt[1]
  BY <1>9, <1>10, Joined, AnswersJoin
<1> HIDE DEF u
<1>14. /\ v \in Seq(M) /\ (Answering => ResultsHaveCalls(v))
       /\ Len(u) > 0 => Len(v) > 0 /\ v[1] = u[1]
  BY <1>11, <1>13, Joined, AnswersJoin
<1>15. \A t \in Seq(M) : IsInfix(t, external) => IsInfix(t, v)
  BY <1>11, <1>13, InfixJoin
<1> HIDE DEF v
<1>16. /\ msgs \in Seq(M) /\ (Answering => ResultsHaveCalls(msgs))
       /\ Len(v) > 0 => msgs # <<>> /\ msgs[1] = v[1]
  BY <1>8, <1>14, Joined, AnswersJoin
<1>17. \A t \in Seq(M) : IsInfix(t, v) => IsInfix(t, msgs)
  BY <1>8, <1>14, InfixJoin
<1> HIDE DEF msgs
<1>18. /\ f \in TypedFrames(sessions')
       /\ f.agent = Top.agent /\ f.stage = "turn" /\ f.msgs = msgs /\ f.turn = Top.turn
  BY <1>2, <1>5, <1>7, <1>12, <1>16 DEF TypedFrames, Stages
<1> HIDE DEF f
<1>19. Sound(f)
  <2>1. Config(f) = setup.agent[Top.agent] /\ MaxTurnsOf(f) = MaxTurnsOf(Top)
    BY <1>18 DEF Config, MaxTurnsOf
  <2>2. Led(f)
    BY <1>9, <1>13, <1>14, <1>16, <1>18, <2>1 DEF Led
  <2>3. QED
    BY <1>5, <1>16, <1>18, <2>1, <2>2 DEF Sound
<1>20. MovesTo(f)
  <2>1. Lossless(f) <=> Lossless(Top)
    BY <1>18 DEF Lossless, Config
  <2>2. QED
    BY <1>4, <1>11, <1>12, <1>15, <1>17, <1>18, <1>19, <2>1 DEF MovesTo, Moved, f
<1>21. QED
  BY <1>1, <1>2, <1>18, <1>20

LEMMA ManagedKeeps ==
  ASSUME ConversationInv, stack # <<>>, NEW summarized
  PROVE  LET managed == ManageContext(Top, summarized)
         IN  /\ managed \in Conversations
             /\ Config(Top).strategy = "error" => managed = Top.msgs
             /\ HasSystem(Top.msgs) => managed # <<>> /\ managed[1] = Top.msgs[1]
<1> DEFINE A == DOMAIN setup.agent
           limit == Config(Top).window
           note == Message("summary", Top.agent, llm, setup.size)
           summary == Summarized(Top.msgs, note)
           trimmed == SlidingWindowTrim(Top.msgs, limit)
           managed == ManageContext(Top, summarized)
<1>1. Top \in TypedFrames(sessions) /\ setup \in Setups /\ llm \in Nat
  BY TopTyped DEF ConversationInv, RestOK
<1>2. Top.msgs \in Seq(Messages(A)) /\ Top.agent \in Names
  BY <1>1 DEF TypedFrames, Conversations
<1>3. note \in Messages(A)
  <2>1. "summary" \in Roles /\ setup.size \in Nat
    BY <1>1, SetupType DEF Roles
  <2>2. QED
    BY <1>1, <1>2, <2>1, MessageType
<1>4. /\ Config(Top).strategy = "error" => managed = Top.msgs
      /\ \/ managed = Top.msgs
         \/ managed = trimmed
         \/ AsksSummary(Top) /\ managed = summary
  BY DEF ManageContext
<1>5. HasSystem(Top.msgs) => Top.msgs # <<>>
  BY DEF HasSystem
<1>6. /\ trimmed \in Seq(Messages(A))
      /\ HasSystem(Top.msgs) => trimmed # <<>> /\ trimmed[1] = Top.msgs[1]
  BY <1>2, TrimKeeps
<1> HIDE DEF note
<1>7. AsksSummary(Top) =>
        /\ summary \in Seq(Messages(A))
        /\ HasSystem(Top.msgs) => summary # <<>> /\ summary[1] = Top.msgs[1]
  BY <1>2, <1>3, SummaryKeeps DEF AsksSummary
<1> HIDE DEF trimmed, summary, managed, limit
<1>8. managed \in Seq(Messages(A))
  BY <1>2, <1>4, <1>6, <1>7
<1>9. HasSystem(Top.msgs) => managed # <<>> /\ managed[1] = Top.msgs[1]
  BY <1>4, <1>5, <1>6, <1>7
<1>10. QED
  BY <1>4, <1>8, <1>9 DEF managed, Conversations

LEMMA SendPromptMoves ==
  ASSUME ConversationInv, SendPrompt
  PROVE  /\ stack # <<>> /\ Running
         /\ UNCHANGED <<setup, runs, ret, store, memory, sessions, log>>
         /\ llm' \in Nat
         /\ \E f : MovesTo(f) /\ f.stage = "asked"
<1>1. /\ stack # <<>> /\ Running /\ Top.stage = "turn" /\ CanTurn(Top)
      /\ UNCHANGED <<setup, runs, ret, store, memory, sessions, log>>
      /\ llm' \in {llm + 1, llm + 2}
  BY DEF SendPrompt, At, Running
<1>2. PICK summarized \in Succeeds("summary") :
        SetTop([Top EXCEPT !.stage = "asked", !.msgs = ManageContext(Top, summarized)])
  BY DEF SendPrompt
<1>3. /\ Top \in TypedFrames(sessions) /\ Sound(Top) /\ llm \in Nat /\ setup \in Setups
  BY <1>1, TopTyped DEF ConversationInv, RestOK
<1> DEFINE managed == ManageContext(Top, summarized)
           f == [Top EXCEPT !.stage = "asked", !.msgs = managed]
<1>4. /\ managed \in Conversations
      /\ Config(Top).strategy = "error" => managed = Top.msgs
      /\ HasSystem(Top.msgs) => managed # <<>> /\ managed[1] = Top.msgs[1]
  BY <1>1, ManagedKeeps
<1>5. SetTop(f)
  BY <1>2
<1> HIDE DEF managed
<1>6. /\ f \in TypedFrames(sessions')
      /\ f.agent = Top.agent /\ f.stage = "asked" /\ f.msgs = managed /\ f.turn = Top.turn
  BY <1>1, <1>3, <1>4 DEF TypedFrames, Stages
<1> HIDE DEF f
<1>7. Config(f) = Config(Top) /\ MaxTurnsOf(f) = MaxTurnsOf(Top)
  BY <1>6 DEF Config, MaxTurnsOf
<1>8. Led(f)
  <2> SUFFICES ASSUME Config(Top).prompt > 0
               PROVE  managed # <<>> /\ managed[1].role = "system" /\ managed[1].by = Top.agent
    BY <1>6, <1>7 DEF Led
  <2>1. /\ Top.msgs # <<>> /\ Top.msgs[1].role = "system" /\ Top.msgs[1].by = Top.agent
    BY <1>1, <1>3 DEF Sound, Led
  <2>2. HasSystem(Top.msgs)
    BY <2>1 DEF HasSystem
  <2>3. QED
    BY <1>4, <2>1, <2>2
<1>9. Answering => ResultsHaveCalls(managed)
  <2>1. Answering => Config(Top).strategy = "error"
    BY <1>3 DEF Answering, Untrimmed, Config, TypedFrames, Names
  <2>2. QED
    BY <1>3, <1>4, <2>1 DEF Sound
<1>10. Sound(f)
  BY <1>1, <1>3, <1>6, <1>7, <1>8, <1>9 DEF Sound, CanTurn
<1>11. MovesTo(f)
  BY <1>4, <1>5, <1>6, <1>7, <1>10 DEF MovesTo, Moved, f, Lossless
<1>12. QED
  BY <1>1, <1>3, <1>6, <1>11

(* One message more at the end of the conversation.                        *)
LEMMA SaidMore ==
  ASSUME ConversationInv, stack # <<>>, NEW role \in {"answer", "call"}
  PROVE  LET said == Append(Top.msgs, Message(role, Top.agent, llm, setup.size))
         IN  /\ said \in Conversations
             /\ Answering => ResultsHaveCalls(said)
             /\ Top.msgs # <<>> => said # <<>> /\ said[1] = Top.msgs[1]
             /\ \A s \in Conversations : IsInfix(s, Top.msgs) => IsInfix(s, said)
             /\ role = "call" => Called(said, llm)
<1> DEFINE M == Messages(DOMAIN setup.agent)
           m == Message(role, Top.agent, llm, setup.size)
           one == <<m>>
           said == Append(Top.msgs, m)
<1>1. /\ Top \in TypedFrames(sessions) /\ Sound(Top) /\ llm \in Nat /\ setup \in Setups
  BY TopTyped DEF ConversationInv, RestOK
<1>2. Top.msgs \in Seq(M) /\ Top.agent \in Names /\ Conversations = Seq(M)
  BY <1>1 DEF TypedFrames, Conversations
<1>3. m \in M /\ m.role = role /\ m.id = llm
  <2>1. role \in Roles /\ setup.size \in Nat
    BY <1>1, SetupType DEF Roles
  <2>2. QED
    BY <1>1, <1>2, <2>1, MessageType
<1> HIDE DEF m, M
<1>4. /\ said \in Seq(M) /\ DOMAIN said = 1..(Len(Top.msgs) + 1) /\ Len(Top.msgs) \in Nat
      /\ \A i \in 1..Len(Top.msgs) : said[i] = Top.msgs[i]
      /\ said[Len(Top.msgs) + 1] = m
      /\ said = Top.msgs \o one
      /\ one \in Seq(M)
  BY <1>2, <1>3, AppendedIs
<1>5. Answering => ResultsHaveCalls(said)
  BY <1>1, <1>2, <1>3, AnswersAppend DEF Sound
<1> HIDE DEF said, one
<1>6. \A s \in Seq(M) : IsInfix(s, Top.msgs) => IsInfix(s, said)
  BY <1>2, <1>4, InfixJoin
<1>7. role = "call" => Called(said, llm)
  <2> DEFINE j == Len(Top.msgs) + 1
  <2>1. j \in DOMAIN said /\ said[j] = m
    BY <1>4
  <2> HIDE DEF j
  <2>2. QED
    BY <1>3, <2>1 DEF Called
<1>8. Top.msgs # <<>> => said # <<>> /\ said[1] = Top.msgs[1]
  <2>1. said # <<>>
    BY <1>4, EmptySeq DEF said
  <2>2. Top.msgs # <<>> => 1 \in 1..Len(Top.msgs)
    BY <1>2, EmptySeq
  <2>3. QED
    BY <1>4, <2>1, <2>2
<1>9. QED
  BY <1>2, <1>4, <1>5, <1>6, <1>7, <1>8 DEF said, m

LEMMA FinalAnswerMoves ==
  ASSUME ConversationInv, FinalAnswer
  PROVE  /\ stack # <<>> /\ Running /\ UNCHANGED <<setup, runs, sessions, llm>>
         /\ \E f : MovesTo(f) /\ f.stage = "asked"
<1>1. /\ stack # <<>> /\ Running /\ Top.stage = "asked"
      /\ UNCHANGED <<setup, runs, sessions, llm>>
  BY DEF FinalAnswer, At, Running
<1> DEFINE f == [Top EXCEPT !.msgs = Answered]
<1>2. SetTop(f)
  BY DEF FinalAnswer
<1>3. /\ Top \in TypedFrames(sessions) /\ Sound(Top)
  BY <1>1, TopTyped DEF ConversationInv
<1>4. /\ Answered \in Conversations
      /\ Answering => ResultsHaveCalls(Answered)
      /\ Top.msgs # <<>> => Answered # <<>> /\ Answered[1] = Top.msgs[1]
      /\ \A s \in Conversations : IsInfix(s, Top.msgs) => IsInfix(s, Answered)
  BY <1>1, SaidMore DEF Answered
<1>5. /\ f \in TypedFrames(sessions')
      /\ f.agent = Top.agent /\ f.stage = "asked" /\ f.msgs = Answered /\ f.turn = Top.turn
  BY <1>1, <1>3, <1>4 DEF TypedFrames
<1> HIDE DEF f
<1>6. Config(f) = Config(Top) /\ MaxTurnsOf(f) = MaxTurnsOf(Top)
  BY <1>5 DEF Config, MaxTurnsOf
<1>7. Led(f)
  BY <1>1, <1>3, <1>4, <1>5, <1>6 DEF Led, Sound
<1>8. Sound(f)
  BY <1>1, <1>3, <1>4, <1>5, <1>6, <1>7 DEF Sound
<1>9. QED
  BY <1>1, <1>2, <1>4, <1>5, <1>8 DEF MovesTo, Moved, f

LEMMA RequestToolsMoves ==
  ASSUME ConversationInv, RequestTools
  PROVE  /\ stack # <<>> /\ Running
         /\ UNCHANGED <<setup, runs, ret, store, memory, sessions, llm, log>>
         /\ \E f : MovesTo(f) /\ Called(f.msgs, llm)
<1>1. /\ stack # <<>> /\ Running /\ Top.stage = "asked"
      /\ UNCHANGED <<setup, runs, ret, store, memory, sessions, llm, log>>
  BY DEF RequestTools, At, Running
<1>2. PICK batch \in setup.batches, minuteOver \in BOOLEAN :
        LET limit == Config(Top).rateLimit
            calls == (IF minuteOver THEN 0 ELSE Top.calls) + Len(batch)
        IN  SetTop([Top EXCEPT
              !.stage = IF limit > 0 /\ calls > limit THEN "throttled" ELSE "batch",
              !.calls = IF limit > 0 THEN calls ELSE 0,
              !.batch = batch,
              !.msgs  = Requested])
  BY DEF RequestTools
<1> DEFINE limit == Config(Top).rateLimit
           counted == (IF minuteOver THEN 0 ELSE Top.calls) + Len(batch)
           stage == IF limit > 0 /\ counted > limit THEN "throttled" ELSE "batch"
           calls == IF limit > 0 THEN counted ELSE 0
           f == [Top EXCEPT !.stage = stage, !.calls = calls, !.batch = batch,
                            !.msgs = Requested]
<1>3. SetTop(f)
  BY <1>2
<1>4. /\ Top \in TypedFrames(sessions) /\ Sound(Top) /\ setup \in Setups
  BY <1>1, TopTyped DEF ConversationInv, RestOK
<1>5. /\ Requested \in Conversations
      /\ Answering => ResultsHaveCalls(Requested)
      /\ Top.msgs # <<>> => Requested # <<>> /\ Requested[1] = Top.msgs[1]
      /\ \A s \in Conversations : IsInfix(s, Top.msgs) => IsInfix(s, Requested)
      /\ Called(Requested, llm)
  BY <1>1, SaidMore DEF Requested
<1>6. stage \in {"throttled", "batch"}
  OBVIOUS
<1>7. calls \in Nat
  <2>1. Len(batch) \in Nat
    BY <1>4, SetupType
  <2>2. Top.calls \in Nat
    BY <1>4 DEF TypedFrames
  <2>3. QED
    BY <2>1, <2>2
<1> HIDE DEF limit, counted, stage, calls
<1>8. /\ f \in TypedFrames(sessions')
      /\ f.agent = Top.agent /\ f.stage = stage /\ f.msgs = Requested /\ f.turn = Top.turn
  BY <1>1, <1>4, <1>5, <1>6, <1>7 DEF TypedFrames, Stages
<1> HIDE DEF f
<1>9. Config(f) = Config(Top) /\ MaxTurnsOf(f) = MaxTurnsOf(Top)
  BY <1>8 DEF Config, MaxTurnsOf
<1>10. Led(f)
  BY <1>1, <1>4, <1>5, <1>8, <1>9 DEF Led, Sound
<1>11. Sound(f)
  BY <1>1, <1>4, <1>5, <1>6, <1>8, <1>9, <1>10 DEF Sound
<1>12. QED
  BY <1>1, <1>3, <1>5, <1>8, <1>11 DEF MovesTo, Moved, f

LEMMA MinutePassesMoves ==
  ASSUME ConversationInv, MinutePasses
  PROVE  /\ stack # <<>> /\ Running
         /\ UNCHANGED <<setup, runs, ret, store, memory, sessions, llm, log>>
         /\ \E f : MovesTo(f) /\ (Answering => Called(f.msgs, llm))
<1>1. /\ stack # <<>> /\ Running /\ Top.stage = "throttled"
      /\ UNCHANGED <<setup, runs, ret, store, memory, sessions, llm, log>>
  BY DEF MinutePasses, At, Running
<1> DEFINE n == Len(Top.batch)
           f == [Top EXCEPT !.stage = "batch", !.calls = n]
<1>2. SetTop(f)
  BY DEF MinutePasses
<1>3. /\ Top \in TypedFrames(sessions) /\ Sound(Top) /\ setup \in Setups
      /\ Answering => Called(Top.msgs, llm)
  BY <1>1, TopTyped DEF ConversationInv, RestOK, Pending
<1>4. n \in Nat
  <2>1. Top.batch \in setup.batches \union {<<>>}
    BY <1>3 DEF TypedFrames
  <2>2. Len(<<>>) = 0 /\ \A batch \in setup.batches : Len(batch) \in Nat
    BY <1>3, SetupType
  <2>3. QED
    BY <2>1, <2>2
<1> HIDE DEF n
<1>5. /\ f \in TypedFrames(sessions')
      /\ f.agent = Top.agent /\ f.stage = "batch" /\ f.msgs = Top.msgs /\ f.turn = Top.turn
  BY <1>1, <1>3, <1>4 DEF TypedFrames, Stages
<1> HIDE DEF f
<1>6. Config(f) = Config(Top) /\ MaxTurnsOf(f) = MaxTurnsOf(Top)
  BY <1>5 DEF Config, MaxTurnsOf
<1>7. Led(f)
  BY <1>1, <1>3, <1>5, <1>6 DEF Led, Sound
<1>8. Sound(f)
  BY <1>1, <1>3, <1>5, <1>6, <1>7 DEF Sound
<1>9. QED
  BY <1>1, <1>2, <1>3, <1>5, <1>8 DEF MovesTo, Moved, f

(* The results of the first n calls of the pending batch.                  *)
LEMMA ResultsAnswer ==
  ASSUME ConversationInv, stack # <<>>, Running, Top.stage = "batch",
         NEW n \in Nat, NEW size \in setup.sizes
  PROVE  LET said == Top.msgs \o Results(Top, n, size)
         IN  /\ said \in Conversations
             /\ Answering => ResultsHaveCalls(said)
             /\ Top.msgs # <<>> => said # <<>> /\ said[1] = Top.msgs[1]
             /\ \A s \in Conversations : IsInfix(s, Top.msgs) => IsInfix(s, said)
<1> DEFINE M == Messages(DOMAIN setup.agent)
           m == Message("tool", Top.agent, llm, size)
           r == Results(Top, n, size)
           said == Top.msgs \o r
<1>1. /\ Top \in TypedFrames(sessions) /\ Sound(Top) /\ llm \in Nat /\ setup \in Setups
      /\ Answering => Called(Top.msgs, llm)
  BY TopTyped DEF ConversationInv, RestOK, Pending
<1>2. Top.msgs \in Seq(M) /\ Top.agent \in Names /\ Conversations = Seq(M)
  BY <1>1 DEF TypedFrames, Conversations
<1>3. m \in M /\ m.role = "tool" /\ m.id = llm
  <2>1. "tool" \in Roles /\ size \in Nat
    BY <1>1, SetupType DEF Roles
  <2>2. QED
    BY <1>1, <1>2, <2>1, MessageType
<1>4. r = [i \in 1..n |-> m]
  BY DEF Results
<1> HIDE DEF m, M, r
<1>5. r \in Seq(M) /\ \A i \in DOMAIN r : r[i] = m
  BY <1>3, <1>4
<1>6. Answering => ResultsHaveCalls(said)
  <2> SUFFICES ASSUME Answering PROVE ResultsHaveCalls(said)
    OBVIOUS
  <2>1. ResultsHaveCalls(Top.msgs) /\ Called(Top.msgs, llm)
    BY <1>1 DEF Sound
  <2>2. \A i \in DOMAIN r : r[i].role = "tool" => Called(Top.msgs, r[i].id)
    BY <1>3, <1>5, <2>1
  <2>3. QED
    BY <1>2, <1>5, <2>1, <2>2, AnswersAdded
<1>7. /\ said \in Seq(M)
      /\ Len(Top.msgs) > 0 => said # <<>> /\ said[1] = Top.msgs[1]
  BY <1>2, <1>5, Joined
<1>8. \A s \in Seq(M) : IsInfix(s, Top.msgs) => IsInfix(s, said)
  BY <1>2, <1>5, InfixJoin
<1>9. Top.msgs # <<>> => Len(Top.msgs) > 0
  BY <1>2, EmptySeq
<1>10. QED
  BY <1>2, <1>6, <1>7, <1>8, <1>9 DEF r

LEMMA ExecuteBatchMoves ==
  ASSUME ConversationInv, ExecuteBatch
  PROVE  /\ stack # <<>> /\ Running
         /\ UNCHANGED <<setup, runs, ret, store, memory, sessions, llm, log>>
         /\ \E f : MovesTo(f) /\ f.stage = "turn"
<1>1. /\ stack # <<>> /\ Running /\ Top.stage = "batch"
      /\ UNCHANGED <<setup, runs, ret, store, memory, sessions, llm, log>>
  BY DEF ExecuteBatch, At, Running
<1>2. PICK size \in setup.sizes :
        SetTop([Top EXCEPT
          !.stage = "turn",
          !.turn  = Top.turn + 1,
          !.batch = <<>>,
          !.msgs  = Top.msgs \o Results(Top, Len(Top.batch), size)])
  BY DEF ExecuteBatch
<1> DEFINE n == Len(Top.batch)
           said == Top.msgs \o Results(Top, n, size)
           next == Top.turn + 1
           none == <<>>
           f == [Top EXCEPT !.stage = "turn", !.turn = next, !.batch = none, !.msgs = said]
<1>3. SetTop(f)
  BY <1>2
<1>4. /\ Top \in TypedFrames(sessions) /\ Sound(Top) /\ setup \in Setups
  BY <1>1, TopTyped DEF ConversationInv, RestOK
<1>5. n \in Nat
  <2>1. Top.batch \in setup.batches \union {<<>>}
    BY <1>4 DEF TypedFrames
  <2>2. Len(<<>>) = 0 /\ \A batch \in setup.batches : Len(batch) \in Nat
    BY <1>4, SetupType
  <2>3. QED
    BY <2>1, <2>2
<1> HIDE DEF n
<1>6. /\ said \in Conversations
      /\ Answering => ResultsHaveCalls(said)
      /\ Top.msgs # <<>> => said # <<>> /\ said[1] = Top.msgs[1]
      /\ \A s \in Conversations : IsInfix(s, Top.msgs) => IsInfix(s, said)
  BY <1>1, <1>5, ResultsAnswer
<1>7. Top.turn \in Nat /\ next \in Nat
  BY <1>4 DEF TypedFrames
<1>8. none \in setup.batches \union {<<>>}
  OBVIOUS
<1> HIDE DEF said, next, none
<1>9. /\ f \in TypedFrames(sessions')
      /\ f.agent = Top.agent /\ f.stage = "turn" /\ f.msgs = said /\ f.turn = next
  BY <1>1, <1>4, <1>6, <1>7, <1>8 DEF TypedFrames, Stages
<1> HIDE DEF f
<1>10. Config(f) = Config(Top) /\ MaxTurnsOf(f) = MaxTurnsOf(Top)
  BY <1>9 DEF Config, MaxTurnsOf
<1>11. Led(f)
  BY <1>1, <1>4, <1>6, <1>9, <1>10 DEF Led, Sound
<1>12. MaxTurnsOf(Top) \in Nat
  <2>1. Top.agent \in Names /\ setup.maxTurns \in Nat /\ setup.agent[Top.agent].maxTurns \in Nat
    BY <1>4, SetupType DEF TypedFrames
  <2>2. QED
    BY <2>1 DEF MaxTurnsOf, Config
<1>13. next <= MaxTurnsOf(Top)
  <2>1. Top.turn < MaxTurnsOf(Top)
    BY <1>1, <1>4 DEF Sound
  <2>2. QED
    BY <1>7, <1>12, <2>1 DEF next
<1>14. Sound(f)
  BY <1>6, <1>9, <1>10, <1>11, <1>13 DEF Sound
<1>15. QED
  BY <1>1, <1>3, <1>6, <1>9, <1>14 DEF MovesTo, Moved, f

(* A hand-off: the run that made it keeps the results before it, and the   *)
(* target is given the caller's history or what was said so far.           *)
LEMMA HandOffMoves ==
  ASSUME ConversationInv, HandOff
  PROVE  /\ stack # <<>> /\ Running
         /\ UNCHANGED <<setup, runs, ret, store, memory, sessions, llm, log>>
         /\ StackOK' /\ stack' # <<>> /\ Top'.stage = "entering"
<1>1. /\ stack # <<>> /\ Running /\ Top.stage = "batch" /\ Len(stack) < MaxFrames
      /\ UNCHANGED <<setup, runs, ret, store, memory, sessions, llm, log>>
  BY DEF HandOff, At, Running
<1>2. PICK k \in Handoffs(Top), size \in setup.sizes :
        LET msgs == Top.msgs \o Results(Top, k - 1, size)
        IN  stack' = Append(
              [stack EXCEPT ![Len(stack)] =
                 [Top EXCEPT !.stage = "handedOff", !.msgs = msgs]],
              Frame(Top.batch[k], HandedOver(msgs, Config(Top).history), NextDepth(Top)))
  BY DEF HandOff
<1> DEFINE j == k - 1
           msgs == Top.msgs \o Results(Top, j, size)
           f == [Top EXCEPT !.stage = "handedOff", !.msgs = msgs]
           s == [stack EXCEPT ![Len(stack)] = f]
           history == HandedOver(msgs, Config(Top).history)
           target == Top.batch[k]
           depth == NextDepth(Top)
           g == Frame(target, history, depth)
           F == TypedFrames(sessions)
<1>3. stack' = Append(s, g)
  BY <1>2
<1>4. /\ Top \in F /\ Sound(Top) /\ setup \in Setups /\ sessions \in Nat /\ StackOK
      /\ Len(stack) \in Nat
  BY <1>1, TopTyped DEF ConversationInv, RestOK
<1>5. Top.agent \in Names /\ Top.depth \in Nat /\ Top.msgs \in Conversations
  BY <1>4 DEF TypedFrames
<1>6. j \in Nat /\ target \in Names
  <2>1. Top.batch \in Seq(Names \union {Tool})
    <3>1. Top.batch \in setup.batches \union {<<>>}
      BY <1>4 DEF TypedFrames
    <3>2. <<>> \in Seq(Names \union {Tool})
      OBVIOUS
    <3>3. QED
      BY <3>1, <3>2, <1>4, SetupType
  <2>2. k \in DOMAIN Top.batch /\ target \in Config(Top).handoffs
    BY DEF Handoffs
  <2>3. k \in Nat \ {0}
    BY <2>1, <2>2
  <2>4. target \in Names
    BY <1>4, <1>5, <2>2, SetupType DEF Config
  <2>5. QED
    BY <2>3, <2>4
<1> HIDE DEF j, target
<1>7. /\ msgs \in Conversations
      /\ Answering => ResultsHaveCalls(msgs)
      /\ Top.msgs # <<>> => msgs # <<>> /\ msgs[1] = Top.msgs[1]
      /\ \A t \in Conversations : IsInfix(t, Top.msgs) => IsInfix(t, msgs)
  BY <1>1, <1>6, ResultsAnswer
<1> HIDE DEF msgs
<1>8. /\ f \in F
      /\ f.agent = Top.agent /\ f.stage = "handedOff" /\ f.msgs = msgs /\ f.turn = Top.turn
  BY <1>4, <1>7 DEF TypedFrames, Stages
<1> HIDE DEF f
<1>9. Moved(f, sessions)
  <2>1. Config(f) = Config(Top) /\ MaxTurnsOf(f) = MaxTurnsOf(Top)
    BY <1>8 DEF Config, MaxTurnsOf
  <2>2. Led(f)
    BY <1>1, <1>4, <1>7, <1>8, <2>1 DEF Led, Sound
  <2>3. Sound(f)
    BY <1>4, <1>7, <1>8, <2>1, <2>2 DEF Sound
  <2>4. QED
    BY <1>7, <1>8, <2>3 DEF Moved
<1>10. /\ StackIs(s, sessions) /\ Len(s) = Len(stack)
       /\ Last(s) = f /\ s # <<>>
  BY <1>1, <1>4, <1>9, MovedStack
<1> HIDE DEF s
<1>11. depth \in Nat
  BY <1>5 DEF NextDepth
<1>12. /\ history \in Conversations
       /\ Answering => ResultsHaveCalls(history)
       /\ setup.history = <<>> /\ Config(f).history = 0 => history = msgs
  <2>1. setup.history \in Conversations /\ Config(Top).history \in Int
    BY <1>4, <1>5, SetupType DEF Config
  <2>2. setup.history # <<>> => history = setup.history
    BY DEF HandedOver
  <2>3. setup.history = <<>> =>
          /\ history \in Conversations
          /\ Config(Top).history <= 0 => history = msgs
    <3> SUFFICES ASSUME setup.history = <<>>
                 PROVE  /\ history \in Conversations
                        /\ Config(Top).history <= 0 => history = msgs
      OBVIOUS
    <3> DEFINE c == Config(Top).history
               l == Len(msgs)
               a == l - c + 1
               M == Messages(DOMAIN setup.agent)
               from == Max({1, a})
    <3>1. history = IF c <= 0 THEN msgs ELSE SubSeq(msgs, from, l)
      BY DEF HandedOver, PrepareHandoffHistory
    <3>2. msgs \in Seq(M) /\ Conversations = Seq(M) /\ l \in Nat /\ a \in Int
      BY <1>7, <2>1 DEF Conversations
    <3> HIDE DEF a, M
    <3>3. from \in Int /\ from >= 1
      <4>1. \E x \in {1, a} : \A y \in {1, a} : x >= y
        BY <3>2
      <4>2. QED
        BY <3>2, <4>1 DEF Max
    <3> HIDE DEF from
    <3>4. SubSeq(msgs, from, l) \in Seq(M)
      BY <3>2, <3>3
    <3>5. QED
      BY <3>1, <3>2, <3>4
  <2>4. Answering => ResultsHaveCalls(setup.history) /\ Config(Top).history <= 0
    BY <1>5 DEF Answering, Untrimmed, Config, Names
  <2>5. Config(f).history = Config(Top).history
    BY <1>8 DEF Config
  <2>6. QED
    BY <1>7, <2>1, <2>2, <2>3, <2>4, <2>5
<1> HIDE DEF history, depth
<1>13. /\ g \in F /\ g.stage = "entering" /\ g.msgs = history /\ g.turn = 0
       /\ g.agent \in Names
  BY <1>6, <1>11, <1>12, <1>4 DEF Frame, TypedFrames, Stages
<1> HIDE DEF g
<1>14. Sound(g)
  <2>1. MaxTurnsOf(g) \in Nat
    <3>1. setup.maxTurns \in Nat /\ setup.agent[g.agent].maxTurns \in Nat
      BY <1>4, <1>13, SetupType
    <3>2. QED
      BY <3>1 DEF MaxTurnsOf, Config
  <2>2. QED
    BY <1>12, <1>13, <2>1 DEF Sound
<1>15. Carries(f, g)
  <2>1. msgs \in Seq(Messages(DOMAIN setup.agent))
    BY <1>7 DEF Conversations
  <2>2. IsInfix(msgs, msgs)
    BY <2>1, InfixSelf
  <2>3. QED
    BY <1>8, <1>12, <1>13, <2>2 DEF Carries
<1>16. StackIs(Append(s, g), sessions) /\ Last(Append(s, g)) = g /\ Append(s, g) # <<>>
  <2> DEFINE n == Len(s)
             r == Append(s, g)
  <2>1. s \in Seq(F) /\ n \in Nat \ {0} /\ s[n] = f /\ n < MaxFrames
    <3>1. s \in Seq(F)
      BY <1>10 DEF StackIs
    <3> HIDE DEF F
    <3>2. n \in Nat \ {0}
      BY <3>1, <1>10, EmptySeq
    <3>3. QED
      BY <1>1, <1>10, <3>1, <3>2 DEF Last
  <2>2. (\A i \in 1..n : Sound(s[i])) /\ \A i \in 1..(n - 1) : Carries(s[i], s[i + 1])
    BY <1>10 DEF StackIs
  <2> HIDE DEF F
  <2>3. /\ r \in Seq(F) /\ Len(r) = n + 1
        /\ \A i \in 1..n : r[i] = s[i]
        /\ r[n + 1] = g
    BY <1>13, <2>1, AppendedIs
  <2> HIDE DEF r, n
  <2>4. Last(r) = g /\ r # <<>>
    BY <2>1, <2>3 DEF Last
  <2>5. ASSUME NEW i \in 1..(n + 1) PROVE Sound(r[i])
    BY <1>14, <2>1, <2>2, <2>3
  <2>6. ASSUME NEW i \in 1..n PROVE Carries(r[i], r[i + 1])
    <3>1. CASE i = n
      BY <1>15, <2>1, <2>3, <3>1
    <3>2. CASE i # n
      <4>1. i \in 1..(n - 1) /\ i + 1 \in 1..n
        BY <2>1, <3>2
      <4>2. QED
        BY <2>2, <2>3, <4>1
    <3>3. QED
      BY <3>1, <3>2
  <2>7. n + 1 <= MaxFrames /\ (n + 1) - 1 = n
    BY <2>1, BoundsAssumption
  <2>8. StackIs(r, sessions)
    BY <2>3, <2>5, <2>6, <2>7 DEF StackIs, F
  <2>9. QED
    BY <2>4, <2>8 DEF r
<1>17. StackIs(stack', sessions') /\ stack' # <<>> /\ Top' = g
  BY <1>1, <1>3, <1>16 DEF Top
<1>18. QED
  BY <1>1, <1>13, <1>17, SetupKeeps

LEMMA RunStack ==
  ASSUME ConversationInv, Run
  PROVE  StackOK' /\ stack' # <<>> /\ Top'.stage = "entering"
<1> DEFINE root == setup.root
           history == setup.history
           g == Frame(root, history, 0)
           s == <<g>>
           F == TypedFrames(sessions)
<1>1. stack' = s /\ setup' = setup /\ sessions' = sessions
  BY DEF Run
<1>2. setup \in Setups /\ sessions \in Nat
  BY DEF ConversationInv, RestOK
<1>3. root \in Names /\ history \in Conversations
  BY <1>2, SetupType
<1>4. Answering => ResultsHaveCalls(history)
  BY DEF Answering
<1> HIDE DEF root, history
<1>5. /\ g \in F /\ g.stage = "entering" /\ g.msgs = history /\ g.turn = 0 /\ g.agent \in Names
  BY <1>2, <1>3 DEF Frame, TypedFrames, Stages
<1> HIDE DEF g
<1>6. Sound(g)
  <2>1. MaxTurnsOf(g) \in Nat
    <3>1. setup.maxTurns \in Nat /\ setup.agent[g.agent].maxTurns \in Nat
      BY <1>2, <1>5, SetupType
    <3>2. QED
      BY <3>1 DEF MaxTurnsOf, Config
  <2>2. QED
    BY <1>4, <1>5, <2>1 DEF Sound
<1>7. StackIs(s, sessions) /\ Last(s) = g /\ s # <<>>
  <2> HIDE DEF F
  <2>1. s \in Seq(F) /\ Len(s) = 1 /\ s[1] = g
    BY <1>5
  <2> HIDE DEF s
  <2>2. Last(s) = g /\ s # <<>>
    BY <2>1 DEF Last
  <2>3. Len(s) <= MaxFrames
    BY <2>1, BoundsAssumption
  <2>4. QED
    BY <1>6, <2>1, <2>2, <2>3 DEF StackIs, F
<1> HIDE DEF s
<1>8. StackIs(stack', sessions')
  BY <1>1, <1>7
<1>9. QED
  BY <1>1, <1>5, <1>7, <1>8, SetupKeeps DEF Top

LEMMA ReturnStack ==
  ASSUME ConversationInv, Return
  PROVE  /\ stack # <<>> /\ ret.status # "none"
         /\ UNCHANGED <<setup, runs, store, memory, sessions, llm>>
         /\ StackOK'
         /\ ret' \in Returns /\ ret'.status = ret.status
         /\ log' \in Seq(Callbacks)
<1>1. /\ stack # <<>> /\ ret.status # "none" /\ stack' = Front(stack)
      /\ UNCHANGED <<setup, runs, store, memory, sessions, llm>>
  BY DEF Return
<1> DEFINE n == Len(stack) - 1
           F == TypedFrames(sessions)
           s == SubSeq(stack, 1, n)
<1>2. /\ stack \in Seq(F) /\ Len(stack) \in Nat \ {0} /\ Len(stack) <= MaxFrames
      /\ \A i \in 1..Len(stack) : Sound(stack[i])
      /\ \A i \in 1..(Len(stack) - 1) : Carries(stack[i], stack[i + 1])
  BY <1>1, TopTyped DEF ConversationInv, StackOK, StackIs
<1>3. n \in Nat /\ Len(stack) = n + 1 /\ stack' = s
  BY <1>1, <1>2 DEF Front
<1> HIDE DEF F
<1>4. \A i \in 1..n : stack[i] \in F
  BY <1>2, <1>3
<1> HIDE DEF n
<1>5. /\ s \in Seq(F)
      /\ Len(s) = IF 1 <= n THEN n - 1 + 1 ELSE 0
      /\ \A i \in 1..(n - 1 + 1) : s[i] = stack[1 + i - 1]
  BY <1>3, <1>4, SubSeqProperties
<1> HIDE DEF s
<1>6. Len(s) = n /\ \A i \in 1..n : s[i] = stack[i]
  BY <1>3, <1>5
<1>7. StackIs(s, sessions)
  <2>1. Len(s) <= MaxFrames
    BY <1>2, <1>3, <1>6, BoundsAssumption
  <2>2. \A i \in 1..n : Sound(s[i])
    BY <1>2, <1>3, <1>6
  <2>3. ASSUME NEW i \in 1..(n - 1) PROVE Carries(s[i], s[i + 1])
    <3>1. i \in 1..n /\ i + 1 \in 1..n /\ i \in 1..(Len(stack) - 1)
      BY <1>3
    <3>2. QED
      BY <1>2, <1>6, <3>1
  <2>4. QED
    BY <1>5, <1>6, <2>1, <2>2, <2>3 DEF StackIs, F
<1>8. StackOK'
  BY <1>1, <1>3, <1>7, SetupKeeps
<1>9. ret \in Returns /\ log \in Seq(Callbacks)
  BY DEF ConversationInv, RestOK
<1>10. CASE Len(stack) = 1
  BY <1>1, <1>8, <1>9, <1>10 DEF Return
<1>11. CASE Len(stack) # 1
  <2> DEFINE caller == stack[n]
             a == caller.agent
             ended == <<Event("ended", a), Event("post", a)>>
  <2>1. a \in Names
    <3>1. n \in 1..n
      BY <1>2, <1>3, <1>11
    <3>2. stack[n] \in F
      BY <1>4, <3>1
    <3>3. QED
      BY <3>2 DEF F, TypedFrames
  <2>2. /\ ret' = IF ret.status = "ok" THEN [ret EXCEPT !.from = a] ELSE ret
        /\ log' = log \o Unwound(caller)
    BY <1>11 DEF Return, n
  <2>3. Unwound(caller) = IF ret.status = "ok" THEN ended ELSE <<>>
    BY DEF Unwound
  <2>4. ended \in Seq(Callbacks)
    BY <2>1 DEF Event, Callbacks, Names
  <2>5. <<>> \in Seq(Callbacks)
    OBVIOUS
  <2> HIDE DEF ended
  <2>6. log' \in Seq(Callbacks)
    BY <1>9, <2>2, <2>3, <2>4, <2>5
  <2>7. ret' \in Returns /\ ret'.status = ret.status
    BY <1>9, <2>1, <2>2 DEF Returns, Names
  <2>8. QED
    BY <1>1, <1>8, <2>6, <2>7
<1>12. QED
  BY <1>10, <1>11

-----------------------------------------------------------------------------
LEMMA CallbackType ==
  ASSUME NEW a \in Names, log \in Seq(Callbacks)
  PROVE  /\ \A what \in {"pre", "ended", "post"} : Append(log, Event(what, a)) \in Seq(Callbacks)
         /\ log \o <<Event("ended", a), Event("post", a)>> \in Seq(Callbacks)
<1>1. \A what \in {"pre", "ended", "post"} : Event(what, a) \in Callbacks
  BY DEF Event, Callbacks, Names
<1> DEFINE d == Event("ended", a)
           e == Event("post", a)
<1>2. d \in Callbacks /\ e \in Callbacks
  BY <1>1
<1> HIDE DEF d, e
<1>3. log \o <<d, e>> \in Seq(Callbacks)
  BY <1>2
<1>4. QED
  BY <1>1, <1>3 DEF d, e

(* Nothing the runs keep changes.                                          *)
LEMMA KeptStays ==
  ASSUME ConversationInv, UNCHANGED <<setup, store, memory>>, sessions' \in Nat,
         sessions <= sessions'
  PROVE  KeptOK'
<1>1. sessions \in Nat /\ IsHistory(store) /\ IsHistory(memory)
  BY DEF ConversationInv, RestOK, KeptOK
<1>2. Conversations' = Conversations /\ Answering' = Answering /\ store' = store /\ memory' = memory
  BY SetupKeeps
<1>3. 0..sessions \subseteq 0..sessions'
  BY <1>1
<1>4. IsHistory(store)' /\ IsHistory(memory)'
  BY <1>1, <1>2, <1>3 DEF IsHistory
<1>5. (Answering => \A s \in DOMAIN store : ResultsHaveCalls(store[s]))'
  BY <1>2 DEF ConversationInv, KeptOK
<1>6. QED
  BY <1>4, <1>5 DEF KeptOK

LEMMA GivesUpKeeps ==
  ASSUME ConversationInv, GivesUp
  PROVE  ConversationInv'
<1>1. /\ Running /\ UNCHANGED <<setup, runs, stack, store, memory, llm>>
      /\ sessions' \in {sessions, sessions + 1}
      /\ \/ log' = log
         \/ log' = Append(log, Event("pre", Top.agent))
         \/ log' = Append(log, Event("ended", Top.agent))
      /\ \E reason \in {"hook", "noProvider", "prompt", "inputGuard", "maxTurns",
                        "provider", "outputGuard", "cancelled", "depth"} : ReturnError(reason)
  BY DEF GivesUp, RefuseByHook, Refuse, EnterRun, ExceedTurns, ProviderFails,
         OutputRefused, CancelledWhileThrottled, ExceedDepth, At
<1>2. sessions \in Nat /\ sessions' \in Nat /\ sessions <= sessions'
  BY <1>1 DEF ConversationInv, RestOK
<1>3. Top.agent \in Names
  BY <1>1, TopTyped DEF Running, ConversationInv, TypedFrames
<1>4. ret' \in Returns' /\ ret'.status = "error"
  <2>1. PICK reason \in {"hook", "noProvider", "prompt", "inputGuard", "maxTurns",
                        "provider", "outputGuard", "cancelled", "depth"} : ReturnError(reason)
    BY <1>1
  <2>2. ret' = [status |-> "error", reason |-> reason, agent |-> Top.agent, session |-> 0,
                from |-> ""]
    BY <2>1 DEF ReturnError, NoResult
  <2>3. Returns' = [status : {"none", "error", "ok"},
          reason : {"", "hook", "noProvider", "prompt", "inputGuard", "maxTurns",
                    "provider", "outputGuard", "cancelled", "depth"},
          agent : Names \union {""}, session : 0..sessions', from : Names \union {""}]
    BY <1>1 DEF Returns, Names
  <2>4. 0 \in 0..sessions'
    BY <1>2
  <2>5. QED
    BY <1>3, <2>2, <2>3, <2>4
<1>5. log' \in Seq(Callbacks)
  BY <1>1, <1>3, CallbackType DEF ConversationInv, RestOK
<1>6. StackOK'
  <2>1. TypedFrames(sessions) \subseteq TypedFrames(sessions')
    BY <1>2, MoreSessions
  <2>2. stack' = stack
    BY <1>1
  <2>3. StackIs(stack', sessions')
    <3> DEFINE F == TypedFrames(sessions')
               G == TypedFrames(sessions)
    <3>1. stack \in Seq(G) /\ G \subseteq F
      BY <2>1 DEF ConversationInv, StackOK, StackIs
    <3> HIDE DEF F, G
    <3>2. stack \in Seq(F)
      BY <3>1, SeqMonotonic
    <3>3. QED
      BY <2>2, <3>2 DEF ConversationInv, StackOK, StackIs, F
  <2>4. QED
    BY <1>1, <2>3, SetupKeeps
<1>7. KeptOK'
  BY <1>1, <1>2, KeptStays
<1>8. Pending'
  BY <1>4 DEF Pending, Running
<1>9. RestOK'
  BY <1>1, <1>2, <1>4, <1>5, SetupKeeps DEF ConversationInv, RestOK
<1>10. QED
  BY <1>6, <1>7, <1>8, <1>9 DEF ConversationInv

(* The steps of the loop that end nothing, and its beginning.              *)
LEMMA MovingKeeps ==
  ASSUME ConversationInv, stack # <<>>, Running, UNCHANGED <<setup, runs, ret, store, memory>>,
         sessions' \in Nat, sessions <= sessions', llm' \in Nat, log' \in Seq(Callbacks),
         StackOK',
         Answering => (Top'.stage \in {"throttled", "batch"} => Called(Top'.msgs, llm'))
  PROVE  ConversationInv'
<1>1. KeptOK'
  BY KeptStays
<1>2. Pending'
  BY SetupKeeps DEF Pending
<1>3. ret' \in Returns'
  <2>1. sessions \in Nat /\ ret \in Returns /\ 0..sessions \subseteq 0..sessions'
    BY DEF ConversationInv, RestOK
  <2>2. Returns' = [status : {"none", "error", "ok"},
          reason : {"", "hook", "noProvider", "prompt", "inputGuard", "maxTurns",
                    "provider", "outputGuard", "cancelled", "depth"},
          agent : Names \union {""}, session : 0..sessions', from : Names \union {""}]
    BY DEF Returns, Names
  <2>3. ret \in [status : {"none", "error", "ok"},
          reason : {"", "hook", "noProvider", "prompt", "inputGuard", "maxTurns",
                    "provider", "outputGuard", "cancelled", "depth"},
          agent : Names \union {""}, session : 0..sessions, from : Names \union {""}]
    BY <2>1 DEF Returns, Names
  <2>4. QED
    BY <2>1, <2>2, <2>3
<1>4. RestOK'
  BY <1>3, SetupKeeps DEF ConversationInv, RestOK
<1>5. QED
  BY <1>1, <1>2, <1>4 DEF ConversationInv

LEMMA LoopKeeps ==
  ASSUME ConversationInv, Begin \/ SendPrompt \/ RequestTools \/ MinutePasses \/ ExecuteBatch
                          \/ HandOff
  PROVE  ConversationInv'
<1>1. setup \in Setups /\ llm \in Nat /\ log \in Seq(Callbacks) /\ sessions \in Nat
  BY DEF ConversationInv, RestOK
<1>2. CASE Begin
  <2>1. /\ stack # <<>> /\ Running /\ UNCHANGED <<setup, runs, ret, store, memory, llm>>
        /\ sessions' \in Nat /\ sessions <= sessions'
        /\ log' = Append(log, Event("pre", Top.agent))
        /\ \E f : MovesTo(f) /\ f.stage = "turn"
    BY <1>2, BeginMoves
  <2>2. PICK f : MovesTo(f) /\ f.stage = "turn"
    BY <2>1
  <2>3. StackOK' /\ Top' = f
    BY <2>1, <2>2, MoveKeeps
  <2>4. Top.agent \in Names
    BY <2>1, TopTyped DEF ConversationInv, TypedFrames
  <2>5. log' \in Seq(Callbacks)
    BY <1>1, <2>1, <2>4, CallbackType
  <2>6. QED
    BY <1>1, <2>1, <2>2, <2>3, <2>5, MovingKeeps
<1>3. CASE SendPrompt
  <2>1. /\ stack # <<>> /\ Running
        /\ UNCHANGED <<setup, runs, ret, store, memory, sessions, log>>
        /\ llm' \in Nat
        /\ \E f : MovesTo(f) /\ f.stage = "asked"
    BY <1>3, SendPromptMoves
  <2>2. PICK f : MovesTo(f) /\ f.stage = "asked"
    BY <2>1
  <2>3. sessions' \in Nat /\ sessions <= sessions'
    BY <1>1, <2>1
  <2>4. StackOK' /\ Top' = f
    BY <2>1, <2>2, <2>3, MoveKeeps
  <2>5. QED
    BY <1>1, <2>1, <2>2, <2>3, <2>4, MovingKeeps
<1>4. CASE RequestTools \/ MinutePasses
  <2>1. /\ stack # <<>> /\ Running
        /\ UNCHANGED <<setup, runs, ret, store, memory, sessions, llm, log>>
        /\ \E f : MovesTo(f) /\ (Answering => Called(f.msgs, llm))
    BY <1>4, RequestToolsMoves, MinutePassesMoves
  <2>2. PICK f : MovesTo(f) /\ (Answering => Called(f.msgs, llm))
    BY <2>1
  <2>3. sessions' \in Nat /\ sessions <= sessions' /\ llm' = llm
    BY <1>1, <2>1
  <2>4. StackOK' /\ Top' = f
    BY <2>1, <2>2, <2>3, MoveKeeps
  <2>5. QED
    BY <1>1, <2>1, <2>2, <2>3, <2>4, MovingKeeps
<1>5. CASE ExecuteBatch
  <2>1. /\ stack # <<>> /\ Running
        /\ UNCHANGED <<setup, runs, ret, store, memory, sessions, llm, log>>
        /\ \E f : MovesTo(f) /\ f.stage = "turn"
    BY <1>5, ExecuteBatchMoves
  <2>2. PICK f : MovesTo(f) /\ f.stage = "turn"
    BY <2>1
  <2>3. sessions' \in Nat /\ sessions <= sessions'
    BY <1>1, <2>1
  <2>4. StackOK' /\ Top' = f
    BY <2>1, <2>2, <2>3, MoveKeeps
  <2>5. QED
    BY <1>1, <2>1, <2>2, <2>3, <2>4, MovingKeeps
<1>6. CASE HandOff
  <2>1. /\ stack # <<>> /\ Running
        /\ UNCHANGED <<setup, runs, ret, store, memory, sessions, llm, log>>
        /\ StackOK' /\ Top'.stage = "entering"
    BY <1>6, HandOffMoves
  <2>2. QED
    BY <1>1, <2>1, MovingKeeps
<1>7. QED
  BY <1>2, <1>3, <1>4, <1>5, <1>6

(* The answer goes to the memory and the store.                            *)
LEMMA FinalAnswerKeeps ==
  ASSUME ConversationInv, FinalAnswer
  PROVE  ConversationInv'
<1>1. /\ stack # <<>> /\ Running /\ UNCHANGED <<setup, runs, sessions, llm>>
      /\ \E f : MovesTo(f) /\ f.stage = "asked"
  BY FinalAnswerMoves
<1>2. /\ setup \in Setups /\ llm \in Nat /\ log \in Seq(Callbacks) /\ sessions \in Nat
      /\ IsHistory(store) /\ IsHistory(memory)
  BY DEF ConversationInv, RestOK, KeptOK
<1>3. sessions' \in Nat /\ sessions <= sessions'
  BY <1>1, <1>2
<1>4. StackOK'
  BY <1>1, <1>3, MoveKeeps
<1>5. /\ Top \in TypedFrames(sessions) /\ Sound(Top)
  BY <1>1, TopTyped DEF ConversationInv
<1>6. Top.agent \in Names /\ Top.session \in 0..sessions
  BY <1>5 DEF TypedFrames
<1>7. /\ Answered \in Conversations
      /\ Answering => ResultsHaveCalls(Answered)
  BY <1>1, SaidMore DEF Answered
<1> DEFINE kept == WithoutSystem(Answered)
           last == LastPersisted(Answered, Config(Top).memory)
           s == Top.session
<1>8. /\ kept \in Conversations /\ last \in Conversations
      /\ Answering => ResultsHaveCalls(kept)
  <2>1. Answered \in Seq(Messages(DOMAIN setup.agent)) /\ Config(Top).memory \in Nat
    BY <1>2, <1>6, <1>7, SetupType DEF Conversations, Config
  <2>2. QED
    BY <1>7, <2>1, LastPersistedTyped, AnswersPersisted DEF Conversations
<1>9. store' = Save(store, s, kept) \/ store' = store
  BY DEF FinalAnswer
<1>10. memory' = Save(memory, s, last) \/ memory' = memory
  BY DEF FinalAnswer
<1> HIDE DEF kept, last, s
<1>11. IsHistory(store') /\ IsHistory(memory')
  BY <1>2, <1>6, <1>8, <1>9, <1>10, HistoryWritten DEF s
<1>12. Answering => \A t \in DOMAIN store' : ResultsHaveCalls(store'[t])
  <2>1. Answering => \A t \in DOMAIN store : ResultsHaveCalls(store[t])
    BY DEF ConversationInv, KeptOK
  <2>2. CASE store' = store
    BY <2>1, <2>2
  <2>3. CASE store' = Save(store, s, kept)
    BY <1>8, <2>1, <2>3 DEF Save
  <2>4. QED
    BY <1>9, <2>2, <2>3
<1>13. KeptOK'
  <2>1. Conversations' = Conversations /\ Answering' = Answering
    BY <1>1, SetupKeeps
  <2>2. IsHistory(store)' /\ IsHistory(memory)'
    BY <1>1, <1>11, <2>1 DEF IsHistory
  <2>3. QED
    BY <1>12, <2>1, <2>2 DEF KeptOK
<1>14. /\ ret' = [status |-> "ok", reason |-> "", agent |-> Top.agent, session |-> Top.session,
                  from |-> ""]
       /\ log' = log \o <<Event("ended", Top.agent), Event("post", Top.agent)>>
  BY DEF FinalAnswer, NoResult
<1>15. ret' \in Returns' /\ ret'.status = "ok"
  <2>1. Returns' = [status : {"none", "error", "ok"},
          reason : {"", "hook", "noProvider", "prompt", "inputGuard", "maxTurns",
                    "provider", "outputGuard", "cancelled", "depth"},
          agent : Names \union {""}, session : 0..sessions, from : Names \union {""}]
    BY <1>1 DEF Returns, Names
  <2>2. QED
    BY <1>6, <1>14, <2>1
<1>16. log' \in Seq(Callbacks)
  BY <1>2, <1>6, <1>14, CallbackType
<1>17. RestOK'
  BY <1>1, <1>15, <1>16, SetupKeeps DEF ConversationInv, RestOK
<1>18. Pending'
  BY <1>15 DEF Pending, Running
<1>19. QED
  BY <1>4, <1>13, <1>17, <1>18 DEF ConversationInv

LEMMA RunKeeps ==
  ASSUME ConversationInv, Run
  PROVE  ConversationInv'
<1>1. /\ UNCHANGED <<setup, store, memory, sessions, llm>> /\ runs < MaxRuns /\ runs' = runs + 1
      /\ ret' = NoResult /\ log' = <<>>
  BY DEF Run
<1>2. StackOK' /\ Top'.stage = "entering"
  BY RunStack
<1>3. sessions' \in Nat /\ sessions <= sessions' /\ sessions \in Nat /\ runs \in 0..MaxRuns
  BY <1>1 DEF ConversationInv, RestOK
<1>4. KeptOK'
  BY <1>1, <1>3, KeptStays
<1>5. Pending'
  BY <1>2 DEF Pending
<1>6. ret' \in Returns'
  <2>1. 0 \in 0..sessions'
    BY <1>3
  <2>2. QED
    BY <1>1, <2>1 DEF Returns, NoResult
<1>7. runs' \in 0..MaxRuns
  BY <1>1, <1>3, BoundsAssumption
<1>8. log' \in Seq(Callbacks')
  BY <1>1
<1>9. RestOK'
  BY <1>1, <1>6, <1>7, <1>8 DEF ConversationInv, RestOK
<1>10. QED
  BY <1>2, <1>4, <1>5, <1>9 DEF ConversationInv

LEMMA ReturnKeeps ==
  ASSUME ConversationInv, Return
  PROVE  ConversationInv'
<1>1. /\ ret.status # "none"
      /\ UNCHANGED <<setup, runs, store, memory, sessions, llm>>
      /\ StackOK'
      /\ ret' \in Returns /\ ret'.status = ret.status
      /\ log' \in Seq(Callbacks)
  BY ReturnStack
<1>2. sessions' \in Nat /\ sessions <= sessions'
  BY <1>1 DEF ConversationInv, RestOK
<1>3. KeptOK'
  BY <1>1, <1>2, KeptStays
<1>4. Pending'
  BY <1>1 DEF Pending, Running
<1>5. Returns' = Returns
  BY <1>1 DEF Returns
<1>6. RestOK'
  BY <1>1, <1>5, SetupKeeps DEF ConversationInv, RestOK
<1>7. QED
  BY <1>1, <1>3, <1>4, <1>6 DEF ConversationInv

LEMMA ConversationInitial == Init => ConversationInv
<1> SUFFICES ASSUME Init PROVE ConversationInv
  OBVIOUS
<1>1. /\ setup \in Setups /\ runs = 0 /\ stack = <<>> /\ ret = NoResult /\ store = <<>>
      /\ memory = <<>> /\ sessions = 0 /\ llm = 0 /\ log = <<>>
  BY DEF Init
<1>2. StackOK
  <2> DEFINE s == <<>>
             F == TypedFrames(sessions)
  <2>1. s \in Seq(F) /\ Len(s) = 0 /\ stack = s /\ 0 <= MaxFrames
    BY <1>1, BoundsAssumption
  <2>2. 1..Len(s) = {} /\ 1..(Len(s) - 1) = {}
    BY <2>1
  <2> HIDE DEF s, F
  <2>3. StackIs(s, sessions)
    BY <2>1, <2>2 DEF StackIs, F
  <2>4. QED
    BY <2>1, <2>3 DEF StackOK
<1>3. KeptOK
  BY <1>1 DEF KeptOK, IsHistory
<1>4. Pending
  BY <1>1 DEF Pending, Running
<1>5. ret \in Returns
  <2>1. 0 \in 0..sessions
    BY <1>1
  <2>2. QED
    BY <1>1, <2>1 DEF Returns, NoResult
<1>6. log \in Seq(Callbacks)
  BY <1>1
<1>7. RestOK
  BY <1>1, <1>5, <1>6, BoundsAssumption DEF RestOK
<1>8. QED
  BY <1>2, <1>3, <1>4, <1>7 DEF ConversationInv

(* Each step keeps the invariant.                                          *)
LEMMA ConversationStep ==
  ASSUME ConversationInv, [Next]_vars
  PROVE  ConversationInv'
<1>1. CASE UNCHANGED vars
  <2>1. UNCHANGED <<setup, runs, stack, ret, store, memory, sessions, llm, log>>
    BY <1>1 DEF vars
  <2>2. sessions' \in Nat /\ sessions <= sessions'
    BY <2>1 DEF ConversationInv, RestOK
  <2>3. KeptOK'
    BY <2>1, <2>2, KeptStays
  <2>4. Returns' = Returns
    BY <2>1 DEF Returns
  <2>5. RestOK'
    BY <2>1, <2>4, SetupKeeps DEF ConversationInv, RestOK
  <2>6. StackOK'
    BY <2>1, SetupKeeps DEF ConversationInv, StackOK
  <2>7. Pending'
    BY <2>1, SetupKeeps DEF ConversationInv, Pending, Running, Top
  <2>8. QED
    BY <2>3, <2>5, <2>6, <2>7 DEF ConversationInv
<1>2. CASE Run
  BY <1>2, RunKeeps
<1>3. CASE GivesUp
  BY <1>3, GivesUpKeeps
<1>4. CASE GoesOn \/ Begin \/ HandOff
  BY <1>4, LoopKeeps DEF GoesOn
<1>5. CASE FinalAnswer
  BY <1>5, FinalAnswerKeeps
<1>6. CASE Return
  BY <1>6, ReturnKeeps
<1>7. QED
  BY <1>1, <1>2, <1>3, <1>4, <1>5, <1>6, StepCases DEF Next

(* In every reachable state, for every setup: frames and what is kept are  *)
(* typed, a run holds its instructions and, where nothing is trimmed, the  *)
(* call of every result and the conversation it was handed.                *)
THEOREM Conversing == Spec => []ConversationInv
BY ConversationInitial, ConversationStep, PTL DEF Spec

(* Frames, results, histories and callbacks are what the type invariant    *)
(* says, and no loop of run makes more turns than it may.                  *)
THEOREM RunsTyped == Spec => []TypeOK
<1>1. ConversationInv => TypeOK
  <2> SUFFICES ASSUME ConversationInv PROVE TypeOK
    OBVIOUS
  <2>1. RunFrames = TypedFrames(sessions)
    BY DEF RunFrames, TypedFrames, Names
  <2>2. stack \in Seq(RunFrames) /\ Len(stack) <= MaxFrames
    BY <2>1 DEF ConversationInv, StackOK, StackIs
  <2>3. \A i \in DOMAIN stack : stack[i].turn <= MaxTurnsOf(stack[i])
    BY <2>2 DEF ConversationInv, StackOK, StackIs, Sound
  <2>4. QED
    BY <2>2, <2>3 DEF ConversationInv, RestOK, KeptOK, TypeOK
<1>2. QED
  BY Conversing, <1>1, PTL

(* Every prompt starts with the agent's own instructions, whatever was     *)
(* trimmed, summarized or handed over, and where nothing is trimmed every  *)
(* tool result in it comes after its call.                                 *)
THEOREM PromptsAreWellFormed == Spec => []PromptsWellFormed
<1>1. ConversationInv => PromptsWellFormed
  <2> SUFFICES ASSUME ConversationInv PROVE PromptsWellFormed
    OBVIOUS
  <2>1. \A i \in DOMAIN stack : Sound(stack[i])
    BY DEF ConversationInv, StackOK, StackIs
  <2>2. InstructionsLead
    BY <2>1 DEF InstructionsLead, Sound, Led
  <2>3. QED
    BY <2>1, <2>2 DEF PromptsWellFormed, Sound, Answering
<1>2. QED
  BY Conversing, <1>1, PTL

(* A target that drops nothing sees, within its own conversation, all of   *)
(* what was said before the hand-off, through every chain of hand-offs.    *)
THEOREM HandoffsKeepConversation == Spec => []HandoffKeepsConversation
<1>1. ConversationInv => HandoffKeepsConversation
  BY DEF ConversationInv, StackOK, StackIs, HandoffKeepsConversation,
         HandoffCarriesConversation, Carries, Lossless
<1>2. QED
  BY Conversing, <1>1, PTL

-----------------------------------------------------------------------------
(* What is saved.  A run saves an extension of what it read.               *)

Unspoken(msgs) == Range(msgs) \subseteq Persisted(Names)

(* What the last frame would save begins with what is saved.               *)
Continues(f) ==
  \E rest \in Conversations : WithoutSystem(f.msgs) = Saved(store, f.session) \o rest

Continuing ==
  ReadableUntrimmed /\ Running /\ Config(Top).store /\ Top.stage # "entering" =>
    Continues(Top)

GrowInv ==
  /\ ConversationInv
  /\ \A s \in DOMAIN store : Unspoken(store[s])
  /\ Continuing

LEMMA TopIs ==
  ASSUME ConversationInv, stack # <<>>, NEW f, SetTop(f)
  PROVE  Top' = f
<1> DEFINE F == TypedFrames(sessions) \union {f}
           s == [stack EXCEPT ![Len(stack)] = f]
<1>1. stack \in Seq(TypedFrames(sessions)) /\ Len(stack) \in Nat \ {0}
  BY TopTyped DEF ConversationInv, StackOK, StackIs
<1>2. stack \in Seq(F)
  <2> DEFINE E == TypedFrames(sessions)
  <2>1. E \subseteq F
    OBVIOUS
  <2> HIDE DEF E, F
  <2>2. QED
    BY <1>1, <2>1, SeqMonotonic DEF E
<1>3. f \in F
  OBVIOUS
<1> HIDE DEF F
<1>4. Len(s) = Len(stack) /\ s[Len(stack)] = f
  BY <1>1, <1>2, <1>3, ExceptSeq
<1>5. stack' = s
  BY DEF SetTop
<1> HIDE DEF s
<1>6. QED
  BY <1>4, <1>5 DEF Top, Last

(* What is persisted of two parts of a conversation.                       *)
LEMMA PersistedJoin ==
  ASSUME NEW u \in Conversations, NEW v \in Conversations
  PROVE  /\ u \o v \in Conversations
         /\ WithoutSystem(u) \in Conversations
         /\ WithoutSystem(u \o v) = WithoutSystem(u) \o WithoutSystem(v)
<1> DEFINE A == Names
           M == Messages(A)
           T == Persisted(A)
<1>1. Conversations = Seq(M)
  BY DEF Conversations, Names
<1> HIDE DEF M, T
<1>2. u \in Seq(M) /\ v \in Seq(M) /\ u \o v \in Seq(M)
  BY <1>1
<1>3. \A w \in Seq(M) : WithoutSystem(w) = Among(w, T)
  BY WithoutSystemAmong DEF M, T
<1>4. Among(u, T) \in Seq(M)
  BY <1>2, AmongTyped
<1>5. Among(u \o v, T) = Among(u, T) \o Among(v, T)
  BY <1>2, AmongConcat
<1>6. QED
  BY <1>1, <1>2, <1>3, <1>4, <1>5

LEMMA PersistedAlready ==
  ASSUME NEW u \in Conversations
  PROVE  /\ Unspoken(WithoutSystem(u))
         /\ Unspoken(u) => WithoutSystem(u) = u
<1> DEFINE M == Messages(Names)
           T == Persisted(Names)
<1>1. u \in Seq(M)
  BY DEF Conversations, Names
<1>2. WithoutSystem(u) = Among(u, T)
  BY <1>1, WithoutSystemAmong
<1> HIDE DEF M, T
<1>3. Range(Among(u, T)) = Range(u) \cap T
  BY <1>1, AmongRange
<1>4. Range(u) \subseteq T => Among(u, T) = u
  BY <1>1, AmongAll
<1>5. QED
  BY <1>2, <1>3, <1>4 DEF Unspoken, T

(* A run that says more still continues what is saved.                     *)
LEMMA SayingContinues ==
  ASSUME NEW u \in Conversations, NEW v \in Conversations, NEW kept \in Conversations,
         \E rest \in Conversations : WithoutSystem(u) = kept \o rest
  PROVE  \E rest \in Conversations : WithoutSystem(u \o v) = kept \o rest
<1> DEFINE M == Messages(Names)
           q == WithoutSystem(v)
<1>1. Conversations = Seq(M)
  BY DEF Conversations, Names
<1>2. PICK p \in Conversations : WithoutSystem(u) = kept \o p
  OBVIOUS
<1>3. WithoutSystem(u \o v) = WithoutSystem(u) \o q /\ q \in Conversations
  BY PersistedJoin
<1> HIDE DEF M, q
<1>4. (kept \o p) \o q = kept \o (p \o q) /\ p \o q \in Seq(M)
  BY SMTT(40), <1>1, <1>2, <1>3, ConcatAssociative
<1>5. QED
  BY <1>1, <1>2, <1>3, <1>4

(* The setup and the store tell what a run continues.                      *)
LEMMA ContinuesStays ==
  ASSUME setup' = setup, store' = store
  PROVE  /\ ReadableUntrimmed' = ReadableUntrimmed
         /\ \A f : Continues(f)' = Continues(f)
         /\ \A f : Config(f)' = Config(f)
         /\ \A u : Unspoken(u)' = Unspoken(u)
BY DEF ReadableUntrimmed, Fails, Continues, Conversations, Config, Unspoken, Persisted,
       Names, Saved

LEMMA StoreType ==
  ASSUME ConversationInv, NEW s
  PROVE  Saved(store, s) \in Conversations
BY HistoryRead DEF ConversationInv, KeptOK

(* The last frame says more, or nothing, in the same session.              *)
LEMMA SpeakingKeeps ==
  ASSUME GrowInv, stack # <<>>, Running, Top.stage # "entering",
         setup' = setup, store' = store, NEW f, SetTop(f),
         f.agent = Top.agent, f.session = Top.session,
         ReadableUntrimmed =>
           f.msgs = Top.msgs \/ \E more \in Conversations : f.msgs = Top.msgs \o more
  PROVE  Continuing'
<1> SUFFICES ASSUME ReadableUntrimmed, Config(f).store
             PROVE  Continues(f)
  BY TopIs, ContinuesStays DEF GrowInv, Continuing
<1>1. Config(Top).store
  BY DEF Config
<1>2. Continues(Top)
  BY <1>1 DEF GrowInv, Continuing
<1>3. Top.msgs \in Conversations
  BY TopTyped DEF GrowInv, ConversationInv, TypedFrames
<1>4. CASE f.msgs = Top.msgs
  BY <1>2, <1>4 DEF Continues
<1>5. ASSUME NEW more \in Conversations, f.msgs = Top.msgs \o more PROVE Continues(f)
  <2> DEFINE kept == Saved(store, Top.session)
  <2>1. kept \in Conversations
    BY StoreType DEF GrowInv
  <2>2. \E rest \in Conversations : WithoutSystem(Top.msgs) = kept \o rest
    BY <1>2 DEF Continues
  <2> HIDE DEF kept
  <2>3. \E rest \in Conversations : WithoutSystem(Top.msgs \o more) = kept \o rest
    BY ZenonT(60), <1>3, <2>1, <2>2, SayingContinues
  <2>4. QED
    BY <1>5, <2>3 DEF Continues, kept
<1>6. QED
  BY <1>4, <1>5
LEMMA LoopContinues ==
  ASSUME GrowInv, GoesOn
  PROVE  Continuing' /\ UNCHANGED <<setup, store>>
<1>1. ConversationInv /\ setup \in Setups /\ llm \in Nat
  BY DEF GrowInv, ConversationInv, RestOK
<1>2. /\ stack # <<>> /\ Running /\ Top.stage # "entering" /\ UNCHANGED <<setup, store>>
  BY DEF GoesOn, SendPrompt, RequestTools, MinutePasses, ExecuteBatch, At, Running
<1>3. Top \in TypedFrames(sessions)
  BY <1>1, <1>2, TopTyped DEF ConversationInv
<1>4. Top.agent \in Names
  BY <1>3 DEF TypedFrames
<1>5. CASE SendPrompt
  <2>1. PICK summarized \in Succeeds("summary") :
          SetTop([Top EXCEPT !.stage = "asked", !.msgs = ManageContext(Top, summarized)])
    BY <1>5 DEF SendPrompt
  <2> DEFINE msgs == ManageContext(Top, summarized)
             f == [Top EXCEPT !.stage = "asked", !.msgs = msgs]
  <2>2. ReadableUntrimmed => msgs = Top.msgs
    BY <1>4 DEF ReadableUntrimmed, ManageContext, Config, Names
  <2>3. SetTop(f)
    BY <2>1
  <2> HIDE DEF msgs
  <2>4. f.agent = Top.agent /\ f.session = Top.session /\ f.msgs = msgs
    BY <1>3 DEF TypedFrames
  <2> HIDE DEF f
  <2>5. QED
    BY <1>2, <2>2, <2>3, <2>4, SpeakingKeeps
<1>6. CASE RequestTools
  <2>1. PICK batch \in setup.batches, minuteOver \in BOOLEAN :
          LET limit == Config(Top).rateLimit
              calls == (IF minuteOver THEN 0 ELSE Top.calls) + Len(batch)
          IN  SetTop([Top EXCEPT
                !.stage = IF limit > 0 /\ calls > limit THEN "throttled" ELSE "batch",
                !.calls = IF limit > 0 THEN calls ELSE 0,
                !.batch = batch,
                !.msgs  = Requested])
    BY <1>6 DEF RequestTools
  <2> DEFINE limit == Config(Top).rateLimit
             counted == (IF minuteOver THEN 0 ELSE Top.calls) + Len(batch)
             stage == IF limit > 0 /\ counted > limit THEN "throttled" ELSE "batch"
             calls == IF limit > 0 THEN counted ELSE 0
             f == [Top EXCEPT !.stage = stage, !.calls = calls, !.batch = batch,
                              !.msgs = Requested]
             m == Message("call", Top.agent, llm, setup.size)
             one == <<m>>
  <2>2. SetTop(f)
    BY <2>1
  <2>3. one \in Conversations /\ Requested = Top.msgs \o one
    <3>1. "call" \in Roles /\ setup.size \in Nat
      BY <1>1, SetupType DEF Roles
    <3>2. m \in Messages(DOMAIN setup.agent)
      BY <1>1, <1>4, <3>1, MessageType
    <3>3. Requested = Append(Top.msgs, m) /\ Top.msgs \in Conversations
      BY <1>3 DEF Requested, TypedFrames
    <3> HIDE DEF m
    <3>4. QED
      BY <3>2, <3>3, AppendedIs DEF Conversations
  <2> HIDE DEF limit, counted, stage, calls, one, m
  <2>4. f.agent = Top.agent /\ f.session = Top.session /\ f.msgs = Requested
    BY <1>3 DEF TypedFrames
  <2> HIDE DEF f
  <2>5. QED
    BY <1>2, <2>2, <2>3, <2>4, SpeakingKeeps
<1>7. CASE MinutePasses
  <2> DEFINE n == Len(Top.batch)
             f == [Top EXCEPT !.stage = "batch", !.calls = n]
  <2>1. SetTop(f)
    BY <1>7 DEF MinutePasses
  <2> HIDE DEF n
  <2>2. f.agent = Top.agent /\ f.session = Top.session /\ f.msgs = Top.msgs
    BY <1>3 DEF TypedFrames
  <2> HIDE DEF f
  <2>3. QED
    BY <1>2, <2>1, <2>2, SpeakingKeeps
<1>8. CASE ExecuteBatch
  <2>1. PICK size \in setup.sizes :
          SetTop([Top EXCEPT
            !.stage = "turn",
            !.turn  = Top.turn + 1,
            !.batch = <<>>,
            !.msgs  = Top.msgs \o Results(Top, Len(Top.batch), size)])
    BY <1>8 DEF ExecuteBatch
  <2> DEFINE n == Len(Top.batch)
             results == Results(Top, n, size)
             said == Top.msgs \o results
             next == Top.turn + 1
             none == <<>>
             f == [Top EXCEPT !.stage = "turn", !.turn = next, !.batch = none, !.msgs = said]
  <2>2. SetTop(f)
    BY <2>1
  <2>3. results \in Conversations
    <3> DEFINE m == Message("tool", Top.agent, llm, size)
    <3>1. "tool" \in Roles /\ size \in Nat
      BY <1>1, SetupType DEF Roles
    <3>2. m \in Messages(DOMAIN setup.agent)
      BY <1>1, <1>4, <3>1, MessageType
    <3>3. n \in Nat
      <4>1. Top.batch \in setup.batches \union {<<>>}
        BY <1>3 DEF TypedFrames
      <4>2. Len(<<>>) = 0 /\ \A batch \in setup.batches : Len(batch) \in Nat
        BY <1>1, SetupType
      <4>3. QED
        BY <4>1, <4>2
    <3> HIDE DEF n
    <3>4. results = [i \in 1..n |-> m]
      BY DEF Results
    <3> HIDE DEF m, results
    <3>5. QED
      BY <3>2, <3>3, <3>4 DEF Conversations
  <2> HIDE DEF next, none, n, results
  <2>4. f.agent = Top.agent /\ f.session = Top.session /\ f.msgs = said
    <3> HIDE DEF said
    <3>1. QED
      BY <1>3 DEF TypedFrames
  <2> HIDE DEF f
  <2>5. QED
    BY <1>2, <2>2, <2>3, <2>4, SpeakingKeeps
<1>9. QED
  BY <1>2, <1>5, <1>6, <1>7, <1>8 DEF GoesOn

(* A run reads what is saved of its session and says more.                 *)
LEMMA BeginContinues ==
  ASSUME GrowInv, Begin
  PROVE  Continuing'
<1>1. /\ stack # <<>> /\ Running /\ UNCHANGED <<setup, store>> /\ llm \in Nat
      /\ setup \in Setups /\ ConversationInv
      /\ Top.stage = "entering"
  BY DEF Begin, At, Running, GrowInv, ConversationInv, RestOK
<1>2. PICK readable \in Succeeds("load") :
        LET s == IF setup.session THEN 0 ELSE sessions'
        IN  SetTop([Top EXCEPT
              !.stage = "turn",
              !.session = s,
              !.msgs = SystemPrompt \o Recalled(s, readable) \o External
                         \o <<Message("user", Top.agent, llm, setup.size)>>])
  BY DEF Begin
<1> DEFINE s == IF setup.session THEN 0 ELSE sessions'
           user == Message("user", Top.agent, llm, setup.size)
           one == <<user>>
           recalled == Recalled(s, readable)
           prompt == SystemPrompt
           external == External
           u == prompt \o recalled
           v == u \o external
           msgs == v \o one
           f == [Top EXCEPT !.stage = "turn", !.session = s, !.msgs = msgs]
           kept == Saved(store, s)
<1>3. SetTop(f)
  BY <1>2
<1>4. Top \in TypedFrames(sessions) /\ Top.agent \in Names /\ Top.msgs \in Conversations
  <2>1. Top \in TypedFrames(sessions)
    BY <1>1, TopTyped DEF ConversationInv
  <2>2. QED
    BY <2>1 DEF TypedFrames
<1>5. one \in Conversations
  <2>1. "user" \in Roles /\ setup.size \in Nat
    BY <1>1, SetupType DEF Roles
  <2>2. user \in Messages(DOMAIN setup.agent)
    BY <1>1, <1>4, <2>1, MessageType
  <2> HIDE DEF user
  <2>3. QED
    BY <2>2 DEF Conversations
<1>6. prompt \in Conversations /\ WithoutSystem(prompt) = <<>>
  <2> DEFINE size == setup.agent[Top.agent].prompt
             p == Message("system", Top.agent, 0, size)
             M == Messages(Names)
             T == Persisted(Names)
  <2>1. prompt = IF size = 0 THEN <<>> ELSE <<p>>
    BY DEF SystemPrompt, Config
  <2>2. p \in M /\ p \notin T
    <3>1. "system" \in Roles /\ size \in Nat
      BY <1>1, <1>4, SetupType DEF Roles
    <3>2. p \in M /\ p.role = "system"
      BY <1>4, <3>1, MessageType DEF Names
    <3>3. QED
      BY <3>2 DEF Persisted, IsPersisted
  <2>3. Conversations = Seq(M)
    BY DEF Conversations, Names
  <2>4. \A w \in Seq(M) : WithoutSystem(w) = Among(w, T)
    BY WithoutSystemAmong
  <2> HIDE DEF M, T, p, size, prompt
  <2>5. prompt \in Seq(M) /\ Range(prompt) \subseteq {p}
    BY <2>1, <2>2 DEF Range
  <2>6. Among(prompt, T) = <<>>
    BY <2>2, <2>5, AmongNone
  <2>7. QED
    BY <2>3, <2>4, <2>5, <2>6
<1>7. external \in Conversations
  <2>1. <<>> \in Conversations
    BY DEF Conversations
  <2>2. QED
    BY <1>4, <2>1 DEF External
<1>8. kept \in Conversations /\ Unspoken(kept)
  <2>1. Unspoken(<<>>)
    BY DEF Unspoken, Range
  <2>2. QED
    BY <1>1, <2>1, StoreType DEF GrowInv, Saved
<1>9. recalled \in Conversations
  <2>1. Saved(memory, s) \in Conversations
    BY <1>1, HistoryRead DEF ConversationInv, KeptOK
  <2>2. <<>> \in Conversations
    BY DEF Conversations
  <2> HIDE DEF s
  <2>3. recalled \in {<<>>, kept, Saved(memory, s)}
    BY DEF Recalled
  <2>4. QED
    BY <1>8, <2>1, <2>2, <2>3
<1>10. ReadableUntrimmed /\ Config(Top).store => kept = <<>> \/ recalled = kept
  <2>1. ReadableUntrimmed => readable
    BY DEF ReadableUntrimmed, Succeeds
  <2> HIDE DEF s
  <2>2. QED
    BY <2>1 DEF Recalled
<1> HIDE DEF s, user, one, recalled, prompt, external, kept
<1>11. u \in Conversations /\ v \in Conversations /\ msgs \in Conversations
  BY <1>5, <1>6, <1>7, <1>9, PersistedJoin
<1>12. ReadableUntrimmed /\ Config(Top).store =>
         \E rest \in Conversations : WithoutSystem(msgs) = kept \o rest
  <2> SUFFICES ASSUME kept = <<>> \/ recalled = kept
               PROVE  \E rest \in Conversations : WithoutSystem(msgs) = kept \o rest
    BY <1>10
  <2>1. \A w \in Conversations : <<>> \o w = w
    BY DEF Conversations
  <2>2. CASE kept = <<>>
    <3> HIDE DEF msgs
    <3>1. WithoutSystem(msgs) \in Conversations
      BY <1>11, PersistedAlready, PersistedJoin
    <3>2. QED
      BY <2>1, <2>2, <3>1
  <2>3. CASE recalled = kept
    <3>1. WithoutSystem(recalled) = recalled
      BY <1>8, <1>9, <2>3, PersistedAlready
    <3>2. WithoutSystem(u) = recalled
      <4>1. WithoutSystem(prompt \o recalled) = WithoutSystem(prompt) \o WithoutSystem(recalled)
        BY <1>6, <1>9, PersistedJoin
      <4>2. QED
        BY <1>6, <1>9, <2>1, <3>1, <4>1
    <3>3. kept \o <<>> = kept /\ <<>> \in Conversations
      BY <1>8 DEF Conversations
    <3> HIDE DEF u
    <3>4. \E rest \in Conversations : WithoutSystem(u) = kept \o rest
      BY <2>3, <3>2, <3>3
    <3>5. \E rest \in Conversations : WithoutSystem(v) = kept \o rest
      BY ZenonT(60), <1>7, <1>8, <1>11, <3>4, SayingContinues
    <3> HIDE DEF v
    <3>6. QED
      BY ZenonT(60), <1>5, <1>8, <1>11, <3>5, SayingContinues
  <2>4. QED
    BY <2>2, <2>3
<1> HIDE DEF msgs
<1>13. f.agent = Top.agent /\ f.session = s /\ f.msgs = msgs
  BY <1>4 DEF TypedFrames
<1> HIDE DEF f
<1>14. Config(f) = Config(Top)
  BY <1>13 DEF Config
<1>15. ReadableUntrimmed /\ Config(f).store => Continues(f)
  BY <1>12, <1>13, <1>14 DEF Continues, kept
<1>16. QED
  BY <1>1, <1>3, <1>15, TopIs, ContinuesStays DEF Continuing
LEMMA PrefixOfMore ==
  ASSUME NEW u \in Conversations, NEW v \in Conversations
  PROVE  IsPrefix(u, u) /\ IsPrefix(u, u \o v)
<1> DEFINE M == Messages(Names)
<1>1. u \in Seq(M) /\ v \in Seq(M)
  BY DEF Conversations, Names
<1> HIDE DEF M
<1>2. Len(u) <= Len(u \o v) /\ SubSeq(u \o v, 1, Len(u)) = SubSeq(u, 1, Len(u))
  BY <1>1
<1>3. QED
  BY <1>1, <1>2 DEF IsPrefix

(* A final answer saves what was read and what was said since.             *)
LEMMA FinalAnswerGrows ==
  ASSUME GrowInv, FinalAnswer
  PROVE  /\ ReadableUntrimmed => \A s \in DOMAIN store : Grows(s)
         /\ \A s \in DOMAIN store' : Unspoken(store'[s])
         /\ setup' = setup /\ ret'.status = "ok"
<1>1. /\ ConversationInv /\ stack # <<>> /\ Running /\ Top.stage = "asked"
      /\ setup' = setup /\ setup \in Setups /\ llm \in Nat
      /\ \A s \in DOMAIN store : Unspoken(store[s])
  BY DEF FinalAnswer, At, Running, GrowInv, ConversationInv, RestOK
<1>2. Top \in TypedFrames(sessions) /\ Top.agent \in Names /\ Top.msgs \in Conversations
  <2>1. Top \in TypedFrames(sessions)
    BY <1>1, TopTyped DEF ConversationInv
  <2>2. QED
    BY <2>1 DEF TypedFrames
<1> DEFINE m == Message("answer", Top.agent, llm, setup.size)
           one == <<m>>
           kept == WithoutSystem(Answered)
           s == Top.session
<1>3. one \in Conversations /\ Answered = Top.msgs \o one
  <2>1. "answer" \in Roles /\ setup.size \in Nat
    BY <1>1, SetupType DEF Roles
  <2>2. m \in Messages(DOMAIN setup.agent)
    BY <1>1, <1>2, <2>1, MessageType
  <2>3. Answered = Append(Top.msgs, m)
    BY DEF Answered
  <2> HIDE DEF m
  <2>4. QED
    BY SMTT(40), <1>2, <2>2, <2>3, AppendedIs DEF Conversations
<1> HIDE DEF one, m
<1>4. Answered \in Conversations /\ kept \in Conversations /\ Unspoken(kept)
  BY <1>2, <1>3, PersistedJoin, PersistedAlready
<1>5. ReadableUntrimmed /\ Config(Top).store /\ s \in DOMAIN store =>
        IsPrefix(store[s], kept)
  <2> SUFFICES ASSUME ReadableUntrimmed, Config(Top).store, s \in DOMAIN store
               PROVE  IsPrefix(store[s], kept)
    OBVIOUS
  <2> DEFINE old == Saved(store, s)
  <2>1. old = store[s] /\ old \in Conversations
    BY <1>1, StoreType DEF Saved
  <2>2. \E rest \in Conversations : WithoutSystem(Top.msgs) = old \o rest
    BY <1>1 DEF GrowInv, Continuing, Continues
  <2> HIDE DEF old
  <2>3. \E rest \in Conversations : WithoutSystem(Top.msgs \o one) = old \o rest
    BY ZenonT(60), <1>2, <1>3, <2>1, <2>2, SayingContinues
  <2>4. PICK rest \in Conversations : kept = old \o rest
    BY <1>3, <2>3
  <2>5. QED
    BY <2>1, <2>4, PrefixOfMore
<1>6. store' = store \/ (Config(Top).store /\ store' = Save(store, s, kept))
  BY DEF FinalAnswer
<1> HIDE DEF s, kept
<1>7. \A t \in DOMAIN store : IsPrefix(store[t], store[t])
  <2>1. \A t \in DOMAIN store : store[t] \in Conversations
    BY <1>1 DEF ConversationInv, KeptOK, IsHistory
  <2>2. QED
    BY <2>1, PrefixOfMore
<1>8. ReadableUntrimmed => \A t \in DOMAIN store : Grows(t)
  <2>1. CASE store' = store
    BY <1>7, <2>1 DEF Grows
  <2>2. CASE Config(Top).store /\ store' = Save(store, s, kept)
    BY <1>5, <1>7, <2>2 DEF Grows, Save
  <2>3. QED
    BY <1>6, <2>1, <2>2
<1>9. \A t \in DOMAIN store' : Unspoken(store'[t])
  BY <1>1, <1>4, <1>6 DEF Save
<1>10. ret'.status = "ok"
  BY DEF FinalAnswer, NoResult
<1>11. QED
  BY <1>1, <1>8, <1>9, <1>10

(* Every other step leaves the store alone.                                *)
LEMMA GrowStep ==
  ASSUME GrowInv, [Next]_vars
  PROVE  /\ GrowInv'
         /\ ReadableUntrimmed => \A s \in DOMAIN store : Grows(s)
<1>1. ConversationInv'
  BY ConversationStep DEF GrowInv
<1>2. store' = store => \A s \in DOMAIN store : Grows(s)
  <2>1. \A t \in DOMAIN store : store[t] \in Conversations
    BY DEF GrowInv, ConversationInv, KeptOK, IsHistory
  <2>2. QED
    BY <2>1, PrefixOfMore DEF Grows
<1>3. setup' = setup /\ store' = store => \A s \in DOMAIN store' : Unspoken(store[s])'
  BY ContinuesStays DEF GrowInv
<1>4. CASE UNCHANGED vars
  <2>1. UNCHANGED <<setup, stack, ret, store>>
    BY <1>4 DEF vars
  <2>2. Top' = Top /\ Running' = Running
    BY <2>1 DEF Top, Running
  <2>3. Continuing'
    BY <2>1, <2>2, ContinuesStays DEF GrowInv, Continuing
  <2>4. QED
    BY <1>1, <1>2, <1>3, <2>1, <2>3 DEF GrowInv
<1>5. CASE Run
  <2>1. Top'.stage = "entering" /\ UNCHANGED <<setup, store>>
    BY <1>5, RunStack DEF Run, GrowInv
  <2>2. QED
    BY <1>1, <1>2, <1>3, <2>1 DEF GrowInv, Continuing
<1>6. CASE GivesUp
  <2>1. UNCHANGED <<setup, store>>
    BY <1>6 DEF GivesUp, RefuseByHook, Refuse, EnterRun, ExceedTurns, ProviderFails,
                OutputRefused, CancelledWhileThrottled, ExceedDepth
  <2>2. ret'.status = "error"
    <3>1. \A reason : ReturnError(reason) => ret'.status = "error"
      BY DEF ReturnError, NoResult
    <3>2. QED
      BY <1>6, <3>1 DEF GivesUp, RefuseByHook, Refuse, ExceedTurns, ProviderFails,
                        OutputRefused, CancelledWhileThrottled, ExceedDepth
  <2>3. QED
    BY <1>1, <1>2, <1>3, <2>1, <2>2 DEF GrowInv, Continuing, Running
<1>7. CASE GoesOn
  BY <1>1, <1>2, <1>3, <1>7, LoopContinues DEF GrowInv
<1>8. CASE Begin
  <2>1. UNCHANGED <<setup, store>>
    BY <1>8 DEF Begin
  <2>2. QED
    BY <1>1, <1>2, <1>3, <1>8, <2>1, BeginContinues DEF GrowInv
<1>9. CASE FinalAnswer
  <2>1. /\ ReadableUntrimmed => \A s \in DOMAIN store : Grows(s)
        /\ \A s \in DOMAIN store' : Unspoken(store'[s])
        /\ setup' = setup /\ ret'.status = "ok"
    BY <1>9, FinalAnswerGrows
  <2>2. \A s \in DOMAIN store' : Unspoken(store[s])'
    BY <2>1 DEF Unspoken, Persisted, Names
  <2>3. QED
    BY <1>1, <2>1, <2>2 DEF GrowInv, Continuing, Running
<1>10. CASE HandOff
  <2>1. Top'.stage = "entering" /\ UNCHANGED <<setup, store>>
    BY <1>10, HandOffMoves DEF GrowInv
  <2>2. QED
    BY <1>1, <1>2, <1>3, <2>1 DEF GrowInv, Continuing
<1>11. CASE Return
  <2>1. ret.status # "none" /\ ret'.status = ret.status /\ UNCHANGED <<setup, store>>
    BY <1>11, ReturnStack DEF GrowInv
  <2>2. QED
    BY <1>1, <1>2, <1>3, <2>1 DEF GrowInv, Continuing, Running
<1>12. QED
  BY <1>4, <1>5, <1>6, <1>7, <1>8, <1>9, <1>10, <1>11, StepCases DEF Next

(* When nothing is trimmed and the store can be read, a saved session only *)
(* ever grows: through a second run, hand-offs between agents that share   *)
(* the store, failed saves and runs that fail half-way, for any agents.    *)
THEOREM StoresKeepHistory == Spec => StoreKeepsHistory
<1>1. Init => GrowInv
  <2>1. Init => store = <<>> /\ stack = <<>>
    BY DEF Init
  <2>2. QED
    BY <2>1, ConversationInitial DEF GrowInv, Continuing, Running
<1>2. GrowInv /\ [Next]_vars => GrowInv'
  BY GrowStep
<1>3. GrowInv /\ [Next]_vars => [ReadableUntrimmed => \A s \in DOMAIN store : Grows(s)]_vars
  BY GrowStep
<1>4. QED
  BY <1>1, <1>2, <1>3, PTL DEF Spec, StoreKeepsHistory
=============================================================================
