----------------------------- MODULE Approvals ------------------------------
(***************************************************************************)
(* Who approves a call of a tool (approval/): a policy, or a person at the *)
(* console, whom several calls may ask at once and with a time limit.      *)
(*   An approver that times out leaves its goroutine behind, which goes on *)
(* reading the console.  The console is read letter by letter, so that two *)
(* readers may each get a part of one answer.                              *)
(***************************************************************************)
EXTENDS Naturals, Sequences, FiniteSets, SequencesExt

CONSTANTS
  Questions,   \* Questions: the calls that need an approval
  Policies,    \* Policies: [rules, limited]: rules in order, [allow, tools],
               \*   none for the console, and whether there is a time limit
  Answers,     \* Answers: what a person may answer, as sequences of letters
  MaxTyped     \* bound: the answers a person types

ASSUME PoliciesAssumption ==
  \A p \in Policies : p.rules \in Seq([allow : BOOLEAN, tools : SUBSET Questions])

(* What says yes.                                                          *)
Yeses == {<<"y">>, <<"y", "e", "s">>}

(* The person answers the question: no other word has the letter of a yes  *)
(* in it, as "deny" has.                                                   *)
ASSUME AnswersAssumption ==
  /\ Answers \subseteq Seq(STRING)
  /\ \A a \in Answers : \A i \in DOMAIN a : a[i] = "y" => i = 1 /\ a \in Yeses

VARIABLES
  policy,      \* policy: the approver
  asked,       \* asked: where each question is
  typed,       \* typed: history: the answers
  unread       \* unread: what nobody has read of them: the letters left, and
               \*   of which answer, the end of its line after them

approvalVars == <<policy, asked, typed, unread>>

ApprovalInit ==
  /\ policy \in Policies
  /\ asked = [q \in Questions |-> [stage |-> "idle", reader |-> "none",
                                word |-> <<>>, by |-> 0]]
  /\ typed = <<>>
  /\ unread = <<>>

FirstMatch(tool) == SelectInSeq(policy.rules, LAMBDA r : tool \in r.tools)

(* A policy decides at once; what no rule names is denied.                 *)
AskPolicy(q) ==
  /\ policy.rules # <<>>
  /\ asked[q].stage = "idle"
  /\ LET rule == FirstMatch(q)
         allowed == rule # 0 /\ policy.rules[rule].allow IN
     asked' = [asked EXCEPT ![q].stage = IF allowed THEN "approved" ELSE "denied"]
  /\ UNCHANGED <<policy, typed, unread>>

(* The console shows the question and reads a word; by is the answer that  *)
(* the first letter of the word was of.                                    *)
AskConsole(q) ==
  /\ policy.rules = <<>>
  /\ asked[q].stage = "idle"
  /\ asked' = [asked EXCEPT ![q].stage = "shown", ![q].reader = "reading"]
  /\ UNCHANGED <<policy, typed, unread>>

Shown == {q \in Questions : asked[q].stage = "shown"}
Reading == {q \in Questions : asked[q].reader = "reading"}

(* The person answers a question that is shown.                            *)
Type ==
  /\ Len(typed) < MaxTyped
  /\ Shown # {}
  /\ \E answer \in Answers :
       /\ typed' = Append(typed, answer)
       /\ unread' = Append(unread, [letters |-> answer, of |-> Len(typed) + 1])
  /\ UNCHANGED <<policy, asked>>

(* Any reader may get the next letter.                                     *)
ReadLetter(q) ==
  /\ q \in Reading
  /\ unread # <<>> /\ unread[1].letters # <<>>
  /\ asked' = [asked EXCEPT ![q].word = Append(@, Head(unread[1].letters)),
                            ![q].by = IF asked[q].word = <<>> THEN unread[1].of ELSE @]
  /\ unread' = [unread EXCEPT ![1].letters = Tail(@)]
  /\ UNCHANGED <<policy, typed>>

(* The end of a line ends the word of its reader, and is passed over by    *)
(* one that has no letter yet.  Its approver has the word then, unless it  *)
(* has already timed out.                                                  *)
ReadLineEnd(q) ==
  /\ q \in Reading
  /\ unread # <<>> /\ unread[1].letters = <<>>
  /\ asked' = IF asked[q].word = <<>> THEN asked ELSE [asked EXCEPT ![q].reader = "done"]
  /\ unread' = Tail(unread)
  /\ UNCHANGED <<policy, typed>>

Decision(q) == IF asked[q].word \in Yeses THEN "approved" ELSE "denied"

Decide(q) ==
  /\ asked[q].stage = "shown"
  /\ asked[q].reader = "done"
  /\ asked' = [asked EXCEPT ![q].stage = Decision(q)]
  /\ UNCHANGED <<policy, typed, unread>>

(* The time is over, perhaps with the answer already there.                *)
TimeOut(q) ==
  /\ policy.limited
  /\ asked[q].stage = "shown"
  /\ asked' = [asked EXCEPT ![q].stage = "timedOut"]
  /\ UNCHANGED <<policy, typed, unread>>

ApprovalNext ==
  \/ Type
  \/ \E q \in Questions :
       AskPolicy(q) \/ AskConsole(q) \/ ReadLetter(q) \/ ReadLineEnd(q) \/ Decide(q) \/ TimeOut(q)

-----------------------------------------------------------------------------
(* Properties.                                                             *)

(* A call is approved only when a yes was typed, each yes approves one     *)
(* call at most, however its letters are shared with late readers, and a   *)
(* tool is approved by a policy only if the first rule that names it       *)
(* allows it.  Whose question the person meant does not matter to the      *)
(* console (approval.go:59-87, 208-264).                                   *)
ApprovalsFaithful ==
  /\ policy.rules = <<>> => \A q \in Questions :
       asked[q].stage = "approved" => asked[q].by # 0 /\ typed[asked[q].by] \in Yeses
  /\ policy.rules = <<>> => \A q, r \in Questions :
       asked[q].stage = "approved" /\ asked[r].stage = "approved"
         /\ asked[q].by = asked[r].by => q = r
  /\ policy.rules # <<>> => \A q \in Questions :
       asked[q].stage = "approved" =>
         \E i \in DOMAIN policy.rules :
           /\ policy.rules[i].allow /\ q \in policy.rules[i].tools
           /\ \A j \in 1..(i - 1) : q \notin policy.rules[j].tools
=============================================================================
