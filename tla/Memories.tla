------------------------------ MODULE Memories ------------------------------
(***************************************************************************)
(* What an agent remembers (memory/): the sliding window, the running      *)
(* summary, the vector memory over a store shared by all sessions, and     *)
(* several of them put together.  A run asks a memory for everything with  *)
(* an empty query (runner.go:103), and gives it the whole conversation     *)
(* back when the model has answered (runner.go:225).  Nothing keeps runs   *)
(* of one session, or a Clear of it, apart: each call goes from backend to *)
(* backend, and others are between its steps.                              *)
(***************************************************************************)
EXTENDS Naturals, Sequences, FiniteSets, SequencesExt, Selection

CONSTANTS
  Minds,       \* Minds: the memories: sequences of backends, with their kind
               \*   and the number they were made with, at most one a vector
  ReachFactor, \* ReachFactor: how many times its number of entries a vector
               \*   memory looks at to clear a session (10)
  People,      \* People: the sessions
  Texts,       \* Texts: what users say
  Callers,     \* Callers: the runs and clears that may be under way at once
  MaxTold      \* bound: for each of the minds, the numbers of runs that the
               \*   sessions may have together

Backends == [kind : {"sliding", "summary", "vector"}, n : Nat \ {0}]
ASSUME MindsAssumption == Minds \subseteq Seq(Backends) \ {<<>>}

VARIABLES
  mind,        \* mind: the backends
  held,        \* held: what each backend has of each session
  shelf,       \* shelf: the entries of the vector store, oldest first
  caller,      \* caller: where each run or clear is
  told,        \* told: history: the turns of each session that a backend but
               \*   a vector memory was given since it was cleared
  ever,        \* ever: history: what each session said at all
  overlapped   \* overlapped: history: the sessions of which two calls were
               \*   under way at once

memoryVars == <<mind, held, shelf, caller, told, ever, overlapped>>

(* A question, and an answer that is the same to the same question.        *)
Said(role, text) == [role |-> role, text |-> text]

(* A summary is the set of the messages that went into it.                 *)
Blank == [recent |-> <<>>, summary |-> {}, counter |-> 0]

(* A run asks the backends and the model, and saves; a clear deletes from  *)
(* a vector memory what it found there.                                    *)
Idle == [stage |-> "idle", who |-> "nobody", text |-> "nothing", heard |-> <<>>,
         at |-> 1, msgs |-> <<>>, left |-> <<>>, found |-> {}]

MemoryInit ==
  /\ mind \in Minds
  /\ held = [b \in DOMAIN mind |-> [s \in People |-> Blank]]
  /\ shelf = <<>>
  /\ caller = [c \in Callers |-> Idle]
  /\ told = [b \in DOMAIN mind |-> [s \in People |-> <<>>]]
  /\ ever = [s \in People |-> <<>>]
  /\ overlapped = {}

AtMost(n, msgs) == IF n > 0 /\ Len(msgs) > n THEN SubSeq(msgs, Len(msgs) - n + 1, Len(msgs)) ELSE msgs

Summed(sess) == IF sess.summary = {} THEN <<>> ELSE <<Said("system", "summary")>>

(* The store answers with the entries nearest to the query, of whatever    *)
(* session; any of them may be the nearest, in any order.                  *)
Nearest(k) ==
  {picks \in SUBSET DOMAIN shelf :
     Cardinality(picks) = IF k < Len(shelf) THEN k ELSE Len(shelf)}
Mine(s, picks) ==
  {shelf[i].msg : i \in {j \in picks : shelf[j].session = s}}

TopK(b, limit) == IF limit > 0 /\ limit < mind[b].n THEN limit ELSE mind[b].n

(* What a backend may answer.                                              *)
Recalls(b, s, asked, limit) ==
  CASE mind[b].kind = "sliding" -> {AtMost(limit, held[b][s].recent)}
    [] mind[b].kind = "summary" -> {AtMost(limit, Summed(held[b][s]) \o held[b][s].recent)}
    [] OTHER -> IF ~asked THEN {<<>>}
                ELSE {SetToSeq(Mine(s, picks)) : picks \in Nearest(TopK(b, limit))}

(* Several backends are merged, the first of equal messages kept.          *)
Without(msgs, known) ==
  FoldLeft(LAMBDA out, m : IF m \in Range(out) THEN out ELSE Append(out, m), known, msgs)
Merged(answers) == Without(FlattenSeq(answers), <<>>)
First(n, msgs) == IF n > 0 /\ Len(msgs) > n THEN SubSeq(msgs, 1, n) ELSE msgs

Answered(s, asked, limit) ==
  {IF Len(mind) = 1 THEN answers[1] ELSE First(limit, Merged(answers)) :
     answers \in {f \in [DOMAIN mind -> UNION {Recalls(b, s, asked, limit) : b \in DOMAIN mind}] :
                    \A b \in DOMAIN mind : f[b] \in Recalls(b, s, asked, limit)}}

Spoken(m) == m.role # "system"

(* The summary memory appends what it is given to what it has.  When it is *)
(* time, all but the last two are summarized, if the provider answers.     *)
Appended(sess, msgs) ==
  [sess EXCEPT !.recent = @ \o msgs, !.counter = @ + Len(msgs)]
Due(sess, n) == sess.counter >= n /\ Len(sess.recent) > 2
(* Mutant of Compressed: what was summarized before is left out.           *)
CompressedAnew(sess) ==
  LET keep == AtMost(2, sess.recent)
      old == SubSeq(sess.recent, 1, Len(sess.recent) - 2) IN
  [recent |-> keep, summary |-> Range(old), counter |-> 0]

Compressed(sess) ==
  LET keep == AtMost(2, sess.recent)
      old == SubSeq(sess.recent, 1, Len(sess.recent) - 2) IN
  [recent |-> keep, summary |-> sess.summary \cup Range(old), counter |-> 0]

Kept(b, sess, msgs, fails) ==
  CASE mind[b].kind = "sliding" -> [sess EXCEPT !.recent = AtMost(mind[b].n, msgs)]
    [] mind[b].kind = "summary" ->
         LET more == Appended(sess, msgs) IN
         IF Due(more, mind[b].n) /\ ~fails THEN Compressed(more) ELSE more
    [] OTHER -> sess

(* An equal message of the session takes the place of the entry it has.    *)
Shelved(s, msgs) == Without([i \in DOMAIN msgs |-> [session |-> s, msg |-> msgs[i]]], shelf)

-----------------------------------------------------------------------------
(* The runs and the clears.                                                *)

Vector(b) == mind[b].kind = "vector"
Turn(text) == <<Said("user", text), Said("assistant", text)>>

Enters(c, call) ==
  /\ caller[c] = Idle
  /\ caller' = [caller EXCEPT ![c] = call]
  /\ overlapped' = IF \E d \in Callers : caller[d].who = call.who
                   THEN overlapped \cup {call.who} ELSE overlapped

(* A call goes on to the next backend, or is over.                         *)
GoesOn(c) ==
  LET call == caller[c] IN
  caller' = [caller EXCEPT ![c] = IF call.at = Len(mind) THEN Idle
                                  ELSE [call EXCEPT !.at = call.at + 1, !.left = call.msgs]]
Ends(c) == caller' = [caller EXCEPT ![c] = Idle]

Conversing == {c \in Callers : caller[c].stage = "running"}
Runs(s) == Len(ever[s]) \div 2 + Cardinality({c \in Conversing : caller[c].who = s})
MayRun(s) ==
  \E most \in MaxTold[mind] : \A p \in People :
    Runs(p) + (IF p = s THEN 1 ELSE 0) <= most[p]

(* A run begins by asking the first backend.                               *)
Begin(c, s, text) ==
  /\ MayRun(s)
  /\ \E msgs \in Recalls(1, s, FALSE, 0) :
       Enters(c, [Idle EXCEPT !.stage = "running", !.who = s, !.text = text, !.heard = <<msgs>>])
  /\ UNCHANGED <<mind, held, shelf, told, ever>>

Ask(c) ==
  LET b == Len(caller[c].heard) + 1 IN
  /\ c \in Conversing
  /\ b \in DOMAIN mind
  /\ \E msgs \in Recalls(b, caller[c].who, FALSE, 0) :
       caller' = [caller EXCEPT ![c].heard = Append(@, msgs)]
  /\ UNCHANGED <<mind, held, shelf, told, ever, overlapped>>

(* The model answers: the conversation has a turn more.                    *)
Answer(c) ==
  LET heard == caller[c].heard
      history == IF Len(mind) = 1 THEN heard[1] ELSE Merged(heard)
      turn == Turn(caller[c].text)
      msgs == Selected(history \o turn, Spoken) IN
  /\ c \in Conversing
  /\ Len(heard) = Len(mind)
  /\ ever' = [ever EXCEPT ![caller[c].who] = @ \o turn]
  /\ caller' = [caller EXCEPT ![c] = [caller[c] EXCEPT !.stage = "saving", !.heard = <<>>,
                                                       !.msgs = msgs, !.left = msgs]]
  /\ UNCHANGED <<mind, held, shelf, told, overlapped>>

(* Or the run fails, and saves nothing.                                    *)
GiveUp(c) ==
  /\ c \in Conversing
  /\ Len(caller[c].heard) = Len(mind)
  /\ Ends(c)
  /\ UNCHANGED <<mind, held, shelf, told, ever, overlapped>>

(* A backend whose provider or embedder fails ends the save: those after it *)
(* are not given the conversation, and the run does not mind.              *)
SaveHeld(c) ==
  LET b == caller[c].at
      s == caller[c].who IN
  /\ caller[c].stage = "saving"
  /\ ~Vector(b)
  /\ told' = [told EXCEPT ![b][s] = @ \o Turn(caller[c].text)]
  /\ \E fails \in BOOLEAN :
       /\ fails => mind[b].kind = "summary" /\ Due(Appended(held[b][s], caller[c].msgs), mind[b].n)
       /\ held' = [held EXCEPT ![b][s] = Kept(b, @, caller[c].msgs, fails)]
       /\ IF fails THEN Ends(c) ELSE GoesOn(c)
  /\ UNCHANGED <<mind, shelf, ever, overlapped>>

(* A vector memory is locked from the first message it is given to the     *)
(* last.                                                                   *)
Locked(c) ==
  /\ caller[c].stage = "saving" /\ Vector(caller[c].at)
  /\ caller[c].left # caller[c].msgs

(* It fails before the store has the message, or when the store's file     *)
(* cannot be written after that.                                           *)
SaveMessage(c) ==
  /\ caller[c].stage = "saving"
  /\ Vector(caller[c].at)
  /\ \A d \in Callers \ {c} : ~Locked(d)
  /\ \/ /\ UNCHANGED shelf
        /\ Ends(c)
     \/ /\ shelf' = Shelved(caller[c].who, <<Head(caller[c].left)>>)
        /\ \/ Ends(c)
           \/ IF Len(caller[c].left) = 1 THEN GoesOn(c)
              ELSE caller' = [caller EXCEPT ![c].left = Tail(@)]
  /\ UNCHANGED <<mind, held, told, ever, overlapped>>

(* A session that said something is cleared.                               *)
Clear(c, s) ==
  /\ ever[s] # <<>>
  /\ Enters(c, [Idle EXCEPT !.stage = "clearing", !.who = s])
  /\ UNCHANGED <<mind, held, shelf, told, ever>>

ClearHeld(c) ==
  LET b == caller[c].at
      s == caller[c].who IN
  /\ caller[c].stage = "clearing"
  /\ ~Vector(b)
  /\ held' = [held EXCEPT ![b][s] = Blank]
  /\ told' = [told EXCEPT ![b][s] = <<>>]
  /\ GoesOn(c)
  /\ UNCHANGED <<mind, shelf, ever, overlapped>>

(* A vector memory, that is not locked for this, finds what to delete by a *)
(* search of its own, which may miss messages of the session, and fail.    *)
LookUp(c) ==
  /\ caller[c].stage = "clearing"
  /\ Vector(caller[c].at)
  /\ \/ Ends(c)
     \/ \E picks \in Nearest(ReachFactor * mind[caller[c].at].n) :
          LET mine == Mine(caller[c].who, picks) IN
          IF mine = {} THEN GoesOn(c)
          ELSE caller' = [caller EXCEPT ![c].stage = "deleting", ![c].found = mine]
  /\ UNCHANGED <<mind, held, shelf, told, ever, overlapped>>

Remaining(s, found) == Selected(shelf, LAMBDA e : e.session # s \/ e.msg \notin found)
Delete(c) ==
  LET call == caller[c] IN
  /\ call.stage = "deleting"
  /\ shelf' = Remaining(call.who, call.found)
  /\ \/ Ends(c)
     \/ caller' = [caller EXCEPT ![c] =
                     IF call.at = Len(mind) THEN Idle
                     ELSE [call EXCEPT !.at = call.at + 1, !.stage = "clearing", !.found = {}]]
  /\ UNCHANGED <<mind, held, told, ever, overlapped>>

MemoryNext ==
  \E c \in Callers :
    \/ \E s \in People : (\E text \in Texts : Begin(c, s, text)) \/ Clear(c, s)
    \/ Ask(c) \/ Answer(c) \/ GiveUp(c) \/ SaveHeld(c) \/ SaveMessage(c)
    \/ ClearHeld(c) \/ LookUp(c) \/ Delete(c)

-----------------------------------------------------------------------------
(* Properties.                                                             *)

Alone(kind) == Len(mind) = 1 /\ mind[1].kind = kind

(* A session is told nothing of another and no more than it asks for; a    *)
(* sliding window ends with the last turn it was given, and when no two    *)
(* calls of a session were under way at once holds exactly the last of     *)
(* what was said; a summary, that is given again what it has and may fail  *)
(* to be made, forgets no turn it was given, and keeps nothing else unless *)
(* calls overlapped; and the store has each message once (memory/          *)
(* sliding.go:33-54, summary.go:62-123, vector.go:84-118).                 *)
MemoriesFaithful ==
  /\ \A s \in People, limit \in 0..2 : \A found \in Answered(s, TRUE, limit) :
       /\ \A m \in Range(found) : Spoken(m) => m \in Range(ever[s])
       /\ limit > 0 => Len(found) <= limit
  /\ \A s \in People, b \in DOMAIN mind :
       LET recent == held[b][s].recent
           kept == held[b][s].summary \cup Range(recent) IN
       /\ mind[b].kind = "sliding" => AtMost(1, recent) = AtMost(1, told[b][s])
       /\ mind[b].kind = "summary" => Range(told[b][s]) \subseteq kept
       /\ kept \subseteq Range(ever[s])
       /\ s \notin overlapped =>
            /\ Alone("sliding") => recent = AtMost(mind[b].n, told[b][s])
            /\ Alone("summary") => kept = Range(told[b][s])
  /\ IsInjective(shelf)
=============================================================================
