-------------------------- MODULE Exchanges_proofs --------------------------
(***************************************************************************)
(* Proofs about Exchanges.  For any number of callers of an MCP server, in *)
(* whatever order they take ids, write, are cancelled and read, an answer  *)
(* goes to the one who asked; for any provider, however clients and        *)
(* combinators are put together, every request of a call and its failure   *)
(* have a reason; for conversations of any length, whatever agents answer  *)
(* in turn, what is sent to a service is the conversation; and for any     *)
(* number of items, any page size and capacity and any script of a         *)
(* service, what is passed on is what was given, in its order and once.    *)
(***************************************************************************)
EXTENDS Exchanges, SequenceLemmas

(***************************************************************************)
(* The feeds.  Reached is where the connector continues: telegram without  *)
(* a cursor with what the platform has still to confirm.                   *)
(***************************************************************************)
(* The items after a up to b, and those of them that are messages.         *)
Counted(a, b) == [i \in 1..(b - a) |-> a + i]
MessageIds(k) == {i \in Nat : k \in {"telegram", "whatsapp"} => i % 3 # 2}
MessagesOf(k, a, b) == Among(Counted(a, b), MessageIds(k))

Rising(s) == \A i, j \in DOMAIN s : i < j => s[i] < s[j]

Reached == IF kind = "telegram" /\ feed.cursor = 0 THEN Begun ELSE feed.cursor

FeedRec == [stage : {"idle", "sending", "closed"}, cursor : Nat, batch : Seq(Nat),
            newest : Nat, start : Nat]

FeedTyped ==
  /\ kind \in Pollers \cup Hooks
  /\ published \in Nat /\ confirmed \in 0..published
  /\ feed \in FeedRec /\ feed.cursor <= published
  /\ queue \in Seq(Nat) /\ entered \in Seq(Nat) /\ taken \in Seq(Nat) /\ lost \subseteq Nat
  /\ Len(queue) <= QueueCap
  /\ signal \in {"none", "cancelled", "stopped"}

(* Only a connector that sends has a batch, a webhook its handlers'.       *)
BatchOK ==
  /\ Range(feed.batch) \subseteq 1..published /\ Range(entered) \subseteq 1..published
  /\ kind \in Pollers /\ feed.stage # "sending" => feed.batch = <<>>
  /\ kind \in Hooks => feed.stage # "sending"

(* What is in the batch has not been passed on and is there once.          *)
FreshOK ==
  kind # "twitterNewestFirst" =>
    /\ IsInjective(entered) /\ IsInjective(feed.batch)
    /\ Range(entered) \cap Range(feed.batch) = {}

(* A poll asks for what is newer than all that was passed on.  A cancelled *)
(* slack or github stops in the middle of a page and does not poll again.  *)
CursorOK ==
  /\ kind \in {"telegram", "twitter", "email"} => \A i \in Range(entered) : i <= feed.cursor
  /\ kind \in {"slack", "github"} /\ feed.stage # "sending" /\ signal # "cancelled" =>
       \A i \in Range(entered) : i <= feed.cursor
  /\ kind = "slack" /\ feed.stage = "sending" =>
       /\ feed.newest <= published
       /\ \A i \in Range(entered) \cup Range(feed.batch) : i <= feed.newest
  /\ kind = "email" =>
       /\ \A i \in DOMAIN feed.batch : feed.cursor < feed.batch[i]
       /\ Rising(feed.batch)

(* Telegram and twitter go on without a gap.                               *)
GaplessOK ==
  kind \in {"telegram", "twitter"} =>
    /\ \A i \in DOMAIN feed.batch : feed.batch[i] = Reached + i
    /\ kind = "twitter" => entered = MessagesOf(kind, 0, feed.cursor)
    /\ kind = "telegram" =>
         /\ Begun <= Reached /\ confirmed <= Reached
         /\ feed.cursor = 0 => confirmed = Begun
         /\ entered = MessagesOf(kind, Begun, Reached)
         /\ \A i \in 1..Reached :
              i \in MessageIds(kind) => i \in Range(taken) \cup Range(queue) \cup lost

FeedInv == FeedTyped /\ BatchOK /\ FreshOK /\ CursorOK /\ GaplessOK

(***************************************************************************)
(* Sequences of numbers.                                                   *)
(***************************************************************************)
LEMMA RisingAppend ==
  ASSUME NEW s \in Seq(Nat), NEW e \in Nat, Rising(s), \A x \in Range(s) : x < e
  PROVE  Rising(Append(s, e))
PROOF
  <1>1. /\ DOMAIN Append(s, e) = 1..(Len(s) + 1) /\ DOMAIN s = 1..Len(s) /\ Len(s) \in Nat
        /\ \A i \in 1..Len(s) : Append(s, e)[i] = s[i]
        /\ Append(s, e)[Len(s) + 1] = e
    OBVIOUS
  <1>2. QED BY <1>1 DEF Rising, Range

LEMMA RisingInjective ==
  ASSUME NEW s \in Seq(Nat), Rising(s)
  PROVE  IsInjective(s)
PROOF
  <1>1. DOMAIN s = 1..Len(s) /\ Len(s) \in Nat /\ \A i \in DOMAIN s : s[i] \in Nat
    OBVIOUS
  <1>2. QED BY <1>1 DEF Rising, IsInjective

LEMMA AmongRising ==
  ASSUME NEW T, NEW s \in Seq(Nat), Rising(s)
  PROVE  Rising(Among(s, T))
PROOF
  <1> DEFINE Right(u) == Rising(u) => Rising(Among(u, T))
             U == {u \in Seq(Nat) : Right(u)}
  <1>1. Right(<<>>)
    BY AmongEmpty
  <1>2. ASSUME NEW u \in Seq(Nat), NEW e \in Nat, Right(u) PROVE Right(Append(u, e))
    <2> SUFFICES ASSUME Rising(Append(u, e)) PROVE Rising(Among(Append(u, e), T))
      OBVIOUS
    <2>1. Rising(u) /\ \A x \in Range(u) : x < e
      <3>1. /\ DOMAIN Append(u, e) = 1..(Len(u) + 1) /\ DOMAIN u = 1..Len(u) /\ Len(u) \in Nat
            /\ \A i \in 1..Len(u) : Append(u, e)[i] = u[i]
            /\ Append(u, e)[Len(u) + 1] = e
        OBVIOUS
      <3>2. Rising(u)
        <4>1. \A i \in 1..Len(u) : i \in 1..(Len(u) + 1)
          BY <3>1
        <4>2. QED BY <3>1, <4>1 DEF Rising
      <3>3. \A i \in 1..Len(u) : i < Len(u) + 1 /\ u[i] < e
        <4>1. \A i \in 1..Len(u) : i \in 1..(Len(u) + 1) /\ Len(u) + 1 \in 1..(Len(u) + 1)
                                  /\ i < Len(u) + 1
          BY <3>1
        <4>2. QED BY <3>1, <4>1 DEF Rising
      <3>4. QED BY <3>1, <3>2, <3>3 DEF Range
    <2>2. Among(u, T) \in Seq(Nat) /\ Rising(Among(u, T)) /\ \A x \in Range(Among(u, T)) : x < e
      BY <1>2, <2>1, AmongTyped, AmongRange
    <2>3. Rising(Append(Among(u, T), e))
      BY <2>2, RisingAppend
    <2>4. Among(Append(u, e), T) \in {Append(Among(u, T), e), Among(u, T)}
      BY AmongAppend
    <2>5. QED BY <2>2, <2>3, <2>4
  <1> HIDE DEF Right
  <1>3. <<>> \in U /\ \A u \in Seq(Nat), e \in Nat : u \in U => Append(u, e) \in U
    <2>1. \A u \in Seq(Nat), e \in Nat : Append(u, e) \in Seq(Nat)
      OBVIOUS
    <2>2. QED BY <1>1, <1>2, <2>1
  <1>4. \A u \in Seq(Nat) : u \in U
    <2> HIDE DEF U
    <2>1. QED BY <1>3, SeqInduction
  <1>5. QED BY <1>4 DEF Right

(* What is counted rises.                                                 *)
LEMMA CountedFacts ==
  ASSUME NEW a \in Nat, NEW b \in Nat, a <= b
  PROVE  /\ Counted(a, b) \in Seq(Nat) /\ Len(Counted(a, b)) = b - a
         /\ DOMAIN Counted(a, b) = 1..(b - a)
         /\ \A i \in 1..(b - a) : Counted(a, b)[i] = a + i
         /\ Rising(Counted(a, b))
         /\ \A x \in Range(Counted(a, b)) : a < x /\ x <= b
PROOF
  <1>1. /\ b - a \in Nat /\ Counted(a, b) \in Seq(Nat) /\ Len(Counted(a, b)) = b - a
        /\ DOMAIN Counted(a, b) = 1..(b - a)
        /\ \A i \in 1..(b - a) : Counted(a, b)[i] = a + i
    BY DEF Counted
  <1>2. QED BY <1>1 DEF Rising, Range

LEMMA MessagesAre ==
  ASSUME NEW a \in Nat, NEW b \in Nat, a <= b
  PROVE  Messages(a, b) = MessagesOf(kind, a, b)
PROOF
  <1>1. \A x \in Nat : IsMessage(x) <=> x \in MessageIds(kind)
    BY DEF IsMessage, MessageIds
  <1> DEFINE c == Counted(a, b)
  <1>2. \A i \in DOMAIN c : c[i] \in Nat
    <2>1. c \in Seq(Nat)
      BY CountedFacts
    <2> HIDE DEF c
    <2>2. QED BY <2>1
  <1>3. Messages(a, b) = FlattenSeq([i \in DOMAIN c |-> IF IsMessage(c[i]) THEN <<c[i]>> ELSE <<>>])
    BY DEF Messages, Selected, Counted
  <1>4. MessagesOf(kind, a, b)
          = FlattenSeq([i \in DOMAIN c |-> IF c[i] \in MessageIds(kind) THEN <<c[i]>> ELSE <<>>])
    BY DEF MessagesOf, Selected, Among
  <1> HIDE DEF c
  <1>5. [i \in DOMAIN c |-> IF IsMessage(c[i]) THEN <<c[i]>> ELSE <<>>]
          = [i \in DOMAIN c |-> IF c[i] \in MessageIds(kind) THEN <<c[i]>> ELSE <<>>]
    BY <1>1, <1>2
  <1>6. QED BY <1>3, <1>4, <1>5

LEMMA MessagesNext ==
  ASSUME NEW k, NEW a \in Nat, NEW b \in Nat, a <= b
  PROVE  /\ MessagesOf(k, a, a) = <<>>
         /\ b + 1 \in MessageIds(k) =>
              MessagesOf(k, a, b + 1) = Append(MessagesOf(k, a, b), b + 1)
         /\ b + 1 \notin MessageIds(k) => MessagesOf(k, a, b + 1) = MessagesOf(k, a, b)
PROOF
  <1>1. Counted(a, a) = <<>>
    BY DEF Counted
  <1>2. Counted(a, b + 1) = Append(Counted(a, b), b + 1) /\ Counted(a, b) \in Seq(Nat)
    <2> DEFINE e == b + 1
               d == b - a
    <2>1. e \in Nat /\ d \in Nat /\ e - a = d + 1 /\ a + (d + 1) = e
      OBVIOUS
    <2>2. Counted(a, b) \in Seq(Nat) /\ Len(Counted(a, b)) = d
          /\ \A i \in 1..d : Counted(a, b)[i] = a + i
      BY CountedFacts
    <2>3. Counted(a, e) \in Seq(Nat) /\ Len(Counted(a, e)) = d + 1
          /\ \A i \in 1..(d + 1) : Counted(a, e)[i] = a + i
      BY <2>1, CountedFacts
    <2> HIDE DEF e, d
    <2>4. Append(Counted(a, b), e) \in Seq(Nat) /\ Len(Append(Counted(a, b), e)) = d + 1
          /\ (\A i \in 1..d : Append(Counted(a, b), e)[i] = a + i)
          /\ Append(Counted(a, b), e)[d + 1] = e
      BY <2>1, <2>2
    <2>5. \A i \in 1..(d + 1) : Append(Counted(a, b), e)[i] = Counted(a, e)[i]
      BY SMTT(40), <2>1, <2>3, <2>4
    <2>6. Append(Counted(a, b), e) = Counted(a, e)
      BY <2>3, <2>4, <2>5, SeqEqual
    <2>7. QED BY <2>2, <2>6 DEF e
  <1>3. b + 1 \in Nat
    OBVIOUS
  <1> DEFINE s == Counted(a, b)
             e == b + 1
             T == MessageIds(k)
  <1> HIDE DEF s, e, T
  <1>4. s \in Seq(Nat) /\ e \in Nat
    BY <1>2, <1>3 DEF s, e
  <1>5. /\ e \in T => Among(Append(s, e), T) = Append(Among(s, T), e)
        /\ e \notin T => Among(Append(s, e), T) = Among(s, T)
    BY <1>4, AmongAppend
  <1>6. QED BY <1>1, <1>2, <1>5, AmongEmpty DEF s, e, T, MessagesOf

(***************************************************************************)
(* What the platforms answer.                                              *)
(***************************************************************************)
LEMMA PageFacts ==
  ASSUME NEW a \in Nat, published \in Nat, a <= published
  PROVE  /\ Page(a) \in Seq(Nat) /\ IsInjective(Page(a))
         /\ \A i \in DOMAIN Page(a) : Page(a)[i] = published + 1 - i
         /\ Range(Page(a)) \subseteq (a + 1)..published
PROOF
  <1> DEFINE all == Reverse(OldestFirst(a))
             n == published - a
             m == IF Len(all) < PageSize THEN Len(all) ELSE PageSize
             page == SubSeq(all, 1, m)
  <1>1. OldestFirst(a) \in Seq(Nat) /\ Len(OldestFirst(a)) = n /\ n \in Nat
        /\ \A i \in 1..n : OldestFirst(a)[i] = a + i
    BY CountedFacts DEF OldestFirst, Counted
  <1>2. all = [i \in 1..n |-> OldestFirst(a)[n - i + 1]]
    BY <1>1 DEF Reverse
  <1>3. \A i \in 1..n : n - i + 1 \in 1..n /\ a + (n - i + 1) = published + 1 - i
                        /\ published + 1 - i \in Nat
    BY <1>1
  <1>4. all = [i \in 1..n |-> published + 1 - i]
    BY <1>1, <1>2, <1>3
  <1>5. all \in Seq(Nat) /\ Len(all) = n /\ \A i \in 1..n : all[i] = published + 1 - i
    <2> DEFINE Item(i) == published + 1 - i
    <2>1. n \in Nat /\ (\A i \in 1..n : Item(i) \in Nat) /\ all = [i \in 1..n |-> Item(i)]
      BY <1>1, <1>3, <1>4
    <2>2. \A i \in 1..n : Item(i) = published + 1 - i
      OBVIOUS
    <2> HIDE DEF all, n, Item
    <2>3. all \in Seq(Nat) /\ Len(all) = n /\ \A i \in 1..n : all[i] = Item(i)
      BY <2>1
    <2>4. QED BY <2>2, <2>3
  <1>6. m \in 0..n
    BY <1>1, <1>5, FeedBounds
  <1>7. page \in Seq(Nat) /\ Len(page) = m /\ DOMAIN page = 1..m
        /\ \A i \in 1..m : page[i] = published + 1 - i
    <2> HIDE DEF all, n, m
    <2>1. QED BY SMTT(40), <1>1, <1>5, <1>6
  <1>8. Page(a) = page
    BY DEF Page
  <1>9. \A i \in 1..m : published + 1 - i \in (a + 1)..published
    BY <1>6
  <1> HIDE DEF page, m, all
  <1>10. IsInjective(page)
    <2>1. \A i, j \in 1..m : published + 1 - i = published + 1 - j => i = j
      BY <1>6, <1>1
    <2>2. QED BY <1>7, <2>1 DEF IsInjective
  <1>11. Range(page) \subseteq (a + 1)..published
    BY <1>7, <1>9 DEF Range
  <1>12. QED BY <1>7, <1>8, <1>10, <1>11

LEMMA OldestFacts ==
  ASSUME NEW a \in Nat, published \in Nat, a <= published
  PROVE  /\ OldestFirst(a) \in Seq(Nat) /\ Rising(OldestFirst(a)) /\ IsInjective(OldestFirst(a))
         /\ \A i \in DOMAIN OldestFirst(a) : OldestFirst(a)[i] = a + i
         /\ Range(OldestFirst(a)) \subseteq (a + 1)..published
         /\ Reverse(OldestFirst(a)) \in Seq(Nat)
         /\ Range(Reverse(OldestFirst(a))) \subseteq (a + 1)..published
PROOF
  <1> DEFINE all == OldestFirst(a)
             back == Reverse(all)
             n == published - a
  <1>1. all = Counted(a, published)
    BY DEF OldestFirst, Counted
  <1>2. n \in Nat
    OBVIOUS
  <1> HIDE DEF all
  <1>3. all \in Seq(Nat) /\ Len(all) = n /\ DOMAIN all = 1..n /\ Rising(all)
        /\ (\A i \in 1..n : all[i] = a + i)
    BY <1>1, CountedFacts
  <1>4. \A i \in 1..n : a + i \in (a + 1)..published /\ n - i + 1 \in 1..n
    OBVIOUS
  <1>5. Range(all) \subseteq (a + 1)..published
    BY <1>3, <1>4 DEF Range
  <1>6. back = [i \in 1..n |-> all[n - i + 1]]
    BY <1>3 DEF Reverse
  <1> HIDE DEF back
  <1>7. back \in Seq(Nat) /\ DOMAIN back = 1..n /\ \A i \in 1..n : back[i] = all[n - i + 1]
    <2> DEFINE Item(i) == all[n - i + 1]
    <2>1. \A i \in 1..n : Item(i) \in Nat
      BY <1>3, <1>4
    <2>2. back = [i \in 1..n |-> Item(i)]
      BY <1>6
    <2> HIDE DEF Item, n
    <2>3. back \in Seq(Nat) /\ DOMAIN back = 1..n /\ \A i \in 1..n : back[i] = Item(i)
      BY <1>2, <2>1, <2>2
    <2>4. QED BY <2>3 DEF Item
  <1>8. Range(back) \subseteq (a + 1)..published
    BY SMTT(40), <1>3, <1>4, <1>7 DEF Range
  <1>9. QED BY <1>3, <1>5, <1>7, <1>8, RisingInjective DEF all, back

LEMMA EventsFacts ==
  ASSUME published \in Nat, feed.cursor \in Nat
  PROVE  /\ GithubEvents \in Seq(Nat) /\ IsInjective(GithubEvents)
         /\ Range(GithubEvents) \subseteq (feed.cursor + 1)..published
PROOF
  <1> DEFINE later == {i \in Nat : i > feed.cursor}
  <1>1. Page(0) \in Seq(Nat) /\ IsInjective(Page(0)) /\ Range(Page(0)) \subseteq 1..published
    BY PageFacts
  <1>2. GithubEvents = Among(Page(0), later)
    <2>1. \A i \in DOMAIN Page(0) : Page(0)[i] \in Nat
      BY <1>1
    <2>2. [i \in DOMAIN Page(0) |-> IF Page(0)[i] > feed.cursor THEN <<Page(0)[i]>> ELSE <<>>]
            = [i \in DOMAIN Page(0) |-> IF Page(0)[i] \in later THEN <<Page(0)[i]>> ELSE <<>>]
      BY <2>1
    <2>3. QED BY <2>2 DEF GithubEvents, Selected, Among
  <1>3. Range(Among(Page(0), later)) = Range(Page(0)) \cap later
    BY <1>1, AmongRange
  <1>4. QED BY <1>1, <1>2, <1>3, AmongTyped, AmongInjective

LEMMA MailFacts ==
  ASSUME published \in Nat, feed.cursor \in Nat
  PROVE  /\ EmailUnseen \in Seq(Nat) /\ Rising(EmailUnseen) /\ IsInjective(EmailUnseen)
         /\ Range(EmailUnseen) \subseteq (feed.cursor + 1)..published
PROOF
  <1> DEFINE later == {i \in Nat : i > feed.cursor}
             all == OldestFirst(0)
  <1>1. all \in Seq(Nat) /\ Rising(all) /\ Range(all) \subseteq 1..published
    <2>1. all = Counted(0, published)
      BY DEF OldestFirst, Counted
    <2> HIDE DEF all
    <2>a. 0 \in Nat /\ 0 <= published
      OBVIOUS
    <2>2. Counted(0, published) \in Seq(Nat) /\ Rising(Counted(0, published))
          /\ \A x \in Range(Counted(0, published)) : 0 < x /\ x <= published
      BY <2>a, CountedFacts, Zenon
    <2>3. Range(all) \subseteq Nat
      <3>1. \A i \in DOMAIN all : all[i] \in Nat
        BY <2>1, <2>2
      <3>2. QED BY <3>1 DEF Range
    <2>4. QED BY <2>1, <2>2, <2>3
  <1>2. EmailUnseen = Among(all, later)
    <2>1. \A i \in DOMAIN all : all[i] \in Nat
      BY <1>1
    <2>2. [i \in DOMAIN all |-> IF all[i] > feed.cursor THEN <<all[i]>> ELSE <<>>]
            = [i \in DOMAIN all |-> IF all[i] \in later THEN <<all[i]>> ELSE <<>>]
      BY <2>1
    <2>3. QED BY <2>2 DEF EmailUnseen, Selected, Among
  <1> HIDE DEF all
  <1>3. Range(Among(all, later)) = Range(all) \cap later
    BY <1>1, AmongRange
  <1>4. Rising(Among(all, later)) /\ Among(all, later) \in Seq(Nat)
    BY <1>1, AmongTyped, AmongRising
  <1>5. QED BY <1>1, <1>2, <1>3, <1>4, RisingInjective

LEMMA RangeMore ==
  ASSUME NEW s \in Seq(Nat), NEW e \in Nat
  PROVE  Range(Append(s, e)) = Range(s) \cup {e}
PROOF BY RangeAppend

(***************************************************************************)
(* What a step does to the sequences.                                      *)
(***************************************************************************)
LEMMA EnterEffect ==
  ASSUME NEW i \in Nat, Room, Enter(i), queue \in Seq(Nat), entered \in Seq(Nat)
  PROVE  /\ queue' \in Seq(Nat) /\ Len(queue') <= QueueCap /\ Range(queue') = Range(queue) \cup {i}
         /\ entered' \in Seq(Nat) /\ Range(entered') = Range(entered) \cup {i}
         /\ IsInjective(entered) /\ i \notin Range(entered) => IsInjective(entered')
PROOF
  <1>1. queue' = Append(queue, i) /\ entered' = Append(entered, i) /\ Len(queue) < QueueCap
    BY DEF Enter, Room
  <1>2. queue' \in Seq(Nat) /\ Len(queue') <= QueueCap /\ entered' \in Seq(Nat)
    BY <1>1, FeedBounds
  <1>3. QED BY <1>1, <1>2, RangeAppend, InjectiveAppend

LEMMA PassedEffect ==
  ASSUME feed \in FeedRec, feed.batch # <<>>, NEW c \in Nat, feed' = Passed(c)
  PROVE  /\ feed' \in FeedRec /\ feed'.cursor = c /\ feed'.stage = feed.stage
         /\ feed'.newest = feed.newest /\ feed'.start = feed.start
         /\ Current \in Nat /\ Current = feed.batch[1] /\ 1 \in DOMAIN feed.batch
         /\ Range(feed.batch) = Range(feed'.batch) \cup {Current}
         /\ IsInjective(feed.batch) => IsInjective(feed'.batch) /\ Current \notin Range(feed'.batch)
         /\ \A i \in DOMAIN feed'.batch : i + 1 \in DOMAIN feed.batch /\ i \in Nat \ {0}
                                          /\ feed'.batch[i] = feed.batch[i + 1]
PROOF
  <1> DEFINE b == feed.batch
  <1>1. b \in Seq(Nat) /\ b # <<>> /\ feed.stage \in {"idle", "sending", "closed"}
        /\ feed.newest \in Nat /\ feed.start \in Nat
    BY DEF FeedRec
  <1>2. feed' = [feed EXCEPT !.batch = Tail(b), !.cursor = c] /\ Current = Head(b)
    BY DEF Passed, Current
  <1> HIDE DEF b
  <1>3. /\ Tail(b) \in Seq(Nat) /\ Len(b) \in Nat \ {0} /\ Len(Tail(b)) = Len(b) - 1
        /\ \A i \in 1..(Len(b) - 1) : Tail(b)[i] = b[i + 1]
        /\ Head(b) = b[1] /\ Head(b) \in Nat /\ DOMAIN b = 1..Len(b)
        /\ DOMAIN Tail(b) = 1..(Len(b) - 1)
    BY <1>1
  <1>4. feed' \in FeedRec /\ feed'.cursor = c /\ feed'.stage = feed.stage /\ feed'.batch = Tail(b)
        /\ feed'.newest = feed.newest /\ feed'.start = feed.start
    BY <1>1, <1>2, <1>3 DEF FeedRec
  <1>5. Range(b) = Range(Tail(b)) \cup {Head(b)}
    BY <1>1, RangeTail
  <1>6. IsInjective(b) => IsInjective(Tail(b)) /\ Head(b) \notin Range(Tail(b))
    BY <1>1, InjectiveTail
  <1>7. \A i \in DOMAIN Tail(b) : i + 1 \in DOMAIN b /\ i \in Nat \ {0} /\ Tail(b)[i] = b[i + 1]
    BY <1>3
  <1>8. 1 \in DOMAIN b
    BY <1>3
  <1>9. QED BY <1>2, <1>3, <1>4, <1>5, <1>6, <1>7, <1>8 DEF b

(***************************************************************************)
(* The steps.                                                              *)
(***************************************************************************)
LEMMA FeedFacts ==
  ASSUME FeedInv
  PROVE  /\ kind \in Pollers \cup Hooks /\ published \in Nat /\ confirmed \in Nat
         /\ confirmed <= published /\ feed \in FeedRec /\ feed.cursor \in Nat
         /\ feed.cursor <= published /\ feed.batch \in Seq(Nat) /\ feed.newest \in Nat
         /\ feed.start \in Nat /\ feed.stage \in {"idle", "sending", "closed"}
         /\ queue \in Seq(Nat) /\ entered \in Seq(Nat) /\ taken \in Seq(Nat) /\ lost \subseteq Nat
         /\ Len(queue) <= QueueCap /\ signal \in {"none", "cancelled", "stopped"}
         /\ Begun \in Nat /\ Reached \in Nat
PROOF BY DEF FeedInv, FeedTyped, FeedRec, Begun, Reached

(* An answer of the platform, newer than what was passed on.               *)
LEMMA ReceiveKeeps ==
  ASSUME FeedInv, NEW answer \in Seq(Nat), NEW c \in Nat, Receive(answer),
         kind \in Pollers, feed.stage = "idle", signal # "cancelled",
         IF kind = "telegram" THEN confirmed' = Reached ELSE confirmed' = confirmed,
         Range(answer) \subseteq (c + 1)..published,
         kind # "twitterNewestFirst" =>
           IsInjective(answer) /\ Range(entered) \cap Range(answer) = {},
         kind = "slack" => \A i \in Range(entered) \cup Range(answer) : i <= answer[1],
         kind = "email" => Rising(answer) /\ \A i \in DOMAIN answer : feed.cursor < answer[i],
         kind \in {"telegram", "twitter"} => \A i \in DOMAIN answer : answer[i] = Reached + i
  PROVE  FeedInv'
PROOF
  <1>1. /\ feed' = [feed EXCEPT !.stage = "sending", !.batch = answer, !.newest = answer[1]]
        /\ UNCHANGED <<kind, published, queue, entered, taken, lost, signal>>
    BY DEF Receive, NewestOf
  <1>2. /\ answer[1] \in Nat /\ answer[1] \in Range(answer)
    <2>1. answer # <<>>
      BY DEF Receive
    <2>2. 1 \in DOMAIN answer /\ answer[1] \in Nat
      BY <2>1
    <2>3. QED BY <2>2 DEF Range
  <1>3. /\ feed' \in FeedRec /\ feed'.batch = answer /\ feed'.stage = "sending"
        /\ feed'.newest = answer[1] /\ feed'.cursor = feed.cursor /\ feed'.start = feed.start
    BY <1>1, <1>2, FeedFacts DEF FeedRec
  <1>4. Begun' = Begun /\ Reached' = Reached
    BY <1>1, <1>3 DEF Begun, Reached
  <1>5. Reached <= published
    BY FeedFacts DEF FeedInv, GaplessOK, Reached, Begun
  <1> USE FeedFacts
  <1>6. FeedTyped'
    BY <1>1, <1>3, <1>5 DEF FeedTyped
  <1>7. BatchOK'
    <2>1. Range(answer) \subseteq 1..published
      OBVIOUS
    <2>2. QED BY <1>1, <1>3, <2>1 DEF FeedInv, BatchOK, Pollers, Hooks
  <1>8. FreshOK'
    BY <1>1, <1>3 DEF FeedInv, FreshOK
  <1>9. CursorOK'
    BY SMTT(40), <1>1, <1>2, <1>3 DEF FeedInv, CursorOK
  <1>10. GaplessOK'
    BY <1>1, <1>3, <1>4 DEF FeedInv, GaplessOK, Reached, Begun
  <1>11. QED BY <1>6, <1>7, <1>8, <1>9, <1>10 DEF FeedInv

(* What is newer than all that was passed on is not among it.              *)
LEMMA NewerApart ==
  ASSUME NEW s \in Seq(Nat), NEW t, NEW c \in Nat, NEW p \in Nat,
         \A i \in Range(s) : i <= c, t \subseteq (c + 1)..p
  PROVE  Range(s) \cap t = {}
PROOF
  <1>1. Range(s) \subseteq Nat
    <2>1. \A i \in DOMAIN s : s[i] \in Nat
      OBVIOUS
    <2>2. QED BY <2>1 DEF Range
  <1>2. QED BY <1>1

LEMMA PollKeeps ==
  ASSUME FeedInv, Poll
  PROVE  FeedInv'
PROOF
  <1> USE FeedFacts
  <1>a. /\ Reached \in Nat /\ Reached <= published
        /\ (kind = "telegram" => Confirmed = Reached) /\ (kind = "twitter" => Reached = feed.cursor)
    BY DEF FeedInv, GaplessOK, Reached, Begun, Confirmed
  <1>1. CASE PollTelegram
    <2>1. Receive(OldestFirst(Reached)) /\ confirmed' = Reached /\ kind = "telegram"
          /\ feed.stage = "idle" /\ signal # "cancelled"
      BY <1>1, <1>a DEF PollTelegram, MayPoll, TelegramUpdates
    <2> DEFINE answer == OldestFirst(Reached)
    <2>3. answer \in Seq(Nat) /\ IsInjective(answer) /\ Range(answer) \subseteq (Reached + 1)..published
          /\ \A i \in DOMAIN answer : answer[i] = Reached + i
      BY <1>a, OldestFacts
    <2>4. \A i \in Range(entered) : i <= Reached
      BY <2>1 DEF FeedInv, CursorOK, BatchOK, Reached
    <2> HIDE DEF answer
    <2>5. Range(entered) \cap Range(answer) = {}
      BY <1>a, <2>3, <2>4, NewerApart
    <2>6. QED BY <2>1, <2>3, <2>5, ReceiveKeeps DEF answer, Pollers
  <1>2. CASE PollSlack
    <2> DEFINE answer == SlackHistory
    <2>1. Receive(answer) /\ confirmed' = confirmed /\ kind = "slack"
          /\ feed.stage = "idle" /\ signal # "cancelled"
      BY <1>2 DEF PollSlack, MayPoll
    <2>3. answer \in Seq(Nat) /\ IsInjective(answer)
          /\ Range(answer) \subseteq (feed.cursor + 1)..published
          /\ \A i \in DOMAIN answer : answer[i] = published + 1 - i
      BY PageFacts DEF SlackHistory
    <2> HIDE DEF answer
    <2>4. \A i \in Range(entered) : i <= feed.cursor
      BY <2>1 DEF FeedInv, CursorOK
    <2>5. Range(entered) \cap Range(answer) = {}
      BY <2>3, <2>4, NewerApart
    <2>6. answer[1] = published
      <3>1. 1 \in DOMAIN answer
        BY <2>1, <2>3 DEF Receive
      <3>2. QED BY <2>3, <3>1
    <2>7. \A i \in Range(entered) \cup Range(answer) : i <= answer[1]
      BY <2>3, <2>6 DEF FeedInv, BatchOK
    <2>8. QED BY <2>1, <2>3, <2>5, <2>7, ReceiveKeeps DEF Pollers
  <1>3. CASE PollGithub
    <2> DEFINE answer == GithubEvents
    <2>1. Receive(answer) /\ confirmed' = confirmed /\ kind = "github"
          /\ feed.stage = "idle" /\ signal # "cancelled"
      BY <1>3 DEF PollGithub, MayPoll
    <2>3. answer \in Seq(Nat) /\ IsInjective(answer)
          /\ Range(answer) \subseteq (feed.cursor + 1)..published
      BY EventsFacts
    <2> HIDE DEF answer
    <2>4. \A i \in Range(entered) : i <= feed.cursor
      BY <2>1 DEF FeedInv, CursorOK
    <2>5. Range(entered) \cap Range(answer) = {}
      BY <2>3, <2>4, NewerApart
    <2>6. QED BY <2>1, <2>3, <2>5, ReceiveKeeps DEF Pollers
  <1>4. CASE PollTwitter
    <2>0. CASE kind = "twitter"
      <3> DEFINE answer == OldestFirst(feed.cursor)
      <3>1. Receive(answer) /\ confirmed' = confirmed /\ feed.stage = "idle" /\ signal # "cancelled"
        BY <1>4, <2>0 DEF PollTwitter, MayPoll, TwitterMentions
      <3>2. answer \in Seq(Nat) /\ IsInjective(answer)
            /\ Range(answer) \subseteq (feed.cursor + 1)..published
            /\ \A i \in DOMAIN answer : answer[i] = feed.cursor + i
        BY OldestFacts
      <3>3. \A i \in Range(entered) : i <= feed.cursor
        BY <2>0 DEF FeedInv, CursorOK
      <3> HIDE DEF answer
      <3>4. Range(entered) \cap Range(answer) = {}
        BY <3>2, <3>3, NewerApart
      <3>5. QED BY <1>a, <2>0, <3>1, <3>2, <3>4, ReceiveKeeps DEF Pollers
    <2>1. CASE kind = "twitterNewestFirst"
      <3> DEFINE answer == Reverse(OldestFirst(feed.cursor))
      <3>1. Receive(answer) /\ confirmed' = confirmed /\ feed.stage = "idle" /\ signal # "cancelled"
        BY <1>4, <2>1 DEF PollTwitter, MayPoll, TwitterMentions
      <3>2. answer \in Seq(Nat) /\ Range(answer) \subseteq (feed.cursor + 1)..published
        BY OldestFacts
      <3> HIDE DEF answer
      <3>3. QED BY <2>1, <3>1, <3>2, ReceiveKeeps DEF Pollers
    <2>2. QED BY <1>4, <2>0, <2>1 DEF PollTwitter, MayPoll
  <1>5. CASE PollEmail
    <2> DEFINE answer == EmailUnseen
    <2>1. Receive(answer) /\ confirmed' = confirmed /\ kind = "email"
          /\ feed.stage = "idle" /\ signal # "cancelled"
      BY <1>5 DEF PollEmail, MayPoll
    <2>3. answer \in Seq(Nat) /\ IsInjective(answer) /\ Rising(answer)
          /\ Range(answer) \subseteq (feed.cursor + 1)..published
      BY MailFacts
    <2> HIDE DEF answer
    <2>4. \A i \in Range(entered) : i <= feed.cursor
      BY <2>1 DEF FeedInv, CursorOK
    <2>5. Range(entered) \cap Range(answer) = {}
      BY <2>3, <2>4, NewerApart
    <2>6. \A i \in DOMAIN answer : feed.cursor < answer[i]
      <3>1. \A i \in DOMAIN answer : answer[i] \in (feed.cursor + 1)..published
        BY <2>3 DEF Range
      <3>2. QED BY <3>1
    <2>7. QED BY <2>1, <2>3, <2>5, <2>6, ReceiveKeeps DEF Pollers
  <1>6. QED BY <1>1, <1>2, <1>3, <1>4, <1>5 DEF Poll

(* The next item enters the channel if it is a message.                    *)
LEMMA EnteredNext ==
  ASSUME NEW a \in Nat, Reached \in Nat, a <= Reached, Current = Reached + 1,
         entered = MessagesOf(kind, a, Reached),
         Current \in MessageIds(kind) => entered' = Append(entered, Current),
         Current \notin MessageIds(kind) => entered' = entered
  PROVE  entered' = MessagesOf(kind, a, Current)
PROOF
  <1>1. \A b \in Nat : a <= b =>
          /\ b + 1 \in MessageIds(kind) =>
               MessagesOf(kind, a, b + 1) = Append(MessagesOf(kind, a, b), b + 1)
          /\ b + 1 \notin MessageIds(kind) => MessagesOf(kind, a, b + 1) = MessagesOf(kind, a, b)
    BY MessagesNext
  <1>2. QED BY <1>1

(* Telegram and twitter send the next item and go on after it.             *)
LEMMA SendNextKeeps ==
  ASSUME FeedInv, SendUpdate \/ SendMention
  PROVE  FeedInv'
PROOF
  <1> USE FeedFacts
  <1>1. /\ feed.stage = "sending" /\ feed.batch # <<>> /\ feed' = Passed(Current)
        /\ UNCHANGED <<kind, published, confirmed, taken, lost, signal>>
        /\ kind \in {"telegram", "twitter", "twitterNewestFirst"}
    BY DEF SendUpdate, SendMention, Passing
  <1>2. Current \in Nat /\ Current \in Range(feed.batch)
    <2>1. Current = feed.batch[1] /\ 1 \in DOMAIN feed.batch /\ Current \in Nat
      BY SMTT(40), <1>1 DEF Current
    <2>2. QED BY <2>1 DEF Range
  <1>3. /\ feed' \in FeedRec /\ feed'.cursor = Current /\ feed'.stage = "sending"
        /\ feed'.newest = feed.newest /\ feed'.start = feed.start
        /\ Current = feed.batch[1] /\ 1 \in DOMAIN feed.batch
        /\ Range(feed.batch) = Range(feed'.batch) \cup {Current}
        /\ (IsInjective(feed.batch) => IsInjective(feed'.batch) /\ Current \notin Range(feed'.batch))
        /\ \A i \in DOMAIN feed'.batch : i + 1 \in DOMAIN feed.batch /\ i \in Nat \ {0}
                                         /\ feed'.batch[i] = feed.batch[i + 1]
    BY <1>1, <1>2, PassedEffect
  <1>4. \/ Room /\ Enter(Current)
        \/ kind = "telegram" /\ Current \notin MessageIds(kind) /\ UNCHANGED <<queue, entered>>
    BY <1>1, <1>2 DEF SendUpdate, SendMention, IsMessage, MessageIds, Passing
  <1>5. /\ queue' \in Seq(Nat) /\ Len(queue') <= QueueCap /\ entered' \in Seq(Nat)
        /\ Range(queue) \subseteq Range(queue')
        /\ Range(entered) \subseteq Range(entered')
        /\ Range(entered') \subseteq Range(entered) \cup {Current}
        /\ IsInjective(entered) /\ Current \notin Range(entered) => IsInjective(entered')
    BY <1>2, <1>4, EnterEffect
  <1>6. Current \in 1..published
    BY <1>2 DEF FeedInv, BatchOK
  <1>7. FeedTyped'
    BY <1>1, <1>3, <1>5, <1>6 DEF FeedTyped, FeedInv
  <1>8. BatchOK'
    BY <1>1, <1>3, <1>5, <1>6 DEF FeedInv, BatchOK, Pollers, Hooks
  <1>9. FreshOK'
    BY ZenonT(60), <1>1, <1>2, <1>3, <1>5 DEF FeedInv, FreshOK
  <1>10. kind \in {"telegram", "twitter"} => Current = Reached + 1
    BY <1>3 DEF FeedInv, GaplessOK
  <1>11. Reached' = Current /\ Begun' = Begun
    BY <1>1, <1>3, <1>6 DEF Reached, Begun
  <1>12. CursorOK'
    <2>1. kind \in {"telegram", "twitter"} => \A i \in Range(entered) : i <= Reached
      BY DEF FeedInv, CursorOK, BatchOK, Reached
    <2>2. kind \in {"telegram", "twitter"} => \A i \in Range(entered') : i <= Current
      <3>1. Range(entered) \subseteq Nat
        BY DEF FeedInv, BatchOK
      <3>2. SUFFICES ASSUME kind \in {"telegram", "twitter"}, NEW i \in Range(entered')
                    PROVE  i <= Current
        OBVIOUS
      <3>3. i \in Range(entered) \/ i = Current
        BY <1>5
      <3>4. Current = Reached + 1 /\ Reached \in Nat
        BY <1>10, <3>2
      <3>5. i \in Range(entered) => i <= Reached /\ i \in Nat
        BY <2>1, <3>1, <3>2
      <3>6. QED BY <1>2, <3>3, <3>4, <3>5
    <2>3. kind' = kind /\ kind \notin {"email", "slack", "github"} /\ feed'.cursor = Current
      BY <1>1, <1>3
    <2>4. QED BY <2>2, <2>3 DEF CursorOK
  <1>13. GaplessOK'
    <2> SUFFICES ASSUME kind \in {"telegram", "twitter"} PROVE GaplessOK'
      BY <1>1 DEF GaplessOK
    <2>1. \A i \in DOMAIN feed'.batch : feed'.batch[i] = Current + i
      <3>1. \A i \in DOMAIN feed'.batch : feed.batch[i + 1] = Reached + (i + 1)
        BY <1>3 DEF FeedInv, GaplessOK
      <3>2. \A i \in DOMAIN feed'.batch : Reached + (i + 1) = Current + i
        <4>1. Current = Reached + 1 /\ Reached \in Nat
          BY <1>10
        <4>2. \A i \in Nat : Reached + (i + 1) = Current + i
          BY <4>1
        <4>3. QED BY <1>3, <4>2
      <3>3. QED BY <1>3, <3>1, <3>2
    <2>2. /\ Current \in MessageIds(kind) => entered' = Append(entered, Current)
                                             /\ Current \in Range(queue')
          /\ Current \notin MessageIds(kind) => entered' = entered
      <3>1. Room /\ Enter(Current) => Current \in Range(queue') /\ entered' = Append(entered, Current)
        BY <1>2, EnterEffect DEF Enter
      <3>2. kind = "twitter" => Current \in MessageIds(kind)
        BY <1>2 DEF MessageIds
      <3>3. Current \notin MessageIds(kind) => entered' = entered
        BY <1>1, <1>2, <1>4, <3>2 DEF SendUpdate, SendMention, IsMessage, MessageIds, Passing
      <3>4. QED BY <1>4, <3>1, <3>2, <3>3
    <2>3. CASE kind = "twitter"
      <3>1. entered = MessagesOf(kind, 0, Reached) /\ Current = Reached + 1
        BY <1>10, <2>3 DEF FeedInv, GaplessOK, Reached
      <3>2. entered' = MessagesOf(kind, 0, Current)
        <4>1. 0 \in Nat /\ Reached \in Nat /\ 0 <= Reached
          OBVIOUS
        <4>2. QED BY <2>2, <3>1, <4>1, EnteredNext
      <3>3. QED BY <1>1, <1>3, <1>11, <2>1, <2>3, <3>2 DEF GaplessOK
    <2>4. CASE kind = "telegram"
      <3>1. /\ entered = MessagesOf(kind, Begun, Reached) /\ Current = Reached + 1
            /\ Begun <= Reached /\ confirmed <= Reached
            /\ \A i \in 1..Reached :
                 i \in MessageIds(kind) => i \in Range(taken) \cup Range(queue) \cup lost
        BY <1>10, <2>4 DEF FeedInv, GaplessOK
      <3>2. entered' = MessagesOf(kind, Begun, Current)
        <4>1. Begun \in Nat /\ Reached \in Nat
          OBVIOUS
        <4>2. QED BY <2>2, <3>1, <4>1, EnteredNext
      <3>3. \A i \in 1..Current :
              i \in MessageIds(kind) => i \in Range(taken) \cup Range(queue') \cup lost
        <4>1. \A i \in 1..Current : i \in 1..Reached \/ i = Current
          BY <3>1
        <4>2. QED BY <1>5, <2>2, <3>1, <4>1
      <3>4. Begun <= Current /\ confirmed <= Current /\ Current # 0
        BY <1>2, <3>1
      <3>5. QED BY <1>1, <1>3, <1>11, <2>1, <2>4, <3>2, <3>3, <3>4 DEF GaplessOK
    <2>5. QED BY <2>3, <2>4
  <1>14. QED BY <1>7, <1>8, <1>9, <1>12, <1>13 DEF FeedInv

(* Slack, github and email send an item of the page.                       *)
LEMMA SendPageKeeps ==
  ASSUME FeedInv, SendEvent \/ SendMail
  PROVE  FeedInv'
PROOF
  <1> USE FeedFacts
  <1> DEFINE c == IF kind = "email" THEN Current ELSE feed.cursor
  <1>1. /\ feed.stage = "sending" /\ feed.batch # <<>> /\ feed' = Passed(c)
        /\ UNCHANGED <<kind, published, confirmed, taken, lost, signal>>
        /\ kind \in {"slack", "github", "email"}
    BY DEF SendEvent, SendMail, Passing
  <1>2. Current \in Nat /\ Current \in Range(feed.batch) /\ c \in Nat
    <2>1. Current = feed.batch[1] /\ 1 \in DOMAIN feed.batch /\ Current \in Nat
      BY SMTT(40), <1>1 DEF Current
    <2>2. QED BY <2>1 DEF Range
  <1>a. kind = "email" => c = Current
    OBVIOUS
  <1>b. kind # "email" => c = feed.cursor
    OBVIOUS
  <1> HIDE DEF c
  <1>3. /\ feed' \in FeedRec /\ feed'.cursor = c /\ feed'.stage = "sending"
        /\ feed'.newest = feed.newest /\ feed'.start = feed.start
        /\ Current = feed.batch[1] /\ 1 \in DOMAIN feed.batch
        /\ Range(feed.batch) = Range(feed'.batch) \cup {Current}
        /\ (IsInjective(feed.batch) => IsInjective(feed'.batch) /\ Current \notin Range(feed'.batch))
        /\ \A i \in DOMAIN feed'.batch : i + 1 \in DOMAIN feed.batch /\ i \in Nat \ {0}
                                         /\ feed'.batch[i] = feed.batch[i + 1]
    BY <1>1, <1>2, PassedEffect
  <1>4. (Room /\ Enter(Current)) \/ UNCHANGED <<queue, entered>>
    BY <1>1 DEF SendEvent, SendMail
  <1>5. /\ queue' \in Seq(Nat) /\ Len(queue') <= QueueCap /\ entered' \in Seq(Nat)
        /\ Range(entered) \subseteq Range(entered')
        /\ Range(entered') \subseteq Range(entered) \cup {Current}
        /\ IsInjective(entered) /\ Current \notin Range(entered) => IsInjective(entered')
    BY <1>2, <1>4, EnterEffect
  <1>6. Current \in 1..published
    BY <1>2 DEF FeedInv, BatchOK
  <1>7. FeedTyped'
    BY SMTT(40), <1>1, <1>3, <1>5, <1>6, <1>a, <1>b DEF FeedTyped, FeedInv
  <1>8. BatchOK'
    BY <1>1, <1>3, <1>5, <1>6 DEF FeedInv, BatchOK, Pollers, Hooks
  <1>9. FreshOK'
    BY <1>1, <1>2, <1>3, <1>5 DEF FeedInv, FreshOK
  <1>10. CursorOK'
    <2>1. CASE kind = "email"
      <3>1. (\A i \in DOMAIN feed.batch : feed.cursor < feed.batch[i]) /\ Rising(feed.batch)
            /\ \A i \in Range(entered) : i <= feed.cursor
        BY <2>1 DEF FeedInv, CursorOK
      <3>2. Range(entered) \subseteq Nat
        BY DEF FeedInv, BatchOK
      <3>3. \A i \in Range(entered') : i <= Current
        <4>1. feed.cursor < Current
          BY <1>3, <3>1
        <4>2. SUFFICES ASSUME NEW i \in Range(entered') PROVE i <= Current
          OBVIOUS
        <4>3. i \in Range(entered) \/ i = Current
          BY <1>5
        <4>4. i \in Range(entered) => i <= feed.cursor /\ i \in Nat
          BY <3>1, <3>2
        <4>5. feed.cursor \in Nat
          OBVIOUS
        <4>6. QED BY <1>2, <4>1, <4>3, <4>4, <4>5
      <3>4. \A i \in DOMAIN feed'.batch : Current < feed'.batch[i]
        <4>1. \A i \in DOMAIN feed'.batch : 1 < i + 1
          BY <1>3
        <4>2. QED BY <1>3, <3>1, <4>1 DEF Rising
      <3>5. Rising(feed'.batch)
        <4>1. \A i, j \in DOMAIN feed'.batch : i < j => i + 1 < j + 1
          BY <1>3
        <4>2. QED BY <1>3, <3>1, <4>1 DEF Rising
      <3>6. QED BY <1>1, <1>3, <1>a, <2>1, <3>3, <3>4, <3>5 DEF CursorOK
    <2>2. CASE kind = "slack"
      <3>1. feed.newest <= published /\ \A i \in Range(entered) \cup Range(feed.batch) : i <= feed.newest
        BY <1>1, <2>2 DEF FeedInv, CursorOK
      <3>2. \A i \in Range(entered') \cup Range(feed'.batch) : i <= feed.newest
        BY <1>2, <1>3, <1>5, <3>1
      <3>3. QED BY <1>1, <1>3, <2>2, <3>1, <3>2 DEF CursorOK
    <2>3. CASE kind = "github"
      BY <1>1, <1>3, <2>3 DEF CursorOK
    <2>4. QED BY <1>1, <2>1, <2>2, <2>3
  <1>11. GaplessOK'
    BY <1>1 DEF GaplessOK
  <1>12. QED BY <1>7, <1>8, <1>9, <1>10, <1>11 DEF FeedInv

(* A poll ends, or is cancelled, and nothing is left to send.              *)
LEMMA EndKeeps ==
  ASSUME FeedInv, EndPoll \/ EnqueueCancelled \/ PollFails \/ CloseFeed
  PROVE  FeedInv'
PROOF
  <1> USE FeedFacts
  <1> DEFINE Shape ==
        /\ UNCHANGED <<kind, published, confirmed, queue, entered, taken, lost, signal>>
        /\ feed' \in FeedRec /\ feed'.newest = feed.newest /\ feed'.start = feed.start
        /\ feed'.stage \in {"idle", "closed"}
        /\ feed'.batch = <<>> \/ (kind \in Hooks /\ feed'.batch = feed.batch)
        /\ \/ feed'.cursor = feed.cursor
              /\ (kind \in {"slack", "github"} => feed.stage # "sending" \/ signal = "cancelled")
           \/ kind = "slack" /\ feed.stage = "sending" /\ feed'.cursor = feed.newest
           \/ kind = "github" /\ feed'.cursor = published
  <1>a. <<>> \in Seq(Nat)
    OBVIOUS
  <1>b. ASSUME EndHistory PROVE Shape
    BY <1>a, <1>b DEF EndHistory, EndAt, FeedRec
  <1>c. ASSUME EndEvents PROVE Shape
    BY <1>a, <1>c DEF EndEvents, EndAt, FeedRec
  <1>d. ASSUME kind \notin {"slack", "github"} /\ EndAt(feed.cursor) PROVE Shape
    BY <1>a, <1>d DEF EndAt, FeedRec
  <1>e. ASSUME EnqueueCancelled PROVE Shape
    BY <1>a, <1>e DEF EnqueueCancelled, Passing, FeedRec
  <1>f. ASSUME PollFails PROVE Shape
    BY <1>a, <1>f DEF PollFails, MayPoll, FeedRec, FeedInv, BatchOK, Pollers
  <1>g. ASSUME CloseFeed PROVE Shape
    <2>1. feed.batch = <<>> \/ kind \in Hooks
      BY <1>g DEF CloseFeed, FeedInv, BatchOK
    <2>2. QED BY <1>a, <1>g, <2>1 DEF CloseFeed, FeedRec
  <1>h. Shape
    BY <1>b, <1>c, <1>d, <1>e, <1>f, <1>g DEF EndPoll
  <1>1. UNCHANGED <<kind, published, confirmed, queue, entered, taken, lost, signal>>
    BY <1>h
  <1>2. feed' \in FeedRec /\ feed'.newest = feed.newest /\ feed'.start = feed.start
        /\ (feed'.cursor # feed.cursor => kind \in {"slack", "github"})
        /\ feed'.stage \in {"idle", "closed"} /\ feed'.cursor \in Nat
    <2>1. \A f \in FeedRec : f.cursor \in Nat
      BY DEF FeedRec
    <2>2. QED BY <1>h, <2>1
  <1>3. feed'.batch = <<>> \/ (kind \in Hooks /\ feed'.batch = feed.batch)
    BY <1>h
  <1>4. kind = "slack" => \/ feed'.cursor = feed.cursor
                             /\ (feed.stage # "sending" \/ signal = "cancelled")
                          \/ feed.stage = "sending" /\ feed'.cursor = feed.newest
    BY <1>h
  <1>5. kind = "github" => \/ feed'.cursor = feed.cursor
                              /\ (feed.stage # "sending" \/ signal = "cancelled")
                           \/ feed'.cursor = published
    BY <1>h
  <1> HIDE DEF Shape
  <1>6. Range(<<>>) = {} /\ IsInjective(<<>>) /\ DOMAIN <<>> = {}
    BY DEF Range, IsInjective
  <1>7. FeedTyped'
    <2>1. kind = "slack" /\ feed.stage = "sending" => feed.newest <= published
      BY DEF FeedInv, CursorOK
    <2>2. feed'.cursor <= published
      <3>1. kind \notin {"slack", "github"} => feed'.cursor = feed.cursor
        BY <1>2
      <3>2. published <= published
        OBVIOUS
      <3>3. QED BY <1>4, <1>5, <2>1, <3>1, <3>2
    <2>3. QED BY <1>1, <1>2, <2>2 DEF FeedTyped
  <1>8. BatchOK'
    BY <1>1, <1>2, <1>3, <1>6 DEF FeedInv, BatchOK, Pollers, Hooks
  <1>9. FreshOK'
    BY <1>1, <1>3, <1>6 DEF FeedInv, FreshOK
  <1>10. CursorOK'
    <2>1. Range(entered) \subseteq 1..published
      BY DEF FeedInv, BatchOK
    <2>2. CASE kind = "slack"
      <3>1. signal # "cancelled" => \A i \in Range(entered) : i <= feed'.cursor
        BY <1>4, <2>2 DEF FeedInv, CursorOK
      <3>2. QED BY <1>1, <1>2, <2>2, <3>1 DEF CursorOK
    <2>3. CASE kind = "github"
      <3>1. signal # "cancelled" => \A i \in Range(entered) : i <= feed'.cursor
        BY <1>5, <2>1, <2>3 DEF FeedInv, CursorOK
      <3>2. QED BY <1>1, <1>2, <2>3, <3>1 DEF CursorOK
    <2>4. CASE kind = "email"
      <3>1. feed'.batch = <<>> /\ feed'.cursor = feed.cursor
        BY <1>2, <1>3, <2>4 DEF Hooks
      <3>2. QED BY <1>1, <1>6, <2>4, <3>1 DEF FeedInv, CursorOK, Rising
    <2>5. CASE kind \notin {"slack", "github", "email"}
      <3>1. feed'.cursor = feed.cursor
        BY <1>2, <2>5
      <3>2. QED BY <1>1, <2>5, <3>1 DEF FeedInv, CursorOK
    <2>6. QED BY <2>2, <2>3, <2>4, <2>5
  <1>11. GaplessOK'
    <2>1. CASE kind \in {"telegram", "twitter"}
      <3>1. feed'.batch = <<>> /\ feed'.cursor = feed.cursor
        BY <1>2, <1>3, <2>1 DEF Hooks
      <3>2. Reached' = Reached /\ Begun' = Begun
        BY <1>1, <1>2, <3>1 DEF Reached, Begun
      <3>3. QED BY <1>1, <1>6, <3>1, <3>2 DEF FeedInv, GaplessOK
    <2>2. QED BY <1>1, <2>1 DEF GaplessOK
  <1>12. QED BY <1>7, <1>8, <1>9, <1>10, <1>11 DEF FeedInv

(* A handler of a webhook is done with its message.                        *)
LEMMA HandleKeeps ==
  ASSUME FeedInv, Handle
  PROVE  FeedInv'
PROOF
  <1> USE FeedFacts
  <1>1. PICK i \in Range(feed.batch) : Offer(i)
    BY DEF Handle, HandleWhatsApp, HandleGithub
  <1>2. kind \in Hooks
    BY DEF Handle, HandleWhatsApp, HandleGithub, Hooks
  <1> DEFINE b == feed.batch
             rest == {j \in Nat : j # i}
  <1>3. b \in Seq(Nat) /\ Range(b) \subseteq 1..published
    BY DEF FeedInv, BatchOK
  <1>4. i \in 1..published /\ i \in Nat
    BY <1>3
  <1>5. Selected(b, LAMBDA j : j # i) = Among(b, rest)
    <2>1. \A n \in DOMAIN b : b[n] \in Nat
      BY SMTT(40), <1>3
    <2>2. [n \in DOMAIN b |-> IF b[n] # i THEN <<b[n]>> ELSE <<>>]
            = [n \in DOMAIN b |-> IF b[n] \in rest THEN <<b[n]>> ELSE <<>>]
      BY <2>1
    <2>3. QED BY <2>2 DEF Selected, Among
  <1>6. feed' = [feed EXCEPT !.batch = Among(b, rest)]
        /\ UNCHANGED <<kind, published, confirmed, taken, lost, signal>>
    BY <1>1, <1>5 DEF Offer
  <1>7. (Room /\ Enter(i)) \/ UNCHANGED <<queue, entered>>
    BY <1>1 DEF Offer
  <1> HIDE DEF b
  <1>8. Among(b, rest) \in Seq(Nat) /\ Range(Among(b, rest)) = Range(b) \cap rest
        /\ (IsInjective(b) => IsInjective(Among(b, rest)))
    BY <1>3, AmongTyped, AmongRange, AmongInjective
  <1>9. feed' \in FeedRec /\ feed'.batch = Among(b, rest) /\ feed'.stage = feed.stage
        /\ feed'.cursor = feed.cursor /\ feed'.newest = feed.newest /\ feed'.start = feed.start
    BY <1>6, <1>8 DEF FeedRec
  <1>10. Range(feed'.batch) \subseteq Range(feed.batch) /\ i \notin Range(feed'.batch)
         /\ (IsInjective(feed.batch) => IsInjective(feed'.batch))
    BY <1>8, <1>9 DEF b
  <1>11. /\ queue' \in Seq(Nat) /\ Len(queue') <= QueueCap /\ entered' \in Seq(Nat)
         /\ Range(entered') \subseteq Range(entered) \cup {i}
         /\ IsInjective(entered) /\ i \notin Range(entered) => IsInjective(entered')
    BY <1>4, <1>7, EnterEffect
  <1>12. FeedTyped'
    BY <1>6, <1>9, <1>11 DEF FeedTyped
  <1>13. BatchOK'
    BY <1>2, <1>4, <1>6, <1>9, <1>10, <1>11 DEF FeedInv, BatchOK, Pollers, Hooks
  <1>14. FreshOK'
    BY <1>1, <1>6, <1>10, <1>11 DEF FeedInv, FreshOK
  <1>15. CursorOK' /\ GaplessOK'
    BY <1>2, <1>6 DEF CursorOK, GaplessOK, Hooks
  <1>16. QED BY <1>12, <1>13, <1>14, <1>15 DEF FeedInv

LEMMA PublishKeeps ==
  ASSUME FeedInv, Publish
  PROVE  FeedInv'
PROOF
  <1> USE FeedFacts
  <1>1. published' = published + 1
        /\ UNCHANGED <<kind, confirmed, queue, entered, taken, lost, signal>>
    BY DEF Publish
  <1>2. feed' \in FeedRec /\ feed'.stage = feed.stage
        /\ feed'.cursor = feed.cursor /\ feed'.newest = feed.newest /\ feed'.start = feed.start
    <2>1. Append(feed.batch, published + 1) \in Seq(Nat)
      OBVIOUS
    <2>2. QED BY <2>1 DEF Publish, FeedRec
  <1>3. \/ feed'.batch = feed.batch
        \/ kind \in Hooks /\ feed'.batch = Append(feed.batch, published + 1)
    BY DEF Publish, FeedRec
  <1>4. kind \notin Hooks => feed'.batch = feed.batch
    BY DEF Publish
  <1>5. Range(feed.batch) \subseteq 1..published /\ Range(entered) \subseteq 1..published
    BY DEF FeedInv, BatchOK
  <1>6. /\ Range(feed'.batch) \subseteq Range(feed.batch) \cup {published + 1}
        /\ (IsInjective(feed.batch) => IsInjective(feed'.batch))
    <2>1. published + 1 \in Nat /\ published + 1 \notin Range(feed.batch)
      BY <1>5
    <2>2. feed.batch \in Seq(Nat)
      OBVIOUS
    <2>a. Range(Append(feed.batch, published + 1)) = Range(feed.batch) \cup {published + 1}
      BY <2>1, <2>2, RangeMore, Zenon
    <2>b. IsInjective(feed.batch) => IsInjective(Append(feed.batch, published + 1))
      BY <2>1, <2>2, InjectiveAppend, Zenon
    <2>3. Range(Append(feed.batch, published + 1)) = Range(feed.batch) \cup {published + 1}
          /\ (IsInjective(feed.batch) => IsInjective(Append(feed.batch, published + 1)))
      BY <2>a, <2>b
    <2>4. QED BY <1>3, <2>3
  <1>7. FeedTyped'
    BY SMTT(40), <1>1, <1>2 DEF FeedTyped
  <1>8. BatchOK'
    <2>1. 1..published \subseteq 1..(published + 1) /\ published + 1 \in 1..(published + 1)
      BY SMTT(40)
    <2>2. Range(feed'.batch) \subseteq 1..(published + 1)
          /\ Range(entered) \subseteq 1..(published + 1)
      BY <1>5, <1>6, <2>1
    <2>3. kind \in Pollers => kind \notin Hooks
      BY DEF Pollers, Hooks
    <2>4. QED BY <1>1, <1>2, <1>4, <2>2, <2>3 DEF FeedInv, BatchOK
  <1>9. FreshOK'
    <2>1. published + 1 \notin Range(entered)
      BY <1>5
    <2>2. QED BY <1>1, <1>6, <2>1 DEF FeedInv, FreshOK
  <1>10. CursorOK'
    <2>1. CASE kind \in {"slack", "email"}
      <3>1. feed'.batch = feed.batch
        BY <1>4, <2>1 DEF Hooks
      <3>2. feed'.newest <= published => feed'.newest <= published'
        BY <1>1, <1>2
      <3>3. QED BY <1>1, <1>2, <2>1, <3>1, <3>2 DEF FeedInv, CursorOK
    <2>2. CASE kind \notin {"slack", "email"}
      BY <1>1, <1>2, <2>2 DEF FeedInv, CursorOK
    <2>3. QED BY <2>1, <2>2
  <1>11. GaplessOK'
    <2>1. Reached' = Reached /\ Begun' = Begun
      BY <1>1, <1>2 DEF Reached, Begun
    <2>2. kind \in {"telegram", "twitter"} => feed'.batch = feed.batch
      BY <1>4 DEF Hooks
    <2>3. QED BY <1>1, <1>2, <2>1, <2>2 DEF FeedInv, GaplessOK
  <1>12. QED BY <1>7, <1>8, <1>9, <1>10, <1>11 DEF FeedInv

LEMMA TakeItemKeeps ==
  ASSUME FeedInv, TakeItem
  PROVE  FeedInv'
PROOF
  <1> USE FeedFacts
  <1>1. queue # <<>> /\ queue' = Tail(queue) /\ taken' = Append(taken, Head(queue))
        /\ UNCHANGED <<kind, published, confirmed, feed, entered, lost, signal>>
    BY DEF TakeItem
  <1>2. queue' \in Seq(Nat) /\ Len(queue') <= QueueCap /\ Head(queue) \in Nat /\ taken' \in Seq(Nat)
    <2>1. queue \in Seq(Nat) /\ taken \in Seq(Nat) /\ Len(queue) <= QueueCap /\ QueueCap \in Nat
      BY FeedBounds
    <2>2. Head(queue) \in Nat /\ Tail(queue) \in Seq(Nat) /\ Len(Tail(queue)) = Len(queue) - 1
          /\ Len(queue) \in Nat
      BY SMTT(40), <1>1, <2>1
    <2>3. QED BY <1>1, <2>1, <2>2
  <1>3. Range(taken') = Range(taken) \cup {Head(queue)}
    BY SMTT(40), <1>1, <1>2, RangeAppend
  <1>4. Range(queue) = Range(queue') \cup {Head(queue)}
    BY <1>1, RangeTail
  <1>5. FeedTyped' /\ BatchOK' /\ FreshOK' /\ CursorOK'
    BY ZenonT(60), <1>1, <1>2 DEF FeedInv, FeedTyped, BatchOK, FreshOK, CursorOK
  <1>6. GaplessOK'
    <2>1. Reached' = Reached /\ Begun' = Begun
      BY <1>1 DEF Reached, Begun
    <2>2. Range(taken') \cup Range(queue') = Range(taken) \cup Range(queue)
      BY <1>3, <1>4
    <2>3. QED BY <1>1, <2>1, <2>2 DEF FeedInv, GaplessOK
  <1>7. QED BY <1>5, <1>6 DEF FeedInv

LEMMA RestartKeeps ==
  ASSUME FeedInv, Restart
  PROVE  FeedInv'
PROOF
  <1> USE FeedFacts
  <1>1. /\ queue' = <<>> /\ entered' = <<>> /\ lost' = lost \cup Range(queue)
        /\ feed' = [NewFeed EXCEPT !.start = confirmed + 1]
        /\ UNCHANGED <<kind, published, confirmed, taken, signal>>
    BY DEF Restart
  <1>2. feed' \in FeedRec /\ feed'.cursor = 0 /\ feed'.batch = <<>> /\ feed'.stage = "idle"
        /\ feed'.start = confirmed + 1 /\ feed'.start # 0
    <2>1. <<>> \in Seq(Nat) /\ confirmed + 1 \in Nat /\ confirmed + 1 # 0
      OBVIOUS
    <2>2. QED BY <1>1, <2>1 DEF NewFeed, FeedRec
  <1>3. Begun' = confirmed /\ (kind = "telegram" => Reached' = confirmed)
    BY <1>1, <1>2 DEF Begun, Reached
  <1>4. Range(<<>>) = {} /\ IsInjective(<<>>) /\ DOMAIN <<>> = {}
    BY DEF Range, IsInjective
  <1>5. FeedTyped'
    <2>1. Range(queue) \subseteq Nat
      <3>1. \A n \in DOMAIN queue : queue[n] \in Nat
        BY SMTT(40)
      <3>2. QED BY <3>1 DEF Range
    <2>2. Len(<<>>) <= QueueCap
      BY FeedBounds
    <2>3. QED BY <1>1, <1>2, <2>1, <2>2 DEF FeedTyped
  <1>6. BatchOK' /\ FreshOK'
    BY <1>1, <1>2, <1>4 DEF BatchOK, FreshOK
  <1>7. CursorOK'
    BY <1>1, <1>2, <1>4 DEF CursorOK, Rising
  <1>8. GaplessOK'
    <2>1. MessagesOf(kind, confirmed, confirmed) = <<>> /\ MessagesOf(kind, 0, 0) = <<>>
      <3>1. 0 \in Nat /\ confirmed \in Nat /\ 0 <= 0 /\ confirmed <= confirmed
        OBVIOUS
      <3>2. QED BY <3>1, MessagesNext, Zenon
    <2>2. CASE kind = "twitter"
      BY <1>1, <1>2, <1>4, <2>1, <2>2 DEF GaplessOK
    <2>3. CASE kind = "telegram"
      <3>1. \A i \in 1..confirmed : i \in MessageIds(kind) => i \in Range(taken) \cup lost'
        <4>1. \A i \in 1..confirmed : i \in 1..Reached
          BY <2>3 DEF FeedInv, GaplessOK
        <4>2. QED BY <1>1, <2>3, <4>1 DEF FeedInv, GaplessOK
      <3>2. QED BY <1>1, <1>2, <1>3, <1>4, <2>1, <2>3, <3>1 DEF GaplessOK
    <2>4. QED BY <1>1, <2>2, <2>3 DEF GaplessOK
  <1>9. QED BY <1>5, <1>6, <1>7, <1>8 DEF FeedInv

(* A signal, or a step about something else.                               *)
LEMMA SignalKeeps ==
  ASSUME FeedInv, UNCHANGED <<kind, published, confirmed, feed, queue, entered, taken, lost>>,
         signal' = signal \/ \E s \in {"cancelled", "stopped"} : Signal(s)
  PROVE  FeedInv'
PROOF
  <1>1. signal' \in {"none", "cancelled", "stopped"} /\ (signal = "cancelled" => signal' = "cancelled")
    BY FeedFacts DEF Signal
  <1>2. Reached' = Reached /\ Begun' = Begun
    BY DEF Reached, Begun
  <1>3. FeedTyped' /\ BatchOK' /\ FreshOK'
    BY <1>1 DEF FeedInv, FeedTyped, BatchOK, FreshOK
  <1>4. CursorOK'
    BY <1>1 DEF FeedInv, CursorOK
  <1>5. GaplessOK'
    BY <1>2 DEF FeedInv, GaplessOK
  <1>6. QED BY <1>3, <1>4, <1>5 DEF FeedInv

LEMMA InitFeed == Init => FeedInv
PROOF
  <1> SUFFICES ASSUME Init PROVE FeedInv
    OBVIOUS
  <1>1. /\ kind \in Pollers \cup Hooks
        /\ published = 0 /\ confirmed = 0 /\ feed = NewFeed /\ queue = <<>> /\ entered = <<>>
        /\ taken = <<>> /\ lost = {} /\ signal = "none"
    BY DEF Init, FeedInit, Pollers
  <1>2. feed \in FeedRec /\ feed.cursor = 0 /\ feed.batch = <<>> /\ feed.stage = "idle"
        /\ feed.start = 0
    BY <1>1 DEF NewFeed, FeedRec
  <1>3. Range(<<>>) = {} /\ IsInjective(<<>>) /\ DOMAIN <<>> = {}
    BY DEF Range, IsInjective
  <1>4. FeedTyped
    BY <1>1, <1>2, FeedBounds DEF FeedTyped
  <1>5. BatchOK /\ FreshOK
    BY <1>1, <1>2, <1>3 DEF BatchOK, FreshOK
  <1>6. CursorOK
    BY <1>1, <1>2, <1>3 DEF CursorOK, Rising
  <1>7. GaplessOK
    <2>1. MessagesOf(kind, 0, 0) = <<>>
      <3>1. 0 \in Nat /\ 0 <= 0
        OBVIOUS
      <3>2. QED BY <3>1, MessagesNext, Zenon
    <2>2. Begun = 0 /\ Reached = 0
      BY <1>2 DEF Begun, Reached
    <2>3. QED BY <1>1, <1>2, <1>3, <2>1, <2>2 DEF GaplessOK
  <1>8. QED BY <1>4, <1>5, <1>6, <1>7 DEF FeedInv

LEMMA NextFeed == FeedInv /\ [Next]_vars => FeedInv'
PROOF
  <1> SUFFICES ASSUME FeedInv, [Next]_vars PROVE FeedInv'
    OBVIOUS
  <1>1. CASE FeedNext
    <2>1. CASE FeedStep
      BY <2>1, PollKeeps, SendNextKeeps, SendPageKeeps, EndKeeps, HandleKeeps, TakeItemKeeps
         DEF FeedStep, Send
    <2>2. CASE Publish \/ PollFails \/ Restart
      BY <2>2, PublishKeeps, EndKeeps, RestartKeeps
    <2>3. CASE \E s \in {"cancelled", "stopped"} : Signal(s)
      BY <2>3, SignalKeeps DEF Signal
    <2>4. QED BY <1>1, <2>1, <2>2, <2>3 DEF FeedNext
  <1>2. CASE UNCHANGED feedVars
    BY <1>2, SignalKeeps DEF feedVars
  <1>3. QED BY <1>1, <1>2 DEF Next, vars, Client_, Stream_, Wire_, Remote_

(* The invariant says what the feeds promise.                              *)
LEMMA FeedInvFaithful == FeedInv => FeedFaithful
PROOF
  <1> SUFFICES ASSUME FeedInv PROVE FeedFaithful
    OBVIOUS
  <1> USE FeedFacts
  <1>1. kind # "twitterNewestFirst" => IsInjective(entered)
    BY DEF FeedInv, FreshOK
  <1>2. kind = "telegram" /\ feed.cursor > 0 => entered = Messages(Begun, feed.cursor)
    <2> SUFFICES ASSUME kind = "telegram", feed.cursor > 0 PROVE entered = Messages(Begun, feed.cursor)
      OBVIOUS
    <2>1. Reached = feed.cursor /\ Begun <= feed.cursor
          /\ entered = MessagesOf(kind, Begun, feed.cursor)
      BY DEF FeedInv, GaplessOK, Reached
    <2>2. QED BY <2>1, MessagesAre
  <1>3. kind = "twitter" => entered = Messages(0, feed.cursor)
    <2> SUFFICES ASSUME kind = "twitter" PROVE entered = Messages(0, feed.cursor)
      OBVIOUS
    <2>1. 0 \in Nat /\ 0 <= feed.cursor /\ entered = MessagesOf(kind, 0, feed.cursor)
      BY DEF FeedInv, GaplessOK
    <2>2. Messages(0, feed.cursor) = MessagesOf(kind, 0, feed.cursor)
      BY <2>1, MessagesAre, Zenon
    <2>3. QED BY <2>1, <2>2
  <1>4. kind = "telegram" =>
          \A i \in 1..confirmed : IsMessage(i) => i \in Range(taken) \cup Range(queue) \cup lost
    <2> SUFFICES ASSUME kind = "telegram", NEW i \in 1..confirmed, IsMessage(i)
                 PROVE  i \in Range(taken) \cup Range(queue) \cup lost
      OBVIOUS
    <2>1. confirmed <= Reached
      BY DEF FeedInv, GaplessOK
    <2>2. i \in 1..Reached
      BY <2>1
    <2>3. i \in MessageIds(kind)
      BY DEF IsMessage, MessageIds
    <2>4. QED BY <2>2, <2>3 DEF FeedInv, GaplessOK
  <1>5. QED BY <1>1, <1>2, <1>3, <1>4 DEF FeedFaithful

(* Whatever is published, polled, refused for lack of room, cancelled and  *)
(* restarted, a connector passes on no message twice, telegram and twitter *)
(* leave no gap, and telegram forgets only what was taken, is under way or *)
(* was lost with its process.                                              *)
THEOREM FeedsAreFaithful == Spec => []FeedFaithful
PROOF
  <1>1. Init => FeedInv
    BY InitFeed
  <1>2. FeedInv /\ [Next]_vars => FeedInv'
    BY NextFeed
  <1>3. FeedInv => FeedFaithful
    BY FeedInvFaithful
  <1>4. QED BY <1>1, <1>2, <1>3, PTL DEF Spec

(***************************************************************************)
(* Streams.  What was received, is in the channel or is about to be sent   *)
(* is compared with what the reader has seen of the stream.                *)
(***************************************************************************)
ChunkSet == {e \in StreamEvents : e.type \in {"text", "call", "error"}
                                  /\ (e.type # "text" => e.words = <<>>)}
CallSet == {e \in StreamEvents : e.type = "call" /\ e.words = <<>>}
ReaderRec == [stage : {"idle", "reading", "sending", "emitting", "failing", "closed"},
              at : Nat, texts : Seq(STRING), calls : Seq(StreamEvents), out : Seq(StreamEvents)]
GotRec == [texts : Seq(STRING), calls : Seq(StreamEvents), result : {"none", "ok", "error"}]

Events == script.events
Seen == SubSeq(script.events, 1, reader.at - 1)
InFlight == chunks \o reader.out
PassedTexts == got.texts \o TextsOf(InFlight)
PassedCalls == got.calls \o CallsOf(InFlight)

StreamTyped ==
  /\ script \in Scripts
  /\ reader \in ReaderRec /\ reader.at \in 1..(Len(Events) + 1)
  /\ Range(reader.calls) \subseteq CallSet /\ Range(reader.out) \subseteq ChunkSet
  /\ chunks \in Seq(StreamEvents) /\ Range(chunks) \subseteq ChunkSet
  /\ Len(chunks) <= script.capacity
  /\ got \in GotRec /\ cancelled \in BOOLEAN

NoError == \A c \in Range(InFlight) : c.type # "error"
FirstParts(events) ==
  {CallPart(e.index) : e \in {x \in Range(events) : x.type \in {"call", "delta"}}}

(* What the reader went on after.                                          *)
ReadOn(events) ==
  \A e \in Range(events) :
    /\ e.type # "refused"
    /\ e.type = "error" => script.service \in {"openai", "anthropic"}

CallsKept ==
  /\ script.service = "openai" =>
       IsInjective(reader.calls) /\ Range(reader.calls) = FirstParts(Seen)
  /\ script.service = "anthropic" =>
       IsInjective(reader.calls) /\ Range(reader.calls) = Range(CallsOf(Seen))
  /\ script.service \in {"google", "ollama"} => reader.calls = CallsOf(Seen)

(* Nothing is missing of what passed and of what is about to pass.         *)
Complete ==
  /\ ReadOn(Events)
  /\ IF TextIsCalls
     THEN PassedTexts = <<>> /\ PassedCalls = Extracted(TextsOf(Events))
     ELSE /\ PassedTexts = TextsOf(Events)
          /\ (script.service = "openai" => Contiguous) =>
               Range(PassedCalls) = Range(CallsOf(Events)) /\ IsInjective(PassedCalls)

(* While the reader reads, all text it has seen has passed, or is held     *)
(* back, and all calls are held back.                                      *)
ReadingOK ==
  reader.stage \in {"idle", "reading", "sending"} =>
    /\ got.result = "none" /\ NoError /\ ReadOn(Seen)
    /\ PassedCalls = <<>> /\ CallsKept
    /\ script.service = "ollama" => PassedTexts = <<>> /\ reader.texts = TextsOf(Seen)
    /\ script.service # "ollama" => PassedTexts = TextsOf(Seen)
    /\ IF reader.stage = "sending" THEN Len(reader.out) = 1 ELSE reader.out = <<>>

(* When it has read the end nothing is missing; when it failed that is on  *)
(* its way to the consumer, unless the context is done.                    *)
EndOK ==
  /\ reader.stage = "emitting" => got.result = "none" /\ NoError /\ Complete
  /\ reader.stage = "failing" => got.result = "none" /\ NoError /\ reader.out = <<>>
  /\ reader.stage = "closed" =>
       reader.out = <<>> /\ (cancelled \/ got.result = "error" \/ ~NoError \/ Complete)
  /\ got.result = "ok" => reader.stage = "closed" /\ chunks = <<>>

Begins(s, t) == \E rest \in Seq(STRING) : t = s \o rest
PrefixOK == Begins(PassedTexts, TextsOf(Events))

StreamInv == StreamTyped /\ ReadingOK /\ EndOK /\ PrefixOK

(***************************************************************************)
(* The words and the calls of events.                                      *)
(***************************************************************************)
LEMMA Concats ==
  ASSUME NEW S, NEW a \in Seq(S), NEW b \in Seq(S), NEW c \in Seq(S)
  PROVE  /\ (a \o b) \o c = a \o (b \o c) /\ a \o <<>> = a /\ <<>> \o a = a
         /\ a \o b \in Seq(S) /\ <<>> \in Seq(S)
PROOF OBVIOUS

LEMMA ConcatPlaces ==
  ASSUME NEW S, NEW a \in Seq(S), NEW b \in Seq(S)
  PROVE  /\ a \o b \in Seq(S) /\ Len(a \o b) = Len(a) + Len(b)
         /\ \A i \in 1..Len(a) : (a \o b)[i] = a[i]
         /\ \A i \in 1..Len(b) : (a \o b)[Len(a) + i] = b[i]
PROOF OBVIOUS

LEMMA SeqOfMore ==
  ASSUME NEW S, NEW T, S \subseteq T, NEW s \in Seq(S)
  PROVE  s \in Seq(T)
PROOF OBVIOUS

LEMMA HeadTail ==
  ASSUME NEW S, NEW s \in Seq(S), s # <<>>
  PROVE  /\ Head(s) \in S /\ Tail(s) \in Seq(S) /\ s = <<Head(s)>> \o Tail(s)
         /\ Len(Tail(s)) = Len(s) - 1 /\ Len(s) \in Nat \ {0}
         /\ Range(s) = {Head(s)} \cup Range(Tail(s))
PROOF
  <1>1. /\ Len(s) \in Nat \ {0} /\ DOMAIN s = 1..Len(s) /\ DOMAIN Tail(s) = 1..(Len(s) - 1)
        /\ \A i \in 1..(Len(s) - 1) : Tail(s)[i] = s[i + 1]
        /\ Head(s) = s[1]
    OBVIOUS
  <1>2. Range(s) \subseteq Range(Tail(s)) \cup {Head(s)}
    <2>1. SUFFICES ASSUME NEW i \in 1..Len(s) PROVE s[i] \in Range(Tail(s)) \cup {Head(s)}
      BY <1>1 DEF Range
    <2>2. CASE i = 1
      BY <1>1, <2>2
    <2>3. CASE i # 1
      <3>1. i - 1 \in DOMAIN Tail(s) /\ Tail(s)[i - 1] = s[i]
        BY <1>1, <2>3
      <3>2. QED BY <3>1 DEF Range
    <2>4. QED BY <2>2, <2>3
  <1>3. \A i \in DOMAIN Tail(s) : i + 1 \in DOMAIN s /\ Tail(s)[i] = s[i + 1]
    BY <1>1
  <1>4. Head(s) \in Range(s)
    <2>1. 1 \in DOMAIN s /\ Head(s) = s[1]
      BY <1>1
    <2>2. QED BY <2>1 DEF Range
  <1>5. Range(Tail(s)) \subseteq Range(s)
    BY <1>3 DEF Range
  <1>6. Head(s) \in S /\ Tail(s) \in Seq(S) /\ s = <<Head(s)>> \o Tail(s)
        /\ Len(Tail(s)) = Len(s) - 1
    OBVIOUS
  <1>7. QED BY <1>1, <1>2, <1>4, <1>5, <1>6

LEMMA TextsAppend ==
  ASSUME NEW s \in Seq(StreamEvents), NEW e \in StreamEvents
  PROVE  /\ TextsOf(s) \in Seq(STRING)
         /\ TextsOf(Append(s, e)) = TextsOf(s) \o e.words
PROOF
  <1> DEFINE V == Seq(STRING)
             words == [i \in DOMAIN s |-> s[i].words]
             a == Append(s, e)
             more == [i \in DOMAIN a |-> a[i].words]
  <1>1. TextsOf(s) = FlattenSeq(words) /\ TextsOf(a) = FlattenSeq(more)
    BY DEF TextsOf
  <1>2. \A x \in StreamEvents : x.words \in V
    BY DEF StreamEvents
  <1>3. /\ Len(s) \in Nat /\ DOMAIN s = 1..Len(s) /\ DOMAIN a = 1..(Len(s) + 1)
        /\ \A i \in 1..Len(s) : s[i] \in StreamEvents /\ a[i] = s[i]
        /\ a[Len(s) + 1] = e
    OBVIOUS
  <1>4. words \in Seq(Seq(STRING)) /\ more = Append(words, e.words) /\ e.words \in Seq(STRING)
    <2> HIDE DEF V, a
    <2>1. words \in Seq(V) /\ Len(words) = Len(s) /\ \A i \in 1..Len(s) : words[i] = s[i].words
      BY <1>2, <1>3
    <2>2. \A i \in DOMAIN a : a[i] \in StreamEvents
      BY <1>3
    <2>3. more \in Seq(V) /\ Len(more) = Len(s) + 1
          /\ \A i \in 1..(Len(s) + 1) : more[i] = a[i].words
      BY <1>2, <1>3, <2>2
    <2> HIDE DEF words, more
    <2>4. e.words \in V
      BY <1>2
    <2>5. Append(words, e.words) \in Seq(V) /\ Len(Append(words, e.words)) = Len(s) + 1
          /\ (\A i \in 1..Len(s) : Append(words, e.words)[i] = words[i])
          /\ Append(words, e.words)[Len(s) + 1] = e.words
      BY <2>1, <2>4
    <2>6. \A i \in 1..Len(more) : more[i] = Append(words, e.words)[i]
      BY <1>3, <2>1, <2>3, <2>5
    <2>7. more = Append(words, e.words)
      BY <2>3, <2>5, <2>6, SeqEqual
    <2>8. QED BY <2>1, <2>4, <2>7 DEF V
  <1> HIDE DEF words, more, a
  <1>5. FlattenSeq(words) \in Seq(STRING) /\ FlattenSeq(more) = FlattenSeq(words) \o e.words
    BY <1>4, FlattenAppend
  <1>6. QED BY <1>1, <1>5 DEF a

LEMMA TextsEmpty == TextsOf(<<>>) = <<>>
PROOF
  <1>1. [i \in DOMAIN <<>> |-> <<>>[i].words] = <<>>
    OBVIOUS
  <1>2. QED BY <1>1, FlattenEmpty DEF TextsOf

LEMMA TextsTyped ==
  ASSUME NEW s \in Seq(StreamEvents)
  PROVE  TextsOf(s) \in Seq(STRING)
PROOF
  <1>1. CallPart(0) \in StreamEvents
    BY DEF CallPart, Chunk, StreamEvents
  <1>2. QED BY <1>1, TextsAppend

LEMMA TextsConcat ==
  ASSUME NEW s \in Seq(StreamEvents), NEW t \in Seq(StreamEvents)
  PROVE  TextsOf(s \o t) = TextsOf(s) \o TextsOf(t)
PROOF
  <1> DEFINE Joins(u) == TextsOf(s \o u) = TextsOf(s) \o TextsOf(u)
             U == {u \in Seq(StreamEvents) : Joins(u)}
  <1>0. \A u \in Seq(StreamEvents) : TextsOf(u) \in Seq(STRING)
    BY TextsTyped
  <1>1. Joins(<<>>)
    <2>1. s \o <<>> = s
      OBVIOUS
    <2>2. TextsOf(s) \o <<>> = TextsOf(s)
      BY <1>0
    <2>3. QED BY <2>1, <2>2, TextsEmpty
  <1>2. ASSUME NEW u \in Seq(StreamEvents), NEW e \in StreamEvents, Joins(u)
        PROVE  Joins(Append(u, e))
    <2> DEFINE w == s \o u
    <2>1. s \o Append(u, e) = Append(w, e) /\ w \in Seq(StreamEvents)
      OBVIOUS
    <2> HIDE DEF w
    <2>2. TextsOf(Append(w, e)) = TextsOf(w) \o e.words /\ TextsOf(Append(u, e)) = TextsOf(u) \o e.words
      BY <2>1, TextsAppend
    <2>3. TextsOf(s) \in Seq(STRING) /\ TextsOf(u) \in Seq(STRING) /\ e.words \in Seq(STRING)
      BY <1>0 DEF StreamEvents
    <2>4. (TextsOf(s) \o TextsOf(u)) \o e.words = TextsOf(s) \o (TextsOf(u) \o e.words)
      <3> DEFINE a == TextsOf(s)
                 b == TextsOf(u)
                 c == e.words
      <3>1. a \in Seq(STRING) /\ b \in Seq(STRING) /\ c \in Seq(STRING)
        BY <2>3
      <3> HIDE DEF a, b, c
      <3>2. (a \o b) \o c = a \o (b \o c)
        BY SMTT(40), <3>1, Concats
      <3>3. QED BY <3>2 DEF a, b, c
    <2>5. TextsOf(w) = TextsOf(s) \o TextsOf(u)
      BY <1>2 DEF w
    <2>6. QED BY <2>1, <2>2, <2>4, <2>5
  <1> HIDE DEF Joins
  <1>3. <<>> \in U /\ \A u \in Seq(StreamEvents), e \in StreamEvents : u \in U => Append(u, e) \in U
    <2>1. \A u \in Seq(StreamEvents), e \in StreamEvents : Append(u, e) \in Seq(StreamEvents)
      OBVIOUS
    <2>2. QED BY <1>1, <1>2, <2>1
  <1>4. \A u \in Seq(StreamEvents) : u \in U
    <2> HIDE DEF U
    <2>1. QED BY <1>3, SeqInduction
  <1>5. QED BY <1>4 DEF Joins

(* Only text has words.                                                    *)
LEMMA WordlessText ==
  ASSUME NEW s \in Seq(CallSet)
  PROVE  TextsOf(s) = <<>>
PROOF
  <1> DEFINE U == {u \in Seq(CallSet) : TextsOf(u) = <<>>}
  <1>1. <<>> \in U
    BY TextsEmpty
  <1>2. ASSUME NEW u \in Seq(CallSet), NEW e \in CallSet, u \in U PROVE Append(u, e) \in U
    <2>1. u \in Seq(StreamEvents) /\ e \in StreamEvents /\ e.words = <<>>
      <3>1. CallSet \subseteq StreamEvents /\ e.words = <<>>
        BY DEF CallSet
      <3>2. QED BY <3>1, SeqOfMore
    <2>2. TextsOf(Append(u, e)) = TextsOf(u) \o e.words
      BY <2>1, TextsAppend
    <2>3. Append(u, e) \in Seq(CallSet)
      OBVIOUS
    <2>4. QED BY <1>2, <2>1, <2>2, <2>3
  <1>3. \A u \in Seq(CallSet) : u \in U
    <2> HIDE DEF U
    <2>1. QED BY <1>1, <1>2, SeqInduction
  <1>4. QED BY <1>3

Calls == {e \in StreamEvents : e.type = "call"}

LEMMA CallsAre ==
  ASSUME NEW s \in Seq(StreamEvents)
  PROVE  CallsOf(s) = Among(s, Calls)
PROOF
  <1>1. \A i \in DOMAIN s : s[i] \in StreamEvents
    OBVIOUS
  <1>2. \A i \in DOMAIN s : IsCall(s[i]) <=> s[i] \in Calls
    BY <1>1 DEF IsCall, Calls
  <1>3. [i \in DOMAIN s |-> IF IsCall(s[i]) THEN <<s[i]>> ELSE <<>>]
          = [i \in DOMAIN s |-> IF s[i] \in Calls THEN <<s[i]>> ELSE <<>>]
    BY <1>2
  <1>4. QED BY <1>3 DEF CallsOf, Selected, Among

LEMMA CallsFacts ==
  ASSUME NEW s \in Seq(StreamEvents), NEW t \in Seq(StreamEvents), NEW e \in StreamEvents
  PROVE  /\ CallsOf(s) \in Seq(StreamEvents)
         /\ CallsOf(Append(s, e)) = IF e.type = "call" THEN Append(CallsOf(s), e) ELSE CallsOf(s)
         /\ CallsOf(s \o t) = CallsOf(s) \o CallsOf(t)
         /\ Range(CallsOf(s)) = {x \in Range(s) : x.type = "call"}
         /\ CallsOf(<<>>) = <<>>
PROOF
  <1>1. Append(s, e) \in Seq(StreamEvents) /\ s \o t \in Seq(StreamEvents) /\ <<>> \in Seq(StreamEvents)
    OBVIOUS
  <1>2. CallsOf(Append(s, e)) = Among(Append(s, e), Calls) /\ CallsOf(s \o t) = Among(s \o t, Calls)
        /\ CallsOf(<<>>) = Among(<<>>, Calls)
        /\ CallsOf(s) = Among(s, Calls) /\ CallsOf(t) = Among(t, Calls)
    BY <1>1, CallsAre
  <1>3. e \in Calls <=> e.type = "call"
    BY DEF Calls
  <1>4. Range(s) \subseteq StreamEvents
    BY RangeAppend
  <1>5. Range(Among(s, Calls)) = {x \in Range(s) : x.type = "call"}
    BY <1>4, AmongRange DEF Calls
  <1>6. Among(s, Calls) \in Seq(StreamEvents) /\ Among(<<>>, Calls) = <<>>
    BY AmongTyped, AmongEmpty
  <1>7. Among(s \o t, Calls) = Among(s, Calls) \o Among(t, Calls)
    BY AmongConcat
  <1>8. /\ e \in Calls => Among(Append(s, e), Calls) = Append(Among(s, Calls), e)
        /\ e \notin Calls => Among(Append(s, e), Calls) = Among(s, Calls)
    BY AmongAppend
  <1>9. QED BY <1>2, <1>3, <1>5, <1>6, <1>7, <1>8

LEMMA CallsConcat ==
  ASSUME NEW s \in Seq(StreamEvents), NEW t \in Seq(StreamEvents)
  PROVE  /\ CallsOf(s \o t) = CallsOf(s) \o CallsOf(t)
         /\ CallsOf(s) \in Seq(StreamEvents) /\ CallsOf(<<>>) = <<>>
PROOF
  <1>1. CallPart(0) \in StreamEvents
    BY DEF CallPart, Chunk, StreamEvents
  <1>2. QED BY <1>1, CallsFacts

LEMMA OnlyCalls ==
  ASSUME NEW s \in Seq(StreamEvents), Range(s) \subseteq CallSet
  PROVE  CallsOf(s) = s /\ TextsOf(s) = <<>>
PROOF
  <1>1. Range(s) \subseteq Calls
    BY DEF Calls, CallSet
  <1>2. CallsOf(s) = s
    BY <1>1, CallsAre, AmongAll
  <1>3. s \in Seq(CallSet)
    <2>1. \A i \in DOMAIN s : s[i] \in CallSet
      BY DEF Range
    <2>2. Len(s) \in Nat /\ DOMAIN s = 1..Len(s) /\ s = [i \in 1..Len(s) |-> s[i]]
      OBVIOUS
    <2>3. QED BY <2>1, <2>2
  <1>4. QED BY <1>2, <1>3, WordlessText

(***************************************************************************)
(* What a reader has seen.                                                 *)
(***************************************************************************)
LEMMA ScriptFacts ==
  ASSUME StreamTyped
  PROVE  /\ script \in Scripts
         /\ script.service \in {"openai", "anthropic", "google", "ollama"}
         /\ Events \in Seq(StreamEvents) /\ Len(Events) \in Nat
         /\ script.capacity \in Nat \ {0}
         /\ \A e \in Range(Events) : e \in StreamEvents /\ (e.type # "text" => e.words = <<>>)
         /\ script.service = "openai" =>
              \A e \in Range(Events) : e.type = "delta" => CallPart(e.index) \in Range(Events)
         /\ script.service \in {"google", "ollama"} =>
              IsInjective(CallsOf(Events)) /\ \A e \in Range(Events) : e.type # "delta"
         /\ reader \in ReaderRec /\ reader.at \in 1..(Len(Events) + 1)
         /\ reader.calls \in Seq(StreamEvents) /\ reader.out \in Seq(StreamEvents)
         /\ reader.texts \in Seq(STRING)
         /\ chunks \in Seq(StreamEvents) /\ InFlight \in Seq(StreamEvents)
         /\ Range(InFlight) \subseteq ChunkSet
         /\ got \in GotRec /\ got.texts \in Seq(STRING) /\ got.calls \in Seq(StreamEvents)
PROOF
  <1>1. script \in Scripts
    BY DEF StreamTyped
  <1>2. /\ script.service \in {"openai", "anthropic", "google", "ollama"}
        /\ Events \in Seq(StreamEvents)
        /\ script.capacity \in Nat \ {0}
        /\ (\A e \in Range(Events) : e.type # "text" => e.words = <<>>)
        /\ (script.service = "openai" =>
              \A e \in Range(Events) : e.type = "delta" => CallPart(e.index) \in Range(Events))
        /\ (script.service \in {"google", "ollama"} =>
              IsInjective(CallsOf(Events)) /\ \A e \in Range(Events) : e.type # "delta")
    BY <1>1, ScriptsAssumption DEF Events
  <1>3. Range(Events) \subseteq StreamEvents
    <2>1. \A i \in DOMAIN Events : Events[i] \in StreamEvents
      BY <1>2
    <2>2. QED BY <2>1 DEF Range
  <1>4. /\ reader \in ReaderRec /\ reader.at \in 1..(Len(Events) + 1)
        /\ reader.calls \in Seq(StreamEvents) /\ reader.out \in Seq(StreamEvents)
        /\ reader.texts \in Seq(STRING)
        /\ chunks \in Seq(StreamEvents)
        /\ got \in GotRec /\ got.texts \in Seq(STRING) /\ got.calls \in Seq(StreamEvents)
    BY DEF StreamTyped, ReaderRec, GotRec
  <1>5. InFlight \in Seq(StreamEvents) /\ Range(InFlight) = Range(chunks) \cup Range(reader.out)
    BY <1>4, RangeConcat DEF InFlight
  <1>6. Range(InFlight) \subseteq ChunkSet
    BY SMTT(40), <1>5 DEF StreamTyped
  <1>7. QED BY <1>1, <1>2, <1>3, <1>4, <1>5, <1>6

(* The beginnings of a sequence.                                           *)
Opens(S, u, s) == \E rest \in Seq(S) : s = u \o rest

LEMMA Beginnings ==
  ASSUME NEW S, NEW s \in Seq(S), NEW k \in 0..Len(s)
  PROVE  /\ SubSeq(s, 1, k) \in Seq(S) /\ Len(SubSeq(s, 1, k)) = k
         /\ Range(SubSeq(s, 1, k)) \subseteq Range(s)
         /\ SubSeq(s, 1, Len(s)) = s /\ SubSeq(s, 1, 0) = <<>>
         /\ Opens(S, SubSeq(s, 1, k), s)
PROOF
  <1> DEFINE a == SubSeq(s, 1, k)
             b == SubSeq(s, k + 1, Len(s))
  <1>1. /\ a \in Seq(S) /\ Len(a) = k /\ DOMAIN a = 1..k /\ (\A i \in 1..k : a[i] = s[i])
        /\ DOMAIN s = 1..Len(s) /\ Len(s) \in Nat
    OBVIOUS
  <1>2. b \in Seq(S) /\ Len(b) = Len(s) - k /\ \A i \in 1..(Len(s) - k) : b[i] = s[k + i]
    OBVIOUS
  <1>3. SubSeq(s, 1, Len(s)) = s /\ SubSeq(s, 1, 0) = <<>>
    OBVIOUS
  <1> HIDE DEF a, b
  <1>4. Range(a) \subseteq Range(s)
    <2>1. \A i \in 1..k : i \in 1..Len(s)
      OBVIOUS
    <2>2. QED BY <1>1, <2>1 DEF Range
  <1>5. s = a \o b
    <2> DEFINE c == a \o b
    <2>a. c \in Seq(S) /\ Len(c) = Len(a) + Len(b) /\ (\A i \in 1..Len(a) : c[i] = a[i])
          /\ \A i \in 1..Len(b) : c[Len(a) + i] = b[i]
      <3>1. a \in Seq(S) /\ b \in Seq(S)
        BY <1>1, <1>2
      <3>2. QED BY <3>1, ConcatPlaces
    <2> HIDE DEF c
    <2>1. c \in Seq(S) /\ Len(c) = Len(s) /\ (\A i \in 1..k : c[i] = a[i])
          /\ \A i \in 1..(Len(s) - k) : c[k + i] = b[i]
      BY <1>1, <1>2, <2>a
    <2>2. \A i \in 1..Len(s) : c[i] = s[i]
      <3>1. SUFFICES ASSUME NEW i \in 1..Len(s) PROVE c[i] = s[i]
        OBVIOUS
      <3>2. CASE i <= k
        BY <1>1, <2>1, <3>2
      <3>3. CASE k < i
        <4>1. i - k \in 1..(Len(s) - k) /\ k + (i - k) = i
          BY <1>1, <3>3
        <4>2. QED BY <1>2, <2>1, <4>1
      <3>4. QED BY <3>2, <3>3
    <2>3. c = s
      BY SMTT(40), <2>1, <2>2, SeqEqual
    <2>4. QED BY <2>3 DEF c
  <1>6. QED BY <1>1, <1>2, <1>3, <1>4, <1>5 DEF a, Opens

LEMMA SeenFacts ==
  ASSUME StreamTyped
  PROVE  /\ Seen \in Seq(StreamEvents) /\ Range(Seen) \subseteq Range(Events)
         /\ Begins(TextsOf(Seen), TextsOf(Events))
         /\ reader.at = Len(Events) + 1 => Seen = Events
PROOF
  <1> DEFINE k == reader.at - 1
  <1>1. k \in 0..Len(Events) /\ Events \in Seq(StreamEvents)
        /\ (reader.at = Len(Events) + 1 => k = Len(Events))
    BY SMTT(40), ScriptFacts
  <1>2. Seen = SubSeq(Events, 1, k)
    BY DEF Seen, Events
  <1> HIDE DEF k
  <1>3. /\ SubSeq(Events, 1, k) \in Seq(StreamEvents)
        /\ Range(SubSeq(Events, 1, k)) \subseteq Range(Events)
        /\ SubSeq(Events, 1, Len(Events)) = Events
    BY <1>1, Beginnings
  <1>4. PICK rest \in Seq(StreamEvents) : Events = Seen \o rest
    <2>1. Opens(StreamEvents, SubSeq(Events, 1, k), Events)
      BY <1>1, Beginnings
    <2>2. QED BY <1>2, <2>1 DEF Opens
  <1>5. TextsOf(Events) = TextsOf(Seen) \o TextsOf(rest) /\ TextsOf(rest) \in Seq(STRING)
    <2>1. Seen \in Seq(StreamEvents)
      BY <1>2, <1>3
    <2>2. TextsOf(Seen \o rest) = TextsOf(Seen) \o TextsOf(rest)
      BY <2>1, TextsConcat
    <2>3. QED BY <1>4, <2>2, TextsTyped
  <1>6. QED BY <1>1, <1>2, <1>3, <1>5 DEF Begins

(* One more event is seen.                                                 *)
LEMMA SeenNext ==
  ASSUME StreamTyped, reader.at <= Len(Events), NEW seen, seen = SubSeq(Events, 1, reader.at)
  PROVE  /\ Event \in StreamEvents /\ Event \in Range(Events)
         /\ seen \in Seq(StreamEvents) /\ seen = Append(Seen, Event)
         /\ Range(seen) = Range(Seen) \cup {Event}
         /\ TextsOf(seen) = TextsOf(Seen) \o Event.words
         /\ CallsOf(seen) = IF Event.type = "call" THEN Append(CallsOf(Seen), Event) ELSE CallsOf(Seen)
PROOF
  <1> DEFINE k == reader.at - 1
             e == Event
  <1>1. k \in Nat /\ k + 1 = reader.at /\ k + 1 \in 1..Len(Events) /\ Events \in Seq(StreamEvents)
    BY SMTT(40), ScriptFacts
  <1>2. Seen = SubSeq(Events, 1, k) /\ e = Events[k + 1] /\ seen = SubSeq(Events, 1, k + 1)
    BY <1>1 DEF Seen, Events, Event
  <1> HIDE DEF k, e
  <1>3. e \in StreamEvents
    BY <1>1, <1>2
  <1>4. e \in Range(Events)
    <2>1. k + 1 \in DOMAIN Events
      BY <1>1
    <2>2. QED BY <1>2, <2>1 DEF Range
  <1>5. Seen \in Seq(StreamEvents) /\ seen \in Seq(StreamEvents) /\ seen = Append(Seen, e)
    <2>1. Seen \in Seq(StreamEvents) /\ Len(Seen) = k /\ (\A i \in 1..k : Seen[i] = Events[i])
      BY <1>1, <1>2
    <2>2. seen \in Seq(StreamEvents) /\ Len(seen) = k + 1
          /\ (\A i \in 1..(k + 1) : seen[i] = Events[i])
      BY <1>1, <1>2
    <2>3. Append(Seen, e) \in Seq(StreamEvents) /\ Len(Append(Seen, e)) = k + 1
          /\ (\A i \in 1..k : Append(Seen, e)[i] = Seen[i]) /\ Append(Seen, e)[k + 1] = e
      BY <1>1, <1>3, <2>1
    <2>4. \A i \in 1..(k + 1) : seen[i] = Append(Seen, e)[i]
      <3>1. \A i \in 1..(k + 1) : i \in 1..k \/ i = k + 1
        BY <1>1
      <3>2. \A i \in 1..k : seen[i] = Append(Seen, e)[i]
        <4>1. \A i \in 1..k : i \in 1..(k + 1)
          BY <1>1
        <4>2. QED BY <2>1, <2>2, <2>3, <4>1
      <3>3. seen[k + 1] = e
        <4>1. k + 1 \in 1..(k + 1)
          BY <1>1
        <4>2. QED BY <1>2, <2>2, <4>1
      <3>4. QED BY <2>3, <3>1, <3>2, <3>3
    <2>5. QED BY <2>1, <2>2, <2>3, <2>4, SeqEqual
  <1>6. Range(Append(Seen, e)) = Range(Seen) \cup {e}
    BY <1>3, <1>5, RangeAppend
  <1>7. TextsOf(Append(Seen, e)) = TextsOf(Seen) \o e.words
    BY <1>3, <1>5, TextsAppend
  <1>8. CallsOf(Append(Seen, e)) = IF e.type = "call" THEN Append(CallsOf(Seen), e) ELSE CallsOf(Seen)
    BY <1>3, <1>5, CallsFacts
  <1>9. QED BY <1>3, <1>4, <1>5, <1>6, <1>7, <1>8 DEF e

(***************************************************************************)
(* What is sent at the end.                                                *)
(***************************************************************************)
LEMMA InjectiveCard ==
  ASSUME NEW S, NEW s \in Seq(S), IsInjective(s)
  PROVE  IsFiniteSet(Range(s)) /\ Cardinality(Range(s)) = Len(s)
PROOF
  <1>1. DOMAIN s = 1..Len(s) /\ Len(s) \in Nat
    OBVIOUS
  <1>2. IsFiniteSet(1..Len(s)) /\ Cardinality(1..Len(s)) = Len(s)
    BY SMTT(40), <1>1, FS_Interval
  <1>3. s \in [1..Len(s) -> Range(s)]
    BY <1>1 DEF Range
  <1>4. s \in Surjection(1..Len(s), Range(s)) /\ s \in Injection(1..Len(s), Range(s))
    BY <1>1, <1>3 DEF Surjection, Injection, Range
  <1>5. QED BY <1>2, <1>4, FS_Surjection

LEMMA CallParts ==
  /\ \A n \in Nat : CallPart(n) \in CallSet /\ CallPart(n).index = n
  /\ \A c \in CallSet : c.index \in Nat /\ CallPart(c.index) = c
  /\ CallSet \subseteq ChunkSet /\ CallSet \subseteq StreamEvents
  /\ \A c \in CallSet : c.type = "call"
PROOF BY DEF CallPart, Chunk, CallSet, ChunkSet, StreamEvents

LEMMA ExtractedFacts ==
  ASSUME NEW words \in Seq(STRING)
  PROVE  /\ Extracted(words) \in Seq(StreamEvents) /\ Range(Extracted(words)) \subseteq CallSet
PROOF
  <1> DEFINE Leading == {k \in DOMAIN words : \A i \in 1..k : words[i] \in {"call", "object"}}
             n == Cardinality(Leading)
             all == [k \in 1..n |-> CallPart(k - 1)]
  <1>1. DOMAIN words = 1..Len(words) /\ Len(words) \in Nat
    OBVIOUS
  <1>2. n \in Nat
    <2>1. IsFiniteSet(1..Len(words)) /\ Leading \subseteq 1..Len(words)
      BY <1>1, FS_Interval
    <2>2. IsFiniteSet(Leading)
      BY <2>1, FS_Subset
    <2>3. QED BY <2>2, FS_CardinalityType
  <1>3. \A k \in 1..n : k - 1 \in Nat
    OBVIOUS
  <1>4. \A k \in 1..n : CallPart(k - 1) \in CallSet /\ CallPart(k - 1) \in StreamEvents
    BY <1>3, CallParts
  <1>5. Extracted(words) \in {all, <<>>}
    BY DEF Extracted
  <1> HIDE DEF n
  <1>6. all \in Seq(StreamEvents) /\ Range(all) \subseteq CallSet
    <2> DEFINE EventAt(k) == CallPart(k - 1)
    <2>1. \A k \in 1..n : EventAt(k) \in CallSet /\ EventAt(k) \in StreamEvents
      BY <1>4
    <2>2. all = [k \in 1..n |-> EventAt(k)]
      OBVIOUS
    <2> HIDE DEF EventAt, all
    <2>3. all \in Seq(StreamEvents)
      BY <1>2, <2>1, <2>2
    <2>4. QED BY <2>1, <2>2, <2>3 DEF Range
  <1>7. Range(<<>>) = {} /\ <<>> \in Seq(StreamEvents)
    BY DEF Range
  <1> HIDE DEF all
  <1>8. QED BY <1>5, <1>6, <1>7

(* The fragments of a call are put together under its first.               *)
LEMMA FirstPartsAre ==
  ASSUME StreamTyped, script.service = "openai"
  PROVE  FirstParts(Events) = Range(CallsOf(Events)) /\ Range(CallsOf(Events)) \subseteq CallSet
PROOF
  <1>1. Range(CallsOf(Events)) = {x \in Range(Events) : x.type = "call"}
    BY ScriptFacts, CallsFacts, CallParts
  <1>2. \A e \in Range(Events) : e.type = "call" => e \in CallSet /\ CallPart(e.index) = e
    <2>1. \A e \in Range(Events) : e.type = "call" => e \in CallSet
      BY ScriptFacts DEF CallSet
    <2>2. QED BY <2>1, CallParts
  <1>3. \A e \in Range(Events) :
          e.type = "delta" => CallPart(e.index) \in Range(Events) /\ CallPart(e.index).type = "call"
    BY ScriptFacts DEF CallPart, Chunk
  <1>4. QED BY <1>1, <1>2, <1>3 DEF FirstParts

LEMMA OpenAIEmission ==
  ASSUME StreamTyped, CallsKept, Seen = Events, script.service = "openai",
         NEW out \in OpenAIEmits(reader)
  PROVE  /\ out \in Seq(StreamEvents) /\ Range(out) \subseteq CallSet
         /\ Contiguous => Range(out) = Range(CallsOf(Events)) /\ IsInjective(out)
PROOF
  <1> DEFINE R == Range(reader.calls)
             n == Len(reader.calls)
             all == [i \in 1..n |-> CallPart(i - 1)]
  <1>1. /\ reader.calls \in Seq(StreamEvents) /\ n \in Nat
        /\ IsInjective(reader.calls) /\ R = Range(CallsOf(Events)) /\ R \subseteq CallSet
    BY ScriptFacts, FirstPartsAre DEF CallsKept
  <1>2. Cardinality(R) = n
    BY <1>1, InjectiveCard
  <1>3. out = Selected(all, LAMBDA c : c \in R)
    BY DEF OpenAIEmits
  <1>4. out = Among(all, R)
    <2> HIDE DEF all, R
    <2>1. QED BY <1>3 DEF Selected, Among
  <1> HIDE DEF R, n
  <1>5. all \in Seq(StreamEvents) /\ DOMAIN all = 1..n /\ \A i \in 1..n : all[i] = CallPart(i - 1)
    <2> DEFINE EventAt(i) == CallPart(i - 1)
    <2>1. \A i \in 1..n : i - 1 \in Nat
      BY <1>1
    <2>2. \A i \in 1..n : EventAt(i) \in StreamEvents
      BY <2>1, CallParts
    <2>3. all = [i \in 1..n |-> EventAt(i)]
      OBVIOUS
    <2> HIDE DEF EventAt, all
    <2>4. all \in Seq(StreamEvents) /\ DOMAIN all = 1..n /\ \A i \in 1..n : all[i] = EventAt(i)
      BY <1>1, <2>2, <2>3
    <2>5. QED BY <2>4 DEF EventAt
  <1> HIDE DEF all
  <1>6. out \in Seq(StreamEvents) /\ Range(out) = Range(all) \cap R
    BY <1>4, <1>5, AmongTyped, AmongRange
  <1>7. IsInjective(all)
    <2>1. \A i \in 1..n : i - 1 \in Nat /\ CallPart(i - 1).index = i - 1
      BY <1>1, CallParts
    <2>2. \A i, j \in 1..n : i - 1 = j - 1 => i = j
      BY <1>1
    <2>3. \A i, j \in 1..n : all[i] = all[j] => i = j
      BY <1>5, <2>1, <2>2
    <2>4. QED BY <1>5, <2>3 DEF IsInjective
  <1>8. IsInjective(out)
    BY <1>4, <1>5, <1>7, AmongInjective
  <1>9. Contiguous => R \subseteq Range(all)
    <2> SUFFICES ASSUME Contiguous, NEW c \in R PROVE c \in Range(all)
      OBVIOUS
    <2>1. c.index \in 0..(n - 1)
      <3>1. {x.index : x \in Range(CallsOf(Events))} = 0..(Cardinality(Range(CallsOf(Events))) - 1)
        BY DEF Contiguous, Events
      <3>2. QED BY <1>1, <1>2, <3>1
    <2>2. c.index + 1 \in 1..n /\ (c.index + 1) - 1 = c.index
      BY <1>1, <2>1
    <2>3. CallPart(c.index) = c
      BY <1>1, CallParts
    <2>4. c.index + 1 \in DOMAIN all /\ all[c.index + 1] = c
      BY <1>5, <2>2, <2>3
    <2>5. QED BY <2>4 DEF Range
  <1>10. QED BY <1>1, <1>6, <1>8, <1>9

LEMMA AnthropicEmission ==
  ASSUME NEW calls_ \in Seq(StreamEvents), IsInjective(calls_), Range(calls_) \subseteq CallSet,
         NEW out \in SetToSeqs(Range(calls_))
  PROVE  out \in Seq(StreamEvents) /\ Range(out) = Range(calls_) /\ IsInjective(out)
PROOF
  <1> DEFINE R == Range(calls_)
             n == Cardinality(R)
  <1>1. IsFiniteSet(R) /\ n = Len(calls_) /\ n \in Nat
    BY InjectiveCard
  <1>2. out \in [1..n -> R] /\ \A i, j \in 1..n : i # j => out[i] # out[j]
    BY DEF SetToSeqs
  <1> HIDE DEF R, n
  <1>3. R \subseteq StreamEvents
    BY CallParts DEF R
  <1>4. out \in Seq(StreamEvents) /\ Range(out) \subseteq R /\ IsInjective(out) /\ Len(out) = n
    <2>1. out \in Seq(R) /\ Len(out) = n
      BY <1>1, <1>2
    <2>2. out \in Seq(StreamEvents)
      BY <1>3, <2>1, SeqOfMore
    <2>3. Range(out) \subseteq R
      BY <1>2 DEF Range
    <2>4. IsInjective(out)
      BY <1>2 DEF IsInjective
    <2>5. QED BY <2>1, <2>2, <2>3, <2>4
  <1>5. Cardinality(Range(out)) = Cardinality(R)
    BY <1>4, InjectiveCard DEF n
  <1>6. Range(out) = R
    BY <1>1, <1>4, <1>5, FS_Subset
  <1>7. QED BY <1>4, <1>6 DEF R

LEMMA EmissionFacts ==
  ASSUME StreamTyped, CallsKept, Seen = Events,
         script.service = "ollama" => reader.texts = TextsOf(Events),
         NEW out \in Emissions(script.service, reader)
  PROVE  /\ out \in Seq(StreamEvents) /\ Range(out) \subseteq ChunkSet
         /\ \A c \in Range(out) : c.type # "error"
         /\ TextIsCalls => TextsOf(out) = <<>> /\ CallsOf(out) = Extracted(TextsOf(Events))
         /\ ~TextIsCalls =>
              /\ TextsOf(out) = IF script.service = "ollama" THEN TextsOf(Events) ELSE <<>>
              /\ (script.service = "openai" => Contiguous) =>
                   Range(CallsOf(out)) = Range(CallsOf(Events)) /\ IsInjective(CallsOf(out))
PROOF
  <1> USE ScriptFacts
  <1>a. Range(reader.calls) \subseteq CallSet
    BY DEF StreamTyped
  <1>b. CallSet \subseteq ChunkSet /\ \A c \in CallSet : c.type # "error"
    BY CallParts
  <1>1. CASE script.service = "openai"
    <2>1. out \in OpenAIEmits(reader)
      BY <1>1 DEF Emissions
    <2>2. out \in Seq(StreamEvents) /\ Range(out) \subseteq CallSet
          /\ (Contiguous => Range(out) = Range(CallsOf(Events)) /\ IsInjective(out))
      BY <1>1, <2>1, OpenAIEmission
    <2>3. CallsOf(out) = out /\ TextsOf(out) = <<>>
      BY <2>2, OnlyCalls
    <2>4. ~TextIsCalls
      BY <1>1 DEF TextIsCalls
    <2>5. QED BY <1>1, <1>b, <2>2, <2>3, <2>4
  <1>2. CASE script.service = "anthropic"
    <2>1. out \in SetToSeqs(Range(reader.calls))
      BY <1>2 DEF Emissions, AnthropicEmits
    <2>2. IsInjective(reader.calls) /\ Range(reader.calls) = Range(CallsOf(Events))
      BY <1>2 DEF CallsKept
    <2>3. out \in Seq(StreamEvents) /\ Range(out) = Range(reader.calls) /\ IsInjective(out)
      BY <1>a, <2>1, <2>2, AnthropicEmission
    <2>4. CallsOf(out) = out /\ TextsOf(out) = <<>>
      BY <1>a, <2>3, OnlyCalls
    <2>5. ~TextIsCalls
      BY <1>2 DEF TextIsCalls
    <2>6. QED BY <1>2, <1>a, <1>b, <2>2, <2>3, <2>4, <2>5
  <1>3. CASE script.service = "google"
    <2>1. out = reader.calls /\ reader.calls = CallsOf(Events) /\ IsInjective(CallsOf(Events))
      BY <1>3 DEF Emissions, GoogleEmits, CallsKept
    <2>2. CallsOf(out) = out /\ TextsOf(out) = <<>>
      BY <1>a, <2>1, OnlyCalls
    <2>3. ~TextIsCalls
      BY <1>3 DEF TextIsCalls
    <2>4. QED BY <1>3, <1>a, <1>b, <2>1, <2>2, <2>3
  <1>4. CASE script.service = "ollama"
    <2>1. reader.calls = CallsOf(Events) /\ IsInjective(CallsOf(Events)) /\ reader.texts = TextsOf(Events)
      BY <1>4 DEF CallsKept
    <2>2. out \in OllamaEmits(reader)
      BY <1>4 DEF Emissions
    <2>3. TextIsCalls <=> reader.calls = <<>> /\ Extracted(reader.texts) # <<>>
      BY <1>4, <2>1 DEF TextIsCalls, Events
    <2>4. CASE TextIsCalls
      <3>1. out = Extracted(reader.texts)
        BY <2>2, <2>3, <2>4 DEF OllamaEmits
      <3>2. out \in Seq(StreamEvents) /\ Range(out) \subseteq CallSet
        BY <3>1, ExtractedFacts
      <3>3. CallsOf(out) = out /\ TextsOf(out) = <<>>
        BY <3>2, OnlyCalls
      <3>4. QED BY <1>b, <2>1, <2>4, <3>1, <3>2, <3>3
    <2>5. CASE ~TextIsCalls /\ reader.texts = <<>>
      <3>1. out = reader.calls
        BY <2>2, <2>3, <2>5 DEF OllamaEmits
      <3>2. CallsOf(out) = out /\ TextsOf(out) = <<>>
        BY <1>a, <3>1, OnlyCalls
      <3>3. QED BY <1>4, <1>a, <1>b, <2>1, <2>5, <3>1, <3>2
    <2>6. CASE ~TextIsCalls /\ reader.texts # <<>>
      <3> DEFINE t == Chunk("text", reader.texts, 0)
      <3>1. out = <<t>> \o reader.calls
        BY <2>2, <2>3, <2>6 DEF OllamaEmits
      <3>2. t \in StreamEvents /\ t \in ChunkSet /\ t.type = "text" /\ t.words = reader.texts
        BY DEF Chunk, StreamEvents, ChunkSet
      <3> HIDE DEF t
      <3>3. <<t>> \in Seq(StreamEvents) /\ <<>> \in Seq(StreamEvents) /\ <<t>> = Append(<<>>, t)
        BY <3>2
      <3>4. TextsOf(<<t>>) = reader.texts /\ CallsOf(<<t>>) = <<>> /\ Range(<<t>>) = {t}
        <4>1. TextsOf(Append(<<>>, t)) = TextsOf(<<>>) \o t.words
          BY <3>2, <3>3, TextsAppend
        <4>2. CallsOf(Append(<<>>, t)) = CallsOf(<<>>) /\ CallsOf(<<>>) = <<>>
          BY <3>2, <3>3, CallsFacts
        <4>3. <<>> \o reader.texts = reader.texts
          OBVIOUS
        <4>4. Range(<<t>>) = {t}
          BY DEF Range
        <4>5. QED BY <3>2, <3>3, <4>1, <4>2, <4>3, <4>4, TextsEmpty
      <3>5. CallsOf(reader.calls) = reader.calls /\ TextsOf(reader.calls) = <<>>
        BY <1>a, OnlyCalls
      <3>9. reader.texts \o <<>> = reader.texts /\ <<>> \o reader.calls = reader.calls
        OBVIOUS
      <3> DEFINE one == <<t>>
      <3>a. /\ out = one \o reader.calls /\ one \in Seq(StreamEvents) /\ CallsOf(one) = <<>>
            /\ TextsOf(one) = reader.texts /\ Range(one) = {t}
        BY <3>1, <3>3, <3>4
      <3> HIDE DEF one
      <3>6. out \in Seq(StreamEvents) /\ Range(out) = {t} \cup Range(reader.calls)
        <4>1. one \o reader.calls \in Seq(StreamEvents)
          BY <3>a, Concats
        <4>2. QED BY <3>a, <4>1, RangeConcat
      <3>7. TextsOf(out) = reader.texts \o <<>>
        BY ZenonT(60), <3>5, <3>a, TextsConcat
      <3>8. CallsOf(out) = <<>> \o reader.calls
        BY ZenonT(60), <3>5, <3>a, CallsConcat
      <3>10. QED BY <1>4, <1>a, <1>b, <2>1, <2>6, <3>2, <3>6, <3>7, <3>8, <3>9
    <2>7. QED BY <2>4, <2>5, <2>6
  <1>5. QED BY <1>1, <1>2, <1>3, <1>4

(***************************************************************************)
(* The steps of the reader.                                                *)
(***************************************************************************)
LEMMA AccumulatedFacts ==
  ASSUME NEW all \in Seq(StreamEvents), IsInjective(all), NEW c \in StreamEvents
  PROVE  /\ Accumulated(all, c) \in Seq(StreamEvents) /\ IsInjective(Accumulated(all, c))
         /\ Range(Accumulated(all, c)) = Range(all) \cup {c}
PROOF
  <1>1. CASE c \in Range(all)
    BY <1>1 DEF Accumulated
  <1>2. CASE c \notin Range(all)
    BY <1>2, RangeAppend, InjectiveAppend DEF Accumulated
  <1>3. QED BY <1>1, <1>2

(* What is in flight goes on to the end.                                   *)
LEMMA FlowMore ==
  ASSUME StreamTyped, NEW t \in Seq(StreamEvents), InFlight' = InFlight \o t, got' = got
  PROVE  /\ PassedTexts' = PassedTexts \o TextsOf(t) /\ PassedTexts \in Seq(STRING)
         /\ PassedCalls' = PassedCalls \o CallsOf(t) /\ PassedCalls \in Seq(StreamEvents)
         /\ Range(InFlight') = Range(InFlight) \cup Range(t)
PROOF
  <1> DEFINE f == InFlight
             a == got.texts
             b == got.calls
  <1>1. f \in Seq(StreamEvents) /\ a \in Seq(STRING) /\ b \in Seq(StreamEvents)
    BY ScriptFacts
  <1>2. PassedTexts = a \o TextsOf(f) /\ PassedTexts' = a \o TextsOf(f \o t)
        /\ PassedCalls = b \o CallsOf(f) /\ PassedCalls' = b \o CallsOf(f \o t)
    BY DEF PassedTexts, PassedCalls
  <1> HIDE DEF f, a, b
  <1>3. TextsOf(f \o t) = TextsOf(f) \o TextsOf(t) /\ CallsOf(f \o t) = CallsOf(f) \o CallsOf(t)
        /\ TextsOf(f) \in Seq(STRING) /\ TextsOf(t) \in Seq(STRING)
        /\ CallsOf(f) \in Seq(StreamEvents) /\ CallsOf(t) \in Seq(StreamEvents)
    BY <1>1, TextsConcat, CallsConcat, TextsTyped
  <1>4. (a \o TextsOf(f)) \o TextsOf(t) = a \o (TextsOf(f) \o TextsOf(t))
        /\ a \o TextsOf(f) \in Seq(STRING)
    <2> DEFINE x == TextsOf(f)
               y == TextsOf(t)
    <2>1. x \in Seq(STRING) /\ y \in Seq(STRING)
      BY <1>3
    <2> HIDE DEF x, y
    <2>2. a \in Seq(STRING)
      BY <1>1
    <2>3. (a \o x) \o y = a \o (x \o y) /\ a \o x \in Seq(STRING)
      BY SMTT(40), <2>1, <2>2, Concats
    <2>4. QED BY <2>3 DEF x, y
  <1>5. (b \o CallsOf(f)) \o CallsOf(t) = b \o (CallsOf(f) \o CallsOf(t))
        /\ b \o CallsOf(f) \in Seq(StreamEvents)
    <2> DEFINE x == CallsOf(f)
               y == CallsOf(t)
    <2>1. x \in Seq(StreamEvents) /\ y \in Seq(StreamEvents)
      BY <1>3
    <2> HIDE DEF x, y
    <2>2. (b \o x) \o y = b \o (x \o y) /\ b \o x \in Seq(StreamEvents)
      BY SMTT(40), <1>1, <2>1, Concats
    <2>3. QED BY <2>2 DEF x, y
  <1>6. Range(f \o t) = Range(f) \cup Range(t)
    BY <1>1, RangeConcat
  <1>7. QED BY <1>2, <1>3, <1>4, <1>5, <1>6 DEF f

LEMMA FlowSame ==
  ASSUME StreamTyped, InFlight' = InFlight, got' = got
  PROVE  PassedTexts' = PassedTexts /\ PassedCalls' = PassedCalls /\ (NoError' <=> NoError)
PROOF BY DEF PassedTexts, PassedCalls, NoError

(* An invariant that is about the script alone.                            *)
LEMMA CompleteSame ==
  ASSUME script' = script, PassedTexts' = PassedTexts, PassedCalls' = PassedCalls, Complete
  PROVE  Complete'
PROOF BY DEF Complete, ReadOn, TextIsCalls, Contiguous, Events

GoodEvent(e) ==
  e.type # "refused" /\ (e.type = "error" => script.service \in {"openai", "anthropic"})

IsReader(r, stage, at, texts, all, out) ==
  /\ r \in ReaderRec /\ r.stage = stage /\ r.at = at /\ r.texts = texts
  /\ r.calls = all /\ r.out = out

(* What an event does to the reader.                                       *)
ReadOut(r) ==
  \/ r = Failing(reader)
  \/ /\ Event.type = "text" /\ script.service # "ollama"
     /\ IsReader(r, "sending", reader.at + 1, reader.texts,
                    reader.calls, <<Event>>)
  \/ /\ Event.type = "text" /\ script.service = "ollama"
     /\ IsReader(r, "reading", reader.at + 1, reader.texts \o Event.words,
                    reader.calls, <<>>)
  \/ /\ Event.type # "text" /\ GoodEvent(Event)
     /\ \E all \in Seq(StreamEvents) :
          /\ IsReader(r, "reading", reader.at + 1, reader.texts,
                    all, <<>>)
          /\ script.service = "openai" =>
               /\ IsInjective(all)
               /\ Range(all) = Range(reader.calls) \cup
                    {CallPart(e.index) : e \in {x \in {Event} : x.type \in {"call", "delta"}}}
          /\ script.service = "anthropic" =>
               /\ IsInjective(all)
               /\ Range(all) = Range(reader.calls) \cup {x \in {Event} : x.type = "call"}
          /\ script.service \in {"google", "ollama"} =>
               all = IF Event.type = "call" THEN Append(reader.calls, Event) ELSE reader.calls

LEMMA ReaderIs ==
  ASSUME NEW r, NEW stage \in {"reading", "sending", "emitting", "failing", "closed"}, NEW at \in Nat, NEW texts \in Seq(STRING),
         NEW all \in Seq(StreamEvents), NEW out \in Seq(StreamEvents),
         r = [stage |-> stage, at |-> at, texts |-> texts, calls |-> all, out |-> out]
  PROVE  IsReader(r, stage, at, texts, all, out)
PROOF BY DEF IsReader, ReaderRec

LEMMA ReadShape ==
  ASSUME StreamInv, ReadEvent
  PROVE  ReadOut(reader')
PROOF
  <1>0. StreamTyped /\ CallsKept
    BY DEF StreamInv, ReadingOK, ReadEvent
  <1> USE ScriptFacts
  <1>1. reader.stage = "reading" /\ reader.at <= Len(Events) /\ reader.out = <<>>
    BY DEF StreamInv, ReadingOK, ReadEvent, Events
  <1>2. Event \in StreamEvents /\ Event \in Range(Events)
    <2>1. reader.at \in 1..Len(Events) /\ Events \in Seq(StreamEvents)
      BY <1>0, <1>1
    <2>2. reader.at \in DOMAIN Events
      BY <2>1
    <2>3. QED BY <2>1, <2>2 DEF Event, Events, Range
  <1>3. Event.type \in {"text", "call", "delta", "error", "refused"} /\ Event.index \in Nat
        /\ Event.words \in Seq(STRING)
    BY <1>2 DEF StreamEvents
  <1>4. /\ reader \in ReaderRec /\ reader.stage = "reading" /\ reader.out = <<>>
        /\ reader.at \in Nat
    BY <1>0, <1>1
  <1>5. CallPart(Event.index) \in StreamEvents
    BY <1>3, CallParts
  <1>6. CASE script.service = "openai"
    <2>1. reader' = OpenAIReads(reader, Event)
      BY <1>6 DEF ReadEvent
    <2>2. IsInjective(reader.calls)
      BY <1>0, <1>6 DEF CallsKept
    <2>3. CASE Event.type = "refused"
      BY <2>1, <2>3 DEF OpenAIReads, ReadOut
    <2>4. CASE Event.type = "text"
      <3>1. reader' = [stage |-> "sending", at |-> reader.at + 1, texts |-> reader.texts,
                    calls |-> reader.calls, out |-> <<Event>>]
        BY <1>4, <1>6, <2>1, <2>4 DEF OpenAIReads, Sending, Onward, ReaderRec
      <3>2. reader.texts \in Seq(STRING) /\ reader.calls \in Seq(StreamEvents)
            /\ <<Event>> \in Seq(StreamEvents)
        BY <1>0, <1>2
      <3>3. reader.at + 1 \in Nat /\ "sending" \in {"reading", "sending", "emitting", "failing", "closed"}
        BY <1>4
      <3>4. IsReader(reader', "sending", reader.at + 1, reader.texts, reader.calls, <<Event>>)
        BY <3>1, <3>2, <3>3, ReaderIs
      <3>5. QED BY <3>4, <1>6, <2>1, <2>4 DEF ReadOut
    <2>5. CASE Event.type \in {"call", "delta"}
      <3> DEFINE all == Accumulated(reader.calls, CallPart(Event.index))
      <3>1. all \in Seq(StreamEvents) /\ IsInjective(all)
            /\ Range(all) = Range(reader.calls) \cup {CallPart(Event.index)}
        BY <1>0, <1>5, <2>2, AccumulatedFacts
      <3>2. reader' = [[reader EXCEPT !.at = @ + 1] EXCEPT !.calls = all]
        BY <2>1, <2>5 DEF OpenAIReads, Onward
      <3> HIDE DEF all
      <3>3. IsReader(reader', "reading", reader.at + 1, reader.texts, all, <<>>)
        <4>1. reader' = [stage |-> "reading", at |-> reader.at + 1, texts |-> reader.texts,
                    calls |-> all, out |-> <<>>]
          BY <1>4, <3>1, <3>2 DEF ReaderRec
        <4>2. reader.texts \in Seq(STRING) /\ all \in Seq(StreamEvents) /\ <<>> \in Seq(StreamEvents)
          BY <1>0, <3>1
        <4>3. reader.at + 1 \in Nat /\ "reading" \in {"reading", "sending", "emitting", "failing", "closed"}
          BY <1>4
        <4>4. QED BY <4>1, <4>2, <4>3, ReaderIs
      <3>4. {CallPart(e.index) : e \in {x \in {Event} : x.type \in {"call", "delta"}}}
              = {CallPart(Event.index)}
        BY <2>5
      <3>5. QED BY <1>6, <2>5, <3>1, <3>3, <3>4 DEF ReadOut, GoodEvent
    <2>6. CASE Event.type = "error"
      <3>1. IsReader(reader', "reading", reader.at + 1, reader.texts, reader.calls, <<>>)
        <4>1. reader' = [stage |-> "reading", at |-> reader.at + 1, texts |-> reader.texts,
                    calls |-> reader.calls, out |-> <<>>]
          BY <1>4, <2>1, <2>6 DEF ReaderRec, OpenAIReads, Onward
        <4>2. reader.texts \in Seq(STRING) /\ reader.calls \in Seq(StreamEvents) /\ <<>> \in Seq(StreamEvents)
          BY <1>0
        <4>3. reader.at + 1 \in Nat /\ "reading" \in {"reading", "sending", "emitting", "failing", "closed"}
          BY <1>4
        <4>4. QED BY <4>1, <4>2, <4>3, ReaderIs
      <3>2. {CallPart(e.index) : e \in {x \in {Event} : x.type \in {"call", "delta"}}} = {}
        BY <2>6
      <3>3. QED BY <1>0, <1>6, <2>2, <2>6, <3>1, <3>2 DEF ReadOut, GoodEvent
    <2>7. QED BY <1>3, <2>3, <2>4, <2>5, <2>6
  <1>7. CASE script.service = "anthropic"
    <2>1. reader' = AnthropicReads(reader, Event)
      BY <1>7 DEF ReadEvent
    <2>2. IsInjective(reader.calls)
      BY <1>0, <1>7 DEF CallsKept
    <2>3. CASE Event.type = "refused"
      BY <2>1, <2>3 DEF AnthropicReads, ReadOut
    <2>4. CASE Event.type = "text"
      <3>1. reader' = [stage |-> "sending", at |-> reader.at + 1, texts |-> reader.texts,
                    calls |-> reader.calls, out |-> <<Event>>]
        BY <1>4, <1>7, <2>1, <2>4 DEF AnthropicReads, Sending, Onward, ReaderRec
      <3>2. reader.texts \in Seq(STRING) /\ reader.calls \in Seq(StreamEvents)
            /\ <<Event>> \in Seq(StreamEvents)
        BY <1>0, <1>2
      <3>3. reader.at + 1 \in Nat /\ "sending" \in {"reading", "sending", "emitting", "failing", "closed"}
        BY <1>4
      <3>4. IsReader(reader', "sending", reader.at + 1, reader.texts, reader.calls, <<Event>>)
        BY <3>1, <3>2, <3>3, ReaderIs
      <3>5. QED BY <3>4, <1>7, <2>1, <2>4 DEF ReadOut
    <2>5. CASE Event.type = "call"
      <3> DEFINE all == Accumulated(reader.calls, Event)
      <3>1. all \in Seq(StreamEvents) /\ IsInjective(all)
            /\ Range(all) = Range(reader.calls) \cup {Event}
        BY <1>0, <1>2, <2>2, AccumulatedFacts
      <3>2. reader' = [[reader EXCEPT !.at = @ + 1] EXCEPT !.calls = all]
        BY <2>1, <2>5 DEF AnthropicReads, Onward
      <3> HIDE DEF all
      <3>3. IsReader(reader', "reading", reader.at + 1, reader.texts, all, <<>>)
        <4>1. reader' = [stage |-> "reading", at |-> reader.at + 1, texts |-> reader.texts,
                    calls |-> all, out |-> <<>>]
          BY <1>4, <3>1, <3>2 DEF ReaderRec
        <4>2. reader.texts \in Seq(STRING) /\ all \in Seq(StreamEvents) /\ <<>> \in Seq(StreamEvents)
          BY <1>0, <3>1
        <4>3. reader.at + 1 \in Nat /\ "reading" \in {"reading", "sending", "emitting", "failing", "closed"}
          BY <1>4
        <4>4. QED BY <4>1, <4>2, <4>3, ReaderIs
      <3>4. {x \in {Event} : x.type = "call"} = {Event}
        BY <2>5
      <3>5. QED BY <1>7, <2>5, <3>1, <3>3, <3>4 DEF ReadOut, GoodEvent
    <2>6. CASE Event.type \in {"error", "delta"}
      <3>1. IsReader(reader', "reading", reader.at + 1, reader.texts, reader.calls, <<>>)
        <4>1. reader' = [stage |-> "reading", at |-> reader.at + 1, texts |-> reader.texts,
                    calls |-> reader.calls, out |-> <<>>]
          BY <1>4, <2>1, <2>6 DEF ReaderRec, AnthropicReads, Onward
        <4>2. reader.texts \in Seq(STRING) /\ reader.calls \in Seq(StreamEvents) /\ <<>> \in Seq(StreamEvents)
          BY <1>0
        <4>3. reader.at + 1 \in Nat /\ "reading" \in {"reading", "sending", "emitting", "failing", "closed"}
          BY <1>4
        <4>4. QED BY <4>1, <4>2, <4>3, ReaderIs
      <3>2. {x \in {Event} : x.type = "call"} = {}
        BY <2>6
      <3>3. QED BY <1>0, <1>7, <2>2, <2>6, <3>1, <3>2 DEF ReadOut, GoodEvent
    <2>7. QED BY <1>3, <2>3, <2>4, <2>5, <2>6
  <1>8. CASE script.service \in {"google", "ollama"}
    <2>0. Event.type # "delta"
      BY <1>0, <1>2, <1>8
    <2>1. CASE Event.type \in {"refused", "error"}
      BY <1>8, <2>1 DEF ReadEvent, GoogleReads, OllamaReads, ReadOut
    <2>2. CASE Event.type = "text" /\ script.service = "google"
      <3>1. reader' = [stage |-> "sending", at |-> reader.at + 1, texts |-> reader.texts,
                    calls |-> reader.calls, out |-> <<Event>>]
        BY <1>4, <2>2 DEF ReadEvent, GoogleReads, Sending, Onward, ReaderRec
      <3>2. reader.texts \in Seq(STRING) /\ reader.calls \in Seq(StreamEvents)
            /\ <<Event>> \in Seq(StreamEvents)
        BY <1>0, <1>2
      <3>3. reader.at + 1 \in Nat /\ "sending" \in {"reading", "sending", "emitting", "failing", "closed"}
        BY <1>4
      <3>4. IsReader(reader', "sending", reader.at + 1, reader.texts, reader.calls, <<Event>>)
        BY <3>1, <3>2, <3>3, ReaderIs
      <3>5. QED BY <3>4, <2>2 DEF ReadOut
    <2>3. CASE Event.type = "text" /\ script.service = "ollama"
      <3> DEFINE all == reader.texts \o Event.words
      <3>0. all \in Seq(STRING)
        BY <1>0, <1>3
      <3>1. reader' = [[reader EXCEPT !.at = @ + 1] EXCEPT !.texts = all]
        BY <1>4, <2>3 DEF ReadEvent, OllamaReads, Onward
      <3> HIDE DEF all
      <3>2. IsReader(reader', "reading", reader.at + 1, all, reader.calls, <<>>)
        <4>1. reader' = [stage |-> "reading", at |-> reader.at + 1, texts |-> all,
                    calls |-> reader.calls, out |-> <<>>]
          BY <1>4, <3>0, <3>1 DEF ReaderRec
        <4>2. all \in Seq(STRING) /\ reader.calls \in Seq(StreamEvents) /\ <<>> \in Seq(StreamEvents)
          BY <1>0, <3>0, <3>1
        <4>3. reader.at + 1 \in Nat /\ "reading" \in {"reading", "sending", "emitting", "failing", "closed"}
          BY <1>4
        <4>4. QED BY <4>1, <4>2, <4>3, ReaderIs
      <3>3. QED BY <2>3, <3>2 DEF ReadOut, all
    <2>4. CASE Event.type = "call"
      <3> DEFINE all == Append(reader.calls, Event)
      <3>1. all \in Seq(StreamEvents)
        BY <1>0, <1>2
      <3>2. reader' = [[reader EXCEPT !.at = @ + 1] EXCEPT !.calls = all]
        BY <1>8, <2>4 DEF ReadEvent, GoogleReads, OllamaReads, Onward
      <3> HIDE DEF all
      <3>3. IsReader(reader', "reading", reader.at + 1, reader.texts, all, <<>>)
        <4>1. reader' = [stage |-> "reading", at |-> reader.at + 1, texts |-> reader.texts,
                    calls |-> all, out |-> <<>>]
          BY <1>4, <3>1, <3>2 DEF ReaderRec
        <4>2. reader.texts \in Seq(STRING) /\ all \in Seq(StreamEvents) /\ <<>> \in Seq(StreamEvents)
          BY <1>0, <3>1
        <4>3. reader.at + 1 \in Nat /\ "reading" \in {"reading", "sending", "emitting", "failing", "closed"}
          BY <1>4
        <4>4. QED BY <4>1, <4>2, <4>3, ReaderIs
      <3>4. QED BY <1>8, <2>4, <3>1, <3>3 DEF ReadOut, GoodEvent, all
    <2>5. QED BY <1>3, <1>8, <2>0, <2>1, <2>2, <2>3, <2>4
  <1>9. QED BY <1>0, <1>6, <1>7, <1>8

LEMMA TypedKept ==
  ASSUME StreamTyped, UNCHANGED <<script, chunks, got, cancelled>>, reader' \in ReaderRec,
         reader'.at \in 1..(Len(Events) + 1),
         Range(reader'.calls) \subseteq CallSet, Range(reader'.out) \subseteq ChunkSet
  PROVE  StreamTyped'
PROOF BY DEF StreamTyped, Events

LEMMA BeginsLess ==
  ASSUME NEW a \in Seq(STRING), NEW b \in Seq(STRING), NEW t, Begins(a \o b, t)
  PROVE  Begins(a, t)
PROOF
  <1>1. PICK rest \in Seq(STRING) : t = (a \o b) \o rest
    BY DEF Begins
  <1>2. t = a \o (b \o rest) /\ b \o rest \in Seq(STRING)
    BY <1>1, Concats
  <1>3. QED BY <1>2 DEF Begins

LEMMA FailingKeeps ==
  ASSUME StreamInv, reader.stage \in {"reading", "sending", "emitting"},
         reader' = Failing(reader), UNCHANGED <<script, chunks, got, cancelled>>
  PROVE  StreamInv'
PROOF
  <1>1. StreamTyped /\ NoError /\ got.result = "none" /\ PrefixOK
    BY DEF StreamInv, ReadingOK, EndOK
  <1> USE ScriptFacts
  <1>2. IsReader(reader', "failing", reader.at, reader.texts, reader.calls, <<>>)
    <2>1. reader' = [stage |-> "failing", at |-> reader.at, texts |-> reader.texts,
                     calls |-> reader.calls, out |-> <<>>]
      BY <1>1 DEF Failing, ReaderRec
    <2>2. reader.texts \in Seq(STRING) /\ reader.calls \in Seq(StreamEvents)
          /\ <<>> \in Seq(StreamEvents) /\ reader.at \in Nat
      BY <1>1
    <2>3. "failing" \in {"reading", "sending", "emitting", "failing", "closed"}
      OBVIOUS
    <2>4. QED BY <2>1, <2>2, <2>3, ReaderIs
  <1>3. InFlight' = chunks
    BY <1>1, <1>2 DEF InFlight, IsReader
  <1>4. StreamTyped'
    <2>1. Range(<<>>) = {}
      BY DEF Range
    <2>2. reader' \in ReaderRec /\ reader'.at \in 1..(Len(Events) + 1)
          /\ Range(reader'.calls) \subseteq CallSet /\ Range(reader'.out) \subseteq ChunkSet
      BY <1>1, <1>2, <2>1 DEF IsReader, StreamTyped
    <2>3. QED BY <1>1, <2>2, TypedKept
  <1>5. Begins(PassedTexts', TextsOf(Events)')
    <2> DEFINE a == got.texts
               x == TextsOf(chunks)
               y == TextsOf(reader.out)
    <2>1. a \in Seq(STRING) /\ chunks \in Seq(StreamEvents) /\ reader.out \in Seq(StreamEvents)
      BY <1>1
    <2>2. x \in Seq(STRING) /\ y \in Seq(STRING) /\ TextsOf(InFlight) = x \o y
      BY <2>1, TextsTyped, TextsConcat DEF InFlight
    <2>3. PassedTexts = a \o (x \o y) /\ PassedTexts' = a \o x
      BY <1>3, <2>2 DEF PassedTexts
    <2> HIDE DEF a, x, y
    <2>4. (a \o x) \o y = a \o (x \o y)
      <3>1. a \in Seq(STRING)
        BY <2>1
      <3>2. QED BY SMTT(40), <3>1, <2>2, Concats
    <2>5. a \o x \in Seq(STRING)
      BY <2>1, <2>2, Concats
    <2>6. Begins((a \o x) \o y, TextsOf(Events))
      BY <1>1, <2>3, <2>4 DEF PrefixOK
    <2>7. Begins(a \o x, TextsOf(Events))
      BY <2>2, <2>5, <2>6, BeginsLess
    <2>8. QED BY <2>3, <2>7 DEF Events
  <1>6. NoError'
    <2>1. Range(chunks) \subseteq Range(InFlight)
      BY <1>1, RangeConcat DEF InFlight
    <2>2. QED BY <1>1, <1>3, <2>1 DEF NoError
  <1>7. QED
    BY <1>1, <1>2, <1>4, <1>5, <1>6 DEF StreamInv, ReadingOK, EndOK, PrefixOK, IsReader

LEMMA SeenMore ==
  ASSUME StreamTyped, ReadEvent, reader'.at = reader.at + 1
  PROVE  /\ Event \in StreamEvents /\ Event \in Range(Events)
         /\ TextsOf(Seen)' = TextsOf(Seen) \o Event.words /\ TextsOf(Seen) \in Seq(STRING)
         /\ CallsOf(Seen)' = IF Event.type = "call" THEN Append(CallsOf(Seen), Event) ELSE CallsOf(Seen)
         /\ Range(CallsOf(Seen))' = Range(CallsOf(Seen)) \cup {x \in {Event} : x.type = "call"}
         /\ FirstParts(Seen)' = FirstParts(Seen) \cup
              {CallPart(e.index) : e \in {x \in {Event} : x.type \in {"call", "delta"}}}
         /\ GoodEvent(Event) /\ ReadOn(Seen) => ReadOn(Seen)'
         /\ Begins(TextsOf(Seen)', TextsOf(Events)')
         /\ reader'.at \in 1..(Len(Events) + 1)
PROOF
  <1> DEFINE seen == SubSeq(Events, 1, reader.at)
  <1>1. reader.at \in 1..Len(Events) /\ Events \in Seq(StreamEvents)
        /\ reader'.at - 1 = reader.at /\ script' = script
    BY SMTT(40), ScriptFacts DEF ReadEvent, Events
  <1>2. Seen' = seen /\ Events' = Events
    BY <1>1 DEF Seen, Events
  <1> HIDE DEF seen
  <1>3. seen = SubSeq(Events, 1, reader.at) /\ reader.at <= Len(Events)
    BY <1>1 DEF seen
  <1>4. /\ Event \in StreamEvents /\ Event \in Range(Events)
        /\ seen \in Seq(StreamEvents) /\ seen = Append(Seen, Event)
        /\ Range(seen) = Range(Seen) \cup {Event}
        /\ TextsOf(seen) = TextsOf(Seen) \o Event.words
        /\ CallsOf(seen) = IF Event.type = "call" THEN Append(CallsOf(Seen), Event) ELSE CallsOf(Seen)
    BY <1>3, SeenNext
  <1>5. Seen \in Seq(StreamEvents) /\ TextsOf(Seen) \in Seq(STRING)
    BY SeenFacts, TextsTyped
  <1>6. Range(CallsOf(seen)) = Range(CallsOf(Seen)) \cup {x \in {Event} : x.type = "call"}
    <2>1. Range(CallsOf(seen)) = {x \in Range(seen) : x.type = "call"}
          /\ Range(CallsOf(Seen)) = {x \in Range(Seen) : x.type = "call"}
      BY <1>4, <1>5, CallsFacts
    <2>2. QED BY <1>4, <2>1
  <1>7. FirstParts(seen) = FirstParts(Seen) \cup
              {CallPart(e.index) : e \in {x \in {Event} : x.type \in {"call", "delta"}}}
    BY <1>4 DEF FirstParts
  <1>8. Begins(TextsOf(seen), TextsOf(Events))
    <2>1. PICK rest \in Seq(StreamEvents) : Events = seen \o rest
      <3>1. Opens(StreamEvents, SubSeq(Events, 1, reader.at), Events)
        BY <1>1, Beginnings
      <3>2. QED BY <1>3, <3>1 DEF Opens
    <2>2. TextsOf(Events) = TextsOf(seen) \o TextsOf(rest) /\ TextsOf(rest) \in Seq(STRING)
      <3>1. TextsOf(seen \o rest) = TextsOf(seen) \o TextsOf(rest)
        BY <1>4, TextsConcat
      <3>2. QED BY <2>1, <3>1, TextsTyped
    <2>3. QED BY <2>2 DEF Begins
  <1>9. GoodEvent(Event) /\ ReadOn(Seen) => ReadOn(Seen)'
    BY <1>1, <1>2, <1>4 DEF ReadOn, GoodEvent
  <1>10. TextsOf(Seen)' = TextsOf(seen) /\ CallsOf(Seen)' = CallsOf(seen)
         /\ FirstParts(Seen)' = FirstParts(seen) /\ TextsOf(Events)' = TextsOf(Events)
    BY <1>2 DEF FirstParts
  <1>11. reader'.at \in 1..(Len(Events) + 1)
    BY <1>1
  <1>12. QED
    <2>1. /\ TextsOf(Seen)' = TextsOf(Seen) \o Event.words
          /\ CallsOf(Seen)' = IF Event.type = "call" THEN Append(CallsOf(Seen), Event) ELSE CallsOf(Seen)
          /\ Range(CallsOf(Seen))' = Range(CallsOf(Seen)) \cup {x \in {Event} : x.type = "call"}
      BY <1>4, <1>6, <1>10
    <2>2. FirstParts(Seen)' = FirstParts(Seen) \cup
              {CallPart(e.index) : e \in {x \in {Event} : x.type \in {"call", "delta"}}}
      BY <1>7, <1>10
    <2>3. Begins(TextsOf(Seen)', TextsOf(Events)')
      BY <1>8, <1>10
    <2>4. QED BY <1>4, <1>5, <1>9, <1>11, <2>1, <2>2, <2>3

(* An event that is not sent on at once.                                   *)
LEMMA HoldKeeps ==
  ASSUME StreamInv, ReadEvent, GoodEvent(Event), NEW texts \in Seq(STRING), NEW all \in Seq(StreamEvents),
         IsReader(reader', "reading", reader.at + 1, texts, all, <<>>),
         Range(all) \subseteq CallSet, CallsKept',
         IF script.service = "ollama" THEN texts = TextsOf(Seen)' ELSE Event.words = <<>>
  PROVE  StreamInv'
PROOF
  <1>1. /\ StreamTyped /\ NoError /\ ReadOn(Seen) /\ got.result = "none" /\ PrefixOK
        /\ reader.out = <<>> /\ PassedCalls = <<>>
        /\ (script.service = "ollama" => PassedTexts = <<>>)
        /\ (script.service # "ollama" => PassedTexts = TextsOf(Seen))
    BY DEF StreamInv, ReadingOK, ReadEvent
  <1>2. UNCHANGED <<script, chunks, got, cancelled>>
    BY DEF ReadEvent
  <1>3. /\ reader' \in ReaderRec /\ reader'.stage = "reading" /\ reader'.at = reader.at + 1
        /\ reader'.texts = texts /\ reader'.calls = all /\ reader'.out = <<>>
    BY DEF IsReader
  <1>4. /\ TextsOf(Seen)' = TextsOf(Seen) \o Event.words /\ TextsOf(Seen) \in Seq(STRING)
        /\ ReadOn(Seen)' /\ reader'.at \in 1..(Len(Events) + 1)
    BY <1>1, <1>3, SeenMore
  <1>5. StreamTyped'
    <2>1. Range(reader'.out) \subseteq ChunkSet
      BY <1>3 DEF Range
    <2>2. Range(reader'.calls) \subseteq CallSet
      BY <1>3
    <2>3. QED BY <1>1, <1>2, <1>3, <1>4, <2>1, <2>2, TypedKept
  <1>6. InFlight' = InFlight
    BY <1>1, <1>2, <1>3 DEF InFlight
  <1>7. PassedTexts' = PassedTexts /\ PassedCalls' = PassedCalls /\ NoError'
    BY <1>1, <1>2, <1>6, FlowSame
  <1>8. script.service # "ollama" => TextsOf(Seen)' = TextsOf(Seen)
    <2>1. TextsOf(Seen) \o <<>> = TextsOf(Seen)
      BY <1>4
    <2>2. QED BY <1>4, <2>1
  <1>9. /\ (script'.service = "ollama" => PassedTexts' = <<>> /\ reader'.texts = TextsOf(Seen)')
        /\ (script'.service # "ollama" => PassedTexts' = TextsOf(Seen)')
    BY <1>1, <1>2, <1>3, <1>7, <1>8
  <1>10. ReadingOK'
    BY <1>1, <1>2, <1>3, <1>4, <1>7, <1>9 DEF ReadingOK
  <1>11. EndOK'
    BY <1>1, <1>2, <1>3 DEF EndOK
  <1>12. PrefixOK'
    <2>1. Events' = Events
      BY <1>2 DEF Events
    <2>2. QED BY <1>1, <1>7, <2>1 DEF PrefixOK
  <1>13. QED BY <1>5, <1>10, <1>11, <1>12 DEF StreamInv

LEMMA ReadEventKeeps ==
  ASSUME StreamInv, ReadEvent
  PROVE  StreamInv'
PROOF
  <1>1. /\ StreamTyped /\ NoError /\ ReadOn(Seen) /\ got.result = "none" /\ PrefixOK /\ CallsKept
        /\ reader.stage = "reading" /\ reader.out = <<>> /\ PassedCalls = <<>>
        /\ (script.service = "ollama" => PassedTexts = <<>> /\ reader.texts = TextsOf(Seen))
        /\ (script.service # "ollama" => PassedTexts = TextsOf(Seen))
    BY DEF StreamInv, ReadingOK, ReadEvent
  <1>2. UNCHANGED <<script, chunks, got, cancelled>>
    BY DEF ReadEvent
  <1>3. ReadOut(reader')
    BY ReadShape
  <1>4. CASE reader' = Failing(reader)
    BY <1>1, <1>2, <1>4, FailingKeeps
  <1>5. CASE /\ Event.type = "text" /\ script.service # "ollama"
             /\ IsReader(reader', "sending", reader.at + 1, reader.texts, reader.calls, <<Event>>)
    <2>1. /\ reader' \in ReaderRec /\ reader'.stage = "sending" /\ reader'.at = reader.at + 1
          /\ reader'.calls = reader.calls /\ reader'.out = <<Event>>
      BY <1>5 DEF IsReader
    <2>2. /\ Event \in StreamEvents
          /\ TextsOf(Seen)' = TextsOf(Seen) \o Event.words
          /\ CallsOf(Seen)' = CallsOf(Seen)
          /\ Begins(TextsOf(Seen)', TextsOf(Events)')
          /\ reader'.at \in 1..(Len(Events) + 1)
      BY <1>1, <1>5, <2>1, SeenMore
    <2>3. FirstParts(Seen)' = FirstParts(Seen)
      <3>1. {CallPart(e.index) : e \in {x \in {Event} : x.type \in {"call", "delta"}}} = {}
        BY <1>5
      <3>2. FirstParts(Seen)' = FirstParts(Seen) \cup
              {CallPart(e.index) : e \in {x \in {Event} : x.type \in {"call", "delta"}}}
        BY <1>1, <2>1, SeenMore
      <3>3. QED BY <3>1, <3>2
    <2>4. ReadOn(Seen)'
      <3>1. GoodEvent(Event)
        BY <1>5 DEF GoodEvent
      <3>2. QED BY <1>1, <2>1, <3>1, SeenMore
    <2>5. CallsKept'
      BY <1>1, <1>2, <2>1, <2>2, <2>3 DEF CallsKept
    <2> DEFINE one == <<Event>>
    <2>6. one \in Seq(StreamEvents) /\ Range(one) = {Event} /\ Len(one) = 1
      BY <2>2 DEF Range
    <2>7. TextsOf(one) = Event.words /\ CallsOf(one) = <<>>
      <3>1. one = Append(<<>>, Event) /\ <<>> \in Seq(StreamEvents)
        BY <2>2
      <3>2. TextsOf(Append(<<>>, Event)) = TextsOf(<<>>) \o Event.words
        BY <2>2, <3>1, TextsAppend
      <3>3. CallsOf(Append(<<>>, Event)) = CallsOf(<<>>) /\ CallsOf(<<>>) = <<>>
        BY <1>5, <2>2, <3>1, CallsFacts
      <3>4. <<>> \o Event.words = Event.words
        BY <2>2 DEF StreamEvents
      <3>5. QED BY <3>1, <3>2, <3>3, <3>4, TextsEmpty
    <2>8. InFlight' = InFlight \o one
      <3>1. chunks \in Seq(StreamEvents)
        BY <1>1, ScriptFacts
      <3>2. chunks \o <<>> = chunks
        BY <3>1
      <3>3. QED BY <1>1, <1>2, <2>1, <3>2 DEF InFlight
    <2>a. reader'.out = one
      BY <2>1
    <2> HIDE DEF one
    <2>9. /\ PassedTexts' = PassedTexts \o TextsOf(one)
          /\ PassedCalls' = PassedCalls \o CallsOf(one)
          /\ Range(InFlight') = Range(InFlight) \cup Range(one)
      BY <1>1, <1>2, <2>6, <2>8, FlowMore
    <2>10. PassedTexts' = TextsOf(Seen)' /\ PassedCalls' = <<>>
      <3>1. <<>> \o <<>> = <<>>
        OBVIOUS
      <3>2. QED BY <1>1, <1>5, <2>2, <2>7, <2>9, <3>1
    <2>11. NoError'
      BY <1>1, <1>5, <2>6, <2>9 DEF NoError
    <2>12. StreamTyped'
      <3>1. Event \in ChunkSet
        <4>1. Event.type # "text" => Event.words = <<>>
          BY <1>5
        <4>2. QED BY <1>5, <2>2, <4>1 DEF ChunkSet
      <3>2. Range(reader'.out) \subseteq ChunkSet /\ Range(reader'.calls) \subseteq CallSet
        BY <1>1, <2>1, <2>6, <2>a, <3>1 DEF StreamTyped
      <3>3. QED BY <1>1, <1>2, <2>1, <2>2, <3>2, TypedKept
    <2>13. ReadingOK'
      BY <1>1, <1>2, <1>5, <2>1, <2>4, <2>5, <2>6, <2>a, <2>10, <2>11 DEF ReadingOK
    <2>14. EndOK'
      BY <1>1, <1>2, <2>1 DEF EndOK
    <2>15. PrefixOK'
      BY <2>2, <2>10 DEF PrefixOK
    <2>16. QED BY <2>12, <2>13, <2>14, <2>15 DEF StreamInv
  <1>6. CASE /\ Event.type = "text" /\ script.service = "ollama"
             /\ IsReader(reader', "reading", reader.at + 1, reader.texts \o Event.words, reader.calls, <<>>)
    <2> DEFINE texts == reader.texts \o Event.words
    <2>1. reader'.at = reader.at + 1 /\ reader'.calls = reader.calls
      BY <1>6 DEF IsReader
    <2>2. /\ Event \in StreamEvents /\ texts = TextsOf(Seen)' /\ CallsOf(Seen)' = CallsOf(Seen)
      BY <1>1, <1>6, <2>1, SeenMore
    <2>3. texts \in Seq(STRING)
      <3>1. reader.texts \in Seq(STRING) /\ Event.words \in Seq(STRING)
        BY <1>1, <2>2, ScriptFacts DEF StreamEvents
      <3>2. QED BY <3>1, Concats
    <2>4. CallsKept'
      BY <1>1, <1>2, <1>6, <2>1, <2>2 DEF CallsKept
    <2>5. GoodEvent(Event)
      BY <1>6 DEF GoodEvent
    <2>6. reader.calls \in Seq(StreamEvents) /\ Range(reader.calls) \subseteq CallSet
      BY <1>1, ScriptFacts DEF StreamTyped
    <2>7. IsReader(reader', "reading", reader.at + 1, texts, reader.calls, <<>>)
      BY <1>6
    <2> HIDE DEF texts
    <2>8. QED BY <1>6, <2>2, <2>3, <2>4, <2>5, <2>6, <2>7, HoldKeeps
  <1>7. ASSUME Event.type # "text", GoodEvent(Event), NEW all \in Seq(StreamEvents),
               IsReader(reader', "reading", reader.at + 1, reader.texts, all, <<>>),
               script.service = "openai" =>
                 /\ IsInjective(all)
                 /\ Range(all) = Range(reader.calls) \cup
                      {CallPart(e.index) : e \in {x \in {Event} : x.type \in {"call", "delta"}}},
               script.service = "anthropic" =>
                 /\ IsInjective(all)
                 /\ Range(all) = Range(reader.calls) \cup {x \in {Event} : x.type = "call"},
               script.service \in {"google", "ollama"} =>
                 all = IF Event.type = "call" THEN Append(reader.calls, Event) ELSE reader.calls
        PROVE  StreamInv'
    <2>1. reader'.at = reader.at + 1 /\ reader'.calls = all
      BY <1>7 DEF IsReader
    <2>2. /\ Event \in StreamEvents /\ Event \in Range(Events)
          /\ TextsOf(Seen)' = TextsOf(Seen) \o Event.words /\ TextsOf(Seen) \in Seq(STRING)
          /\ CallsOf(Seen)' = IF Event.type = "call" THEN Append(CallsOf(Seen), Event) ELSE CallsOf(Seen)
      BY <1>1, <2>1, SeenMore
    <2>3. /\ Range(CallsOf(Seen))' = Range(CallsOf(Seen)) \cup {x \in {Event} : x.type = "call"}
          /\ FirstParts(Seen)' = FirstParts(Seen) \cup
               {CallPart(e.index) : e \in {x \in {Event} : x.type \in {"call", "delta"}}}
      BY <1>1, <2>1, SeenMore
    <2>4. Event.words = <<>>
      BY <1>1, <1>7, <2>2, ScriptFacts
    <2>5. TextsOf(Seen)' = TextsOf(Seen)
      <3>1. TextsOf(Seen) \o <<>> = TextsOf(Seen)
        BY <2>2
      <3>2. QED BY <2>2, <2>4, <3>1
    <2>6. CallsKept'
      <3>1. script' = script /\ reader'.calls = all
        BY <1>2, <2>1
      <3>2. script.service = "openai" => IsInjective(all) /\ Range(all) = FirstParts(Seen)'
        BY <1>1, <1>7, <2>3 DEF CallsKept
      <3>3. script.service = "anthropic" => IsInjective(all) /\ Range(all) = Range(CallsOf(Seen))'
        BY <1>1, <1>7, <2>3 DEF CallsKept
      <3>4. script.service \in {"google", "ollama"} => all = CallsOf(Seen)'
        BY <1>1, <1>7, <2>2 DEF CallsKept
      <3>5. QED BY <3>1, <3>2, <3>3, <3>4 DEF CallsKept
    <2>7. Range(all) \subseteq CallSet
      <3>1. Event.type = "call" => Event \in CallSet
        BY <2>2, <2>4 DEF CallSet
      <3>2. CallPart(Event.index) \in CallSet
        <4>1. Event.index \in Nat
          BY <2>2 DEF StreamEvents
        <4>2. QED BY <4>1, CallParts
      <3>3. Range(reader.calls) \subseteq CallSet /\ reader.calls \in Seq(StreamEvents)
        BY <1>1, ScriptFacts DEF StreamTyped
      <3>4. Range(Append(reader.calls, Event)) = Range(reader.calls) \cup {Event}
        BY <2>2, <3>3, RangeAppend
      <3>5. script.service = "openai" => Range(all) \subseteq CallSet
        BY <1>7, <3>2, <3>3
      <3>6. script.service = "anthropic" => Range(all) \subseteq CallSet
        BY <1>7, <3>1, <3>3
      <3>7. script.service \in {"google", "ollama"} => Range(all) \subseteq CallSet
        BY <1>7, <3>1, <3>3, <3>4
      <3>8. QED BY <1>1, <3>5, <3>6, <3>7, ScriptFacts
    <2>8. /\ reader.texts \in Seq(STRING)
          /\ IF script.service = "ollama" THEN reader.texts = TextsOf(Seen)' ELSE Event.words = <<>>
      BY <1>1, <2>4, <2>5, ScriptFacts
    <2>9. QED BY <1>7, <2>6, <2>7, <2>8, HoldKeeps
  <1>8. QED BY <1>3, <1>4, <1>5, <1>6, <1>7 DEF ReadOut

LEMMA ReadEndKeeps ==
  ASSUME StreamInv, ReadEnd
  PROVE  StreamInv'
PROOF
  <1>1. /\ StreamTyped /\ NoError /\ ReadOn(Seen) /\ got.result = "none" /\ PrefixOK /\ CallsKept
        /\ reader.stage = "reading" /\ reader.out = <<>> /\ PassedCalls = <<>>
        /\ (script.service = "ollama" => PassedTexts = <<>> /\ reader.texts = TextsOf(Seen))
        /\ (script.service # "ollama" => PassedTexts = TextsOf(Seen))
    BY DEF StreamInv, ReadingOK, ReadEnd
  <1> USE ScriptFacts
  <1>2. UNCHANGED <<script, chunks, got, cancelled>>
    BY DEF ReadEnd
  <1>3. PICK out \in Emissions(script.service, reader) :
          reader' = [reader EXCEPT !.stage = "emitting", !.out = out]
    BY DEF ReadEnd
  <1>4. Seen = Events
    <2>1. reader.at = Len(Events) + 1
      BY <1>1 DEF ReadEnd, Events
    <2>2. QED BY <1>1, <2>1, SeenFacts
  <1>5. /\ out \in Seq(StreamEvents) /\ Range(out) \subseteq ChunkSet
        /\ \A c \in Range(out) : c.type # "error"
        /\ TextIsCalls => TextsOf(out) = <<>> /\ CallsOf(out) = Extracted(TextsOf(Events))
        /\ ~TextIsCalls =>
             /\ TextsOf(out) = IF script.service = "ollama" THEN TextsOf(Events) ELSE <<>>
             /\ (script.service = "openai" => Contiguous) =>
                  Range(CallsOf(out)) = Range(CallsOf(Events)) /\ IsInjective(CallsOf(out))
    BY <1>1, <1>3, <1>4, EmissionFacts
  <1>6. IsReader(reader', "emitting", reader.at, reader.texts, reader.calls, out)
    <2>1. reader' = [stage |-> "emitting", at |-> reader.at, texts |-> reader.texts,
                     calls |-> reader.calls, out |-> out]
      BY <1>1, <1>3 DEF ReaderRec
    <2>2. reader.texts \in Seq(STRING) /\ reader.calls \in Seq(StreamEvents) /\ reader.at \in Nat
      BY <1>1
    <2>3. "emitting" \in {"reading", "sending", "emitting", "failing", "closed"}
      OBVIOUS
    <2>4. QED BY <1>5, <2>1, <2>2, <2>3, ReaderIs
  <1>7. /\ reader' \in ReaderRec /\ reader'.stage = "emitting" /\ reader'.at = reader.at
        /\ reader'.calls = reader.calls /\ reader'.out = out
    BY <1>6 DEF IsReader
  <1>8. InFlight' = InFlight \o out
    <2>1. chunks \in Seq(StreamEvents)
      BY <1>1
    <2>2. chunks \o <<>> = chunks
      BY <2>1
    <2>3. QED BY <1>1, <1>2, <1>7, <2>2 DEF InFlight
  <1>9. /\ PassedTexts' = PassedTexts \o TextsOf(out) /\ PassedTexts \in Seq(STRING)
        /\ PassedCalls' = PassedCalls \o CallsOf(out)
        /\ Range(InFlight') = Range(InFlight) \cup Range(out)
    BY <1>1, <1>2, <1>5, <1>8, FlowMore
  <1>10. StreamTyped'
    BY <1>1, <1>2, <1>5, <1>7, TypedKept DEF StreamTyped
  <1>11. TextsOf(out) \in Seq(STRING) /\ CallsOf(out) \in Seq(StreamEvents)
         /\ TextsOf(Events) \in Seq(STRING)
    BY <1>1, <1>5, TextsTyped, CallsConcat
  <1>12. PassedCalls' = CallsOf(out)
    <2>1. <<>> \o CallsOf(out) = CallsOf(out)
      BY <1>11
    <2>2. QED BY <1>1, <1>9, <2>1
  <1>13. /\ <<>> \o TextsOf(out) = TextsOf(out)
         /\ TextsOf(Events) \o <<>> = TextsOf(Events)
    BY <1>11
  <1>14. PassedTexts' = IF TextIsCalls THEN <<>> ELSE TextsOf(Events)
    <2>1. TextIsCalls => script.service = "ollama"
      BY DEF TextIsCalls
    <2>2. CASE script.service = "ollama"
      BY <1>1, <1>5, <1>9, <1>13, <2>2
    <2>3. CASE script.service # "ollama"
      BY <1>1, <1>4, <1>5, <1>9, <1>13, <2>1, <2>3
    <2>4. QED BY <2>2, <2>3
  <1>15. Complete'
    <2>1. ReadOn(Events)
      BY <1>1, <1>4
    <2>2. /\ Events' = Events /\ (TextIsCalls' <=> TextIsCalls) /\ (Contiguous' <=> Contiguous)
          /\ script' = script /\ (ReadOn(Events)' <=> ReadOn(Events))
      BY <1>2 DEF Events, TextIsCalls, Contiguous, ReadOn
    <2>3. QED BY <1>5, <1>12, <1>14, <2>1, <2>2 DEF Complete
  <1>16. NoError'
    BY <1>1, <1>5, <1>9 DEF NoError
  <1>17. PrefixOK'
    <2>1. Events' = Events
      BY <1>2 DEF Events
    <2>2. <<>> \o TextsOf(Events) = TextsOf(Events)
      BY <1>11
    <2>3. Begins(<<>>, TextsOf(Events)) /\ Begins(TextsOf(Events), TextsOf(Events))
      <3>1. <<>> \in Seq(STRING)
        OBVIOUS
      <3>2. QED BY <1>11, <1>13, <2>2, <3>1 DEF Begins
    <2>4. QED BY <1>14, <2>1, <2>3 DEF PrefixOK
  <1>18. ReadingOK' /\ EndOK'
    BY <1>1, <1>2, <1>7, <1>15, <1>16 DEF ReadingOK, EndOK
  <1>19. QED BY <1>10, <1>17, <1>18 DEF StreamInv

LEMMA SendChunkKeeps ==
  ASSUME StreamInv, SendChunk
  PROVE  StreamInv'
PROOF
  <1>1. StreamTyped
    BY DEF StreamInv
  <1> USE ScriptFacts
  <1> DEFINE h == Head(reader.out)
             rest == Tail(reader.out)
             stage == IF reader.stage = "sending" THEN "reading" ELSE "emitting"
  <1>2. /\ reader.stage \in {"sending", "emitting"} /\ reader.out # <<>>
        /\ Len(chunks) < script.capacity /\ chunks' = Append(chunks, h)
        /\ UNCHANGED <<script, got, cancelled>>
    BY DEF SendChunk
  <1>3. reader.out \in Seq(StreamEvents) /\ chunks \in Seq(StreamEvents)
    BY <1>1
  <1>4. /\ h \in StreamEvents /\ rest \in Seq(StreamEvents) /\ reader.out = <<h>> \o rest
        /\ Len(rest) = Len(reader.out) - 1 /\ Range(reader.out) = {h} \cup Range(rest)
        /\ Len(reader.out) \in Nat
    BY <1>2, <1>3, HeadTail
  <1>5. IsReader(reader', stage, reader.at, reader.texts, reader.calls, rest)
    <2>1. reader' = [stage |-> stage, at |-> reader.at, texts |-> reader.texts,
                     calls |-> reader.calls, out |-> rest]
      BY <1>1, <1>2 DEF ReaderRec, SendChunk
    <2>2. reader.texts \in Seq(STRING) /\ reader.calls \in Seq(StreamEvents) /\ reader.at \in Nat
      BY <1>1
    <2>3. stage \in {"reading", "sending", "emitting", "failing", "closed"}
      OBVIOUS
    <2> HIDE DEF stage, rest, h
    <2>4. QED BY <1>4, <2>1, <2>2, <2>3, ReaderIs
  <1>6. /\ reader' \in ReaderRec /\ reader'.at = reader.at /\ reader'.texts = reader.texts
        /\ reader'.calls = reader.calls /\ reader'.out = rest
        /\ reader'.stage = IF reader.stage = "sending" THEN "reading" ELSE "emitting"
    BY <1>5 DEF IsReader
  <1> HIDE DEF rest, h, stage
  <1>7. InFlight' = InFlight
    <2> DEFINE one == <<h>>
    <2>1. one \in Seq(StreamEvents) /\ chunks' = chunks \o one /\ reader.out = one \o rest
      BY <1>2, <1>3, <1>4
    <2> HIDE DEF one
    <2>2. (chunks \o one) \o rest = chunks \o (one \o rest)
      BY SMTT(40), <1>3, <1>4, <2>1, Concats
    <2>3. QED BY <1>6, <2>1, <2>2 DEF InFlight
  <1>8. PassedTexts' = PassedTexts /\ PassedCalls' = PassedCalls /\ (NoError' <=> NoError)
    BY <1>1, <1>2, <1>7, FlowSame
  <1>9. Events' = Events /\ Seen' = Seen
    BY <1>2, <1>6 DEF Events, Seen
  <1>10. StreamTyped'
    <2>1. chunks' \in Seq(StreamEvents) /\ Len(chunks') = Len(chunks) + 1
          /\ Range(chunks') = Range(chunks) \cup {h}
      BY <1>2, <1>3, <1>4, RangeAppend
    <2>2. Len(chunks) \in Nat /\ script.capacity \in Nat
      BY <1>1, <1>3
    <2>3. Len(chunks') <= script'.capacity
      BY <1>2, <2>1, <2>2
    <2>4. /\ script \in Scripts /\ reader.at \in 1..(Len(Events) + 1) /\ got \in GotRec /\ cancelled \in BOOLEAN
          /\ Range(chunks) \subseteq ChunkSet /\ Range(reader.out) \subseteq ChunkSet
          /\ Range(reader.calls) \subseteq CallSet
      BY <1>1 DEF StreamTyped
    <2>5. QED BY <1>2, <1>4, <1>6, <1>9, <2>1, <2>3, <2>4 DEF StreamTyped
  <1>11. PrefixOK'
    BY <1>8, <1>9 DEF PrefixOK, StreamInv
  <1>12. CASE reader.stage = "sending"
    <2>1. /\ NoError /\ ReadOn(Seen) /\ got.result = "none" /\ CallsKept
          /\ Len(reader.out) = 1 /\ PassedCalls = <<>>
          /\ (script.service = "ollama" => PassedTexts = <<>> /\ reader.texts = TextsOf(Seen))
          /\ (script.service # "ollama" => PassedTexts = TextsOf(Seen))
      BY <1>12 DEF StreamInv, ReadingOK
    <2>2. rest = <<>>
      <3>1. Len(rest) = 0
        BY <1>4, <2>1
      <3>2. QED BY <1>4, <3>1
    <2>3. CallsKept'
      BY <1>2, <1>6, <1>9, <2>1 DEF CallsKept, FirstParts
    <2>4. ReadOn(Seen)'
      BY <1>2, <1>9, <2>1 DEF ReadOn
    <2>5. ReadingOK'
      BY <1>2, <1>6, <1>8, <1>9, <1>12, <2>1, <2>2, <2>3, <2>4 DEF ReadingOK
    <2>6. EndOK'
      BY <1>2, <1>6, <1>12, <2>1 DEF EndOK
    <2>7. QED BY <1>10, <1>11, <2>5, <2>6 DEF StreamInv
  <1>13. CASE reader.stage = "emitting"
    <2>1. got.result = "none" /\ NoError /\ Complete
      BY <1>13 DEF StreamInv, EndOK
    <2>2. Complete'
      BY <1>2, <1>8, <2>1, CompleteSame
    <2>3. ReadingOK' /\ EndOK'
      BY <1>2, <1>6, <1>8, <1>13, <2>1, <2>2 DEF ReadingOK, EndOK
    <2>4. QED BY <1>10, <1>11, <2>3 DEF StreamInv
  <1>14. QED BY <1>2, <1>12, <1>13

(* A step of the reader that leaves what is in flight as it is.            *)
LEMMA ReportErrorKeeps ==
  ASSUME StreamInv, ReportError
  PROVE  StreamInv'
PROOF
  <1>1. /\ StreamTyped /\ NoError /\ got.result = "none" /\ PrefixOK
        /\ reader.stage = "failing" /\ reader.out = <<>>
    BY DEF StreamInv, EndOK, ReportError
  <1> USE ScriptFacts
  <1>2. UNCHANGED <<script, got, cancelled>>
    BY DEF ReportError
  <1>3. IsReader(reader', "closed", reader.at, reader.texts, reader.calls, <<>>)
    <2>1. reader' = [stage |-> "closed", at |-> reader.at, texts |-> reader.texts,
                     calls |-> reader.calls, out |-> <<>>]
      BY <1>1 DEF ReaderRec, ReportError
    <2>2. reader.texts \in Seq(STRING) /\ reader.calls \in Seq(StreamEvents) /\ reader.at \in Nat
          /\ <<>> \in Seq(StreamEvents)
      BY <1>1
    <2>3. "closed" \in {"reading", "sending", "emitting", "failing", "closed"}
      OBVIOUS
    <2>4. QED BY <2>1, <2>2, <2>3, ReaderIs
  <1>4. /\ reader' \in ReaderRec /\ reader'.stage = "closed" /\ reader'.at = reader.at
        /\ reader'.calls = reader.calls /\ reader'.out = <<>>
    BY <1>3 DEF IsReader
  <1>5. Events' = Events /\ chunks \in Seq(StreamEvents) /\ chunks \o <<>> = chunks /\ InFlight = chunks
    BY <1>1, <1>2 DEF Events, InFlight
  <1>6. CASE Len(chunks) < script.capacity /\ chunks' = Append(chunks, ErrorChunk)
    <2> DEFINE e == ErrorChunk
               one == <<e>>
    <2>1. /\ e \in StreamEvents /\ e.type = "error" /\ e.words = <<>> /\ e \in ChunkSet
      BY DEF ErrorChunk, ErrorEvent, Chunk, StreamEvents, ChunkSet
    <2> HIDE DEF e
    <2>2. one \in Seq(StreamEvents) /\ one = Append(<<>>, e) /\ chunks' = chunks \o one
          /\ chunks' = Append(chunks, e)
      BY <1>5, <1>6, <2>1 DEF e
    <2>3. TextsOf(one) = <<>>
      <3>1. <<>> \in Seq(StreamEvents) /\ <<>> \o <<>> = <<>>
        OBVIOUS
      <3>2. TextsOf(Append(<<>>, e)) = TextsOf(<<>>) \o e.words
        BY <2>1, <3>1, TextsAppend
      <3>3. QED BY <2>1, <2>2, <3>1, <3>2, TextsEmpty
    <2> HIDE DEF one
    <2>4. InFlight' = InFlight \o one
      <3>1. chunks' \o <<>> = chunks'
        BY <1>5, <2>1, <2>2
      <3>2. QED BY <1>4, <1>5, <2>2, <3>1 DEF InFlight
    <2>5. /\ PassedTexts' = PassedTexts \o TextsOf(one) /\ PassedTexts \in Seq(STRING)
          /\ Range(InFlight') = Range(InFlight) \cup Range(one)
      BY <1>1, <1>2, <2>2, <2>4, FlowMore
    <2>6. PassedTexts \o <<>> = PassedTexts
      BY <2>5
    <2>7. PrefixOK'
      BY <1>1, <1>5, <2>3, <2>5, <2>6 DEF PrefixOK
    <2>8. ~NoError'
      <3>1. Range(one) = {e}
        BY DEF Range, one
      <3>2. QED BY <2>1, <2>5, <3>1 DEF NoError
    <2>9. StreamTyped'
      <3>1. chunks' \in Seq(StreamEvents) /\ Len(chunks') = Len(chunks) + 1
            /\ Range(chunks') = Range(chunks) \cup {e}
        <4>1. chunks \in Seq(StreamEvents) /\ e \in StreamEvents
          BY <1>5, <2>1
        <4>2. Range(Append(chunks, e)) = Range(chunks) \cup {e}
          BY <4>1, RangeAppend
        <4>3. Append(chunks, e) \in Seq(StreamEvents) /\ Len(Append(chunks, e)) = Len(chunks) + 1
          BY <4>1
        <4>4. QED BY <2>2, <4>2, <4>3
      <3>2. Len(chunks) \in Nat /\ script.capacity \in Nat
        BY <1>1, <1>5
      <3>3. Len(chunks') <= script'.capacity
        BY <1>2, <1>6, <3>1, <3>2
      <3>4. Range(<<>>) = {}
        BY DEF Range
      <3>5. QED BY <1>1, <1>2, <1>4, <1>5, <2>1, <3>1, <3>3, <3>4 DEF StreamTyped
    <2>10. ReadingOK' /\ EndOK'
      BY <1>1, <1>2, <1>4, <2>8 DEF ReadingOK, EndOK
    <2>11. QED BY <2>7, <2>9, <2>10 DEF StreamInv
  <1>7. CASE cancelled /\ UNCHANGED chunks
    <2>1. InFlight' = InFlight
      BY <1>1, <1>4, <1>7 DEF InFlight
    <2>2. PassedTexts' = PassedTexts
      BY <1>1, <1>2, <2>1, FlowSame
    <2>3. PrefixOK'
      BY <1>1, <1>5, <2>2 DEF PrefixOK
    <2>4. StreamTyped'
      BY <1>1, <1>2, <1>4, <1>7, TypedKept DEF StreamTyped
    <2>5. ReadingOK' /\ EndOK'
      BY <1>1, <1>2, <1>4, <1>7 DEF ReadingOK, EndOK
    <2>6. QED BY <2>3, <2>4, <2>5 DEF StreamInv
  <1>8. QED BY <1>6, <1>7 DEF ReportError

LEMMA CloseStreamKeeps ==
  ASSUME StreamInv, CloseStream
  PROVE  StreamInv'
PROOF
  <1>1. /\ StreamTyped /\ NoError /\ got.result = "none" /\ PrefixOK /\ Complete
        /\ reader.stage = "emitting" /\ reader.out = <<>>
    BY DEF StreamInv, EndOK, CloseStream
  <1>2. UNCHANGED <<script, chunks, got, cancelled>> /\ reader' = [reader EXCEPT !.stage = "closed"]
    BY DEF CloseStream
  <1>3. reader' \in ReaderRec /\ reader'.stage = "closed" /\ reader'.at = reader.at
        /\ reader'.calls = reader.calls /\ reader'.out = <<>>
    BY <1>1, <1>2, ScriptFacts DEF ReaderRec
  <1>4. StreamTyped'
    BY <1>1, <1>2, <1>3, TypedKept DEF StreamTyped
  <1>5. PassedTexts' = PassedTexts /\ PassedCalls' = PassedCalls /\ Events' = Events
    <2>1. InFlight' = InFlight
      BY <1>1, <1>2, <1>3 DEF InFlight
    <2>2. QED BY <1>1, <1>2, <2>1, FlowSame DEF Events
  <1>6. PrefixOK' /\ Complete'
    BY <1>1, <1>2, <1>5, CompleteSame DEF PrefixOK
  <1>7. ReadingOK' /\ EndOK'
    BY <1>1, <1>2, <1>3, <1>6 DEF ReadingOK, EndOK
  <1>8. QED BY <1>4, <1>6, <1>7 DEF StreamInv

LEMMA StartStreamKeeps ==
  ASSUME StreamInv, StartStream
  PROVE  StreamInv'
PROOF
  <1>1. /\ StreamTyped /\ NoError /\ ReadOn(Seen) /\ got.result = "none" /\ PrefixOK /\ CallsKept
        /\ reader.stage = "idle" /\ reader.out = <<>> /\ PassedCalls = <<>>
        /\ (script.service = "ollama" => PassedTexts = <<>> /\ reader.texts = TextsOf(Seen))
        /\ (script.service # "ollama" => PassedTexts = TextsOf(Seen))
    BY DEF StreamInv, ReadingOK, StartStream
  <1>2. UNCHANGED <<script, chunks, got, cancelled>> /\ reader' = [reader EXCEPT !.stage = "reading"]
    BY DEF StartStream
  <1>3. reader' \in ReaderRec /\ reader'.stage = "reading" /\ reader'.at = reader.at
        /\ reader'.calls = reader.calls /\ reader'.out = <<>> /\ reader'.texts = reader.texts
    BY <1>1, <1>2, ScriptFacts DEF ReaderRec
  <1>4. StreamTyped'
    BY <1>1, <1>2, <1>3, TypedKept DEF StreamTyped
  <1>5. PassedTexts' = PassedTexts /\ PassedCalls' = PassedCalls /\ NoError' /\ Events' = Events
        /\ Seen' = Seen
    <2>1. InFlight' = InFlight
      BY <1>1, <1>2, <1>3 DEF InFlight
    <2>2. QED BY <1>1, <1>2, <1>3, <2>1, FlowSame DEF Events, Seen
  <1>6. PrefixOK' /\ CallsKept' /\ ReadOn(Seen)'
    BY <1>1, <1>2, <1>3, <1>5 DEF PrefixOK, CallsKept, FirstParts, ReadOn
  <1>7. ReadingOK' /\ EndOK'
    BY <1>1, <1>2, <1>3, <1>5, <1>6 DEF ReadingOK, EndOK
  <1>8. QED BY <1>4, <1>6, <1>7 DEF StreamInv

LEMMA CancelStreamKeeps ==
  ASSUME StreamInv, CancelStream
  PROVE  StreamInv'
PROOF
  <1>1. UNCHANGED <<script, reader, chunks, got>> /\ cancelled' = TRUE
    BY DEF CancelStream
  <1>2. /\ InFlight' = InFlight /\ Events' = Events /\ Seen' = Seen
    BY <1>1 DEF InFlight, Events, Seen
  <1>3. PassedTexts' = PassedTexts /\ PassedCalls' = PassedCalls /\ (NoError' <=> NoError)
    BY <1>1, <1>2 DEF PassedTexts, PassedCalls, NoError
  <1>4. StreamTyped'
    BY <1>1, <1>2 DEF StreamInv, StreamTyped
  <1>5. PrefixOK'
    BY <1>2, <1>3 DEF StreamInv, PrefixOK
  <1>6. Complete => Complete'
    BY <1>1, <1>3, CompleteSame
  <1>7. (CallsKept' <=> CallsKept) /\ (ReadOn(Seen)' <=> ReadOn(Seen))
    BY <1>1, <1>2 DEF CallsKept, FirstParts, ReadOn
  <1>8. ReadingOK'
    BY <1>1, <1>2, <1>3, <1>7 DEF StreamInv, ReadingOK
  <1>9. EndOK'
    BY <1>1, <1>3, <1>6 DEF StreamInv, EndOK
  <1>10. QED BY <1>4, <1>5, <1>8, <1>9 DEF StreamInv

LEMMA FailsKeep ==
  ASSUME StreamInv, ReadFails \/ SendCancelled
  PROVE  StreamInv'
PROOF
  <1>1. /\ reader.stage \in {"reading", "sending", "emitting"}
        /\ reader' = Failing(reader) /\ UNCHANGED <<script, chunks, got, cancelled>>
    BY DEF ReadFails, SendCancelled
  <1>2. QED BY <1>1, FailingKeeps

(* What is received with a chunk.                                          *)
LEMMA GotIs ==
  ASSUME NEW g, NEW texts \in Seq(STRING), NEW all \in Seq(StreamEvents),
         NEW result \in {"none", "ok", "error"},
         g = [texts |-> texts, calls |-> all, result |-> result]
  PROVE  g \in GotRec /\ g.texts = texts /\ g.calls = all /\ g.result = result
PROOF BY DEF GotRec

LEMMA TakeFacts ==
  ASSUME got \in GotRec, got.result = "none", NEW h \in ChunkSet, got' = Take(h)
  PROVE  /\ got' \in GotRec /\ got'.texts = got.texts \o h.words
         /\ got'.calls = IF h.type = "call" THEN Append(got.calls, h) ELSE got.calls
         /\ got'.result = IF h.type = "error" THEN "error" ELSE "none"
PROOF
  <1>1. /\ h \in StreamEvents /\ h.type \in {"text", "call", "error"} /\ h.words \in Seq(STRING)
        /\ (h.type # "text" => h.words = <<>>)
    BY DEF ChunkSet, StreamEvents
  <1>2. got.texts \in Seq(STRING) /\ got.calls \in Seq(StreamEvents)
        /\ got = [texts |-> got.texts, calls |-> got.calls, result |-> "none"]
    BY DEF GotRec
  <1>3. /\ got.texts \o h.words \in Seq(STRING) /\ got.texts \o <<>> = got.texts
        /\ Append(got.calls, h) \in Seq(StreamEvents)
    <2>1. got.texts \o h.words \in Seq(STRING)
      BY <1>1, <1>2, Concats
    <2>2. got.texts \o <<>> = got.texts
      BY <1>2
    <2>3. Append(got.calls, h) \in Seq(StreamEvents)
      BY <1>1, <1>2
    <2>4. QED BY <2>1, <2>2, <2>3
  <1> DEFINE more == got.texts \o h.words
             all == Append(got.calls, h)
  <1>a. more \in Seq(STRING) /\ all \in Seq(StreamEvents) /\ got.texts \in Seq(STRING)
        /\ got.calls \in Seq(StreamEvents) /\ "none" \in {"none", "ok", "error"}
        /\ "error" \in {"none", "ok", "error"}
    BY <1>2, <1>3 DEF more
  <1>4. CASE h.type = "text"
    <2>1. got' = [got EXCEPT !.texts = more]
      BY <1>4 DEF Take, IsCall
    <2>2. got' = [texts |-> more, calls |-> got.calls, result |-> "none"]
      <3> HIDE DEF more
      <3>1. QED BY <1>2, <2>1 DEF GotRec
    <2> HIDE DEF more
    <2>a. more \in Seq(STRING)
      BY <1>a
    <2>3. got' \in GotRec /\ got'.texts = more /\ got'.calls = got.calls /\ got'.result = "none"
      BY <1>a, <2>a, <2>2, GotIs
    <2>4. QED BY <1>4, <2>3 DEF more
  <1>5. CASE h.type = "call"
    <2>1. got' = [got EXCEPT !.calls = all]
      BY <1>5 DEF Take, IsCall
    <2>2. got' = [texts |-> got.texts, calls |-> all, result |-> "none"]
      <3> HIDE DEF all
      <3>1. QED BY <1>2, <2>1 DEF GotRec
    <2> HIDE DEF all
    <2>3. got' \in GotRec /\ got'.texts = got.texts /\ got'.calls = all /\ got'.result = "none"
      BY <1>a, <2>2, GotIs
    <2>4. QED BY <1>1, <1>3, <1>5, <2>3 DEF all
  <1>6. CASE h.type = "error"
    <2>1. got' = [got EXCEPT !.result = "error"]
      BY <1>6 DEF Take, IsCall
    <2>2. got' = [texts |-> got.texts, calls |-> got.calls, result |-> "error"]
      BY <1>2, <2>1 DEF GotRec
    <2>3. got' \in GotRec /\ got'.texts = got.texts /\ got'.calls = got.calls /\ got'.result = "error"
      BY <1>a, <2>2, GotIs
    <2>4. QED BY <1>1, <1>3, <1>6, <2>3
  <1>7. QED BY <1>1, <1>4, <1>5, <1>6

(* The first chunk of the channel is taken.                                *)
LEMMA TakeChunkKeeps ==
  ASSUME StreamInv, got.result = "none", chunks # <<>>, got' = Take(Head(chunks)),
         chunks' = Tail(chunks), UNCHANGED <<script, reader, cancelled>>
  PROVE  StreamInv'
PROOF
  <1>1. StreamTyped /\ PrefixOK
    BY DEF StreamInv
  <1> USE ScriptFacts
  <1> DEFINE h == Head(chunks)
             one == <<h>>
             f == InFlight'
             a == got.texts
             b == got.calls
  <1>2. /\ chunks \in Seq(StreamEvents) /\ reader.out \in Seq(StreamEvents)
        /\ a \in Seq(STRING) /\ b \in Seq(StreamEvents)
    BY <1>1
  <1>3. /\ h \in StreamEvents /\ chunks' \in Seq(StreamEvents) /\ chunks = one \o chunks'
        /\ Len(chunks') = Len(chunks) - 1 /\ Range(chunks) = {h} \cup Range(chunks')
        /\ Len(chunks) \in Nat
    BY <1>2, HeadTail
  <1>4. h \in ChunkSet /\ Range(chunks') \subseteq ChunkSet
    BY <1>1, <1>3 DEF StreamTyped
  <1>5. /\ h.type \in {"text", "call", "error"} /\ h.words \in Seq(STRING)
        /\ (h.type # "text" => h.words = <<>>)
    BY <1>4 DEF ChunkSet, StreamEvents
  <1>6. got' = Take(h) /\ got \in GotRec
    BY <1>1
  <1> HIDE DEF h
  <1>7. one \in Seq(StreamEvents) /\ Range(one) = {h} /\ one = Append(<<>>, h)
    BY <1>3 DEF Range
  <1>8. TextsOf(one) = h.words /\ CallsOf(one) = IF h.type = "call" THEN one ELSE <<>>
    <2>1. <<>> \in Seq(StreamEvents) /\ <<>> \o h.words = h.words
      BY <1>5
    <2>2. TextsOf(Append(<<>>, h)) = TextsOf(<<>>) \o h.words
      BY <1>3, <2>1, TextsAppend
    <2>3. /\ CallsOf(Append(<<>>, h)) = IF h.type = "call" THEN Append(CallsOf(<<>>), h) ELSE CallsOf(<<>>)
          /\ CallsOf(<<>>) = <<>>
      BY <1>3, <2>1, CallsFacts
    <2>4. QED BY <1>7, <2>1, <2>2, <2>3, TextsEmpty
  <1>9. /\ got' \in GotRec /\ got'.texts = a \o h.words /\ got'.calls = b \o CallsOf(one)
        /\ got'.result = IF h.type = "error" THEN "error" ELSE "none"
    <2>1. /\ got' \in GotRec /\ got'.texts = a \o h.words
          /\ got'.calls = IF h.type = "call" THEN Append(b, h) ELSE b
          /\ got'.result = IF h.type = "error" THEN "error" ELSE "none"
      BY <1>4, <1>6, TakeFacts
    <2>2. b \o <<>> = b /\ b \o one = Append(b, h)
      BY SMTT(40), <1>2, <1>3
    <2>3. QED BY <1>8, <2>1, <2>2
  <1>10. InFlight = one \o f /\ f \in Seq(StreamEvents)
    <2>1. f = chunks' \o reader.out
      BY DEF InFlight
    <2> HIDE DEF one
    <2>2. chunks' \o reader.out \in Seq(StreamEvents)
      BY <1>2, <1>3, Concats
    <2>3. (one \o chunks') \o reader.out = one \o (chunks' \o reader.out)
      BY SMTT(40), <1>2, <1>3, <1>7, Concats
    <2>4. QED BY <1>3, <2>1, <2>2, <2>3 DEF InFlight
  <1> DEFINE t == TextsOf(f)
             c == CallsOf(f)
             w == h.words
             k == CallsOf(one)
  <1>11. /\ TextsOf(InFlight) = w \o t /\ CallsOf(InFlight) = k \o c
         /\ t \in Seq(STRING) /\ c \in Seq(StreamEvents) /\ k \in Seq(StreamEvents) /\ w \in Seq(STRING)
    <2> HIDE DEF one, f
    <2>1. TextsOf(one \o f) = TextsOf(one) \o TextsOf(f) /\ TextsOf(f) \in Seq(STRING)
      BY <1>7, <1>10, TextsConcat, TextsTyped
    <2>2. CallsOf(one \o f) = CallsOf(one) \o CallsOf(f) /\ CallsOf(f) \in Seq(StreamEvents)
          /\ CallsOf(one) \in Seq(StreamEvents)
      BY <1>7, <1>10, CallsConcat
    <2>3. QED BY <1>5, <1>8, <1>10, <2>1, <2>2
  <1>12. /\ PassedTexts' = got'.texts \o t /\ PassedCalls' = got'.calls \o c
         /\ PassedTexts = a \o TextsOf(InFlight) /\ PassedCalls = b \o CallsOf(InFlight)
    BY DEF PassedTexts, PassedCalls
  <1>13. Range(InFlight) = {h} \cup Range(f)
    <2> HIDE DEF one, f
    <2>1. one \in Seq(StreamEvents) /\ f \in Seq(StreamEvents)
      BY <1>7, <1>10
    <2>2. Range(one \o f) = Range(one) \cup Range(f)
      BY <2>1, RangeConcat
    <2>3. QED BY <1>7, <1>10, <2>2
  <1> HIDE DEF a, b, t, c, w, k, one, f
  <1>14. PassedTexts' = PassedTexts /\ PassedCalls' = PassedCalls
    <2>a. a \in Seq(STRING) /\ w \in Seq(STRING) /\ t \in Seq(STRING)
      BY <1>2, <1>11
    <2>b. b \in Seq(StreamEvents) /\ k \in Seq(StreamEvents) /\ c \in Seq(StreamEvents)
      BY <1>2, <1>11
    <2>1. (a \o w) \o t = a \o (w \o t)
      BY <2>a, Concats
    <2>2. (b \o k) \o c = b \o (k \o c)
      BY SMTT(40), <2>b, Concats
    <2>3. got'.texts = a \o w /\ got'.calls = b \o k
      BY <1>9 DEF w, k
    <2>4. QED BY <1>11, <1>12, <2>1, <2>2, <2>3
  <1>15. /\ NoError => NoError' /\ got'.result = "none"
         /\ ~NoError => ~NoError' \/ got'.result = "error"
    BY <1>9, <1>13 DEF NoError, f
  <1>16. Events' = Events /\ Seen' = Seen
    BY SMTT(40) DEF Events, Seen
  <1>17. StreamTyped'
    <2>1. Len(chunks') <= script'.capacity
      <3>1. script.capacity \in Nat /\ Len(chunks) <= script.capacity
        BY <1>1 DEF StreamTyped
      <3>2. QED BY <1>3, <3>1
    <2>2. QED BY <1>1, <1>3, <1>4, <1>9, <1>16, <2>1 DEF StreamTyped
  <1>18. PrefixOK'
    BY <1>1, <1>14, <1>16 DEF PrefixOK
  <1>19. Complete => Complete'
    BY <1>14, CompleteSame
  <1>20. (CallsKept => CallsKept') /\ (ReadOn(Seen) => ReadOn(Seen)')
    BY <1>16 DEF CallsKept, FirstParts, ReadOn
  <1>21. ReadingOK'
    BY <1>14, <1>15, <1>16, <1>20 DEF StreamInv, ReadingOK
  <1>22. EndOK'
    BY <1>15, <1>19, <1>9 DEF StreamInv, EndOK
  <1>23. QED BY <1>17, <1>18, <1>21, <1>22 DEF StreamInv

LEMMA ConsumeKeeps ==
  ASSUME StreamInv, Consume
  PROVE  StreamInv'
PROOF
  <1>1. got.result = "none" /\ UNCHANGED <<script, reader, cancelled>>
    BY DEF Consume
  <1>2. CASE chunks # <<>> /\ got' = Take(Head(chunks)) /\ chunks' = Tail(chunks)
    BY <1>1, <1>2, TakeChunkKeeps
  <1>3. CASE /\ chunks = <<>> /\ reader.stage = "closed"
             /\ got' = [got EXCEPT !.result = "ok"] /\ UNCHANGED chunks
    <2>1. StreamTyped /\ got \in GotRec
      BY DEF StreamInv, StreamTyped
    <2>2. got' \in GotRec /\ got'.texts = got.texts /\ got'.calls = got.calls /\ got'.result = "ok"
      BY <1>3, <2>1 DEF GotRec
    <2>3. InFlight' = InFlight /\ InFlight = <<>>
      <3>1. reader.out = <<>>
        BY <1>3 DEF StreamInv, EndOK
      <3>2. <<>> \o <<>> = <<>>
        OBVIOUS
      <3>3. QED BY <1>1, <1>3, <3>1, <3>2 DEF InFlight
    <2>4. /\ PassedTexts' = PassedTexts /\ PassedCalls' = PassedCalls /\ (NoError' <=> NoError)
          /\ Events' = Events
      BY <1>1, <2>2, <2>3 DEF PassedTexts, PassedCalls, NoError, Events
    <2>5. NoError
      <3>1. Range(<<>>) = {}
        BY DEF Range
      <3>2. QED BY <2>3, <3>1 DEF NoError
    <2>6. StreamTyped'
      BY <1>1, <1>3, <2>1, <2>2, <2>4 DEF StreamTyped
    <2>7. PrefixOK'
      BY <2>4 DEF PrefixOK, StreamInv
    <2>8. Complete => Complete'
      BY <1>1, <2>4, CompleteSame
    <2>9. ReadingOK' /\ EndOK'
      BY <1>1, <1>3, <2>2, <2>4, <2>5, <2>8 DEF StreamInv, ReadingOK, EndOK
    <2>10. QED BY <2>6, <2>7, <2>9 DEF StreamInv
  <1>4. QED BY <1>2, <1>3 DEF Consume

LEMMA InitStream ==
  ASSUME Init
  PROVE  StreamInv
PROOF
  <1>1. /\ script \in Scripts /\ chunks = <<>> /\ cancelled = FALSE
        /\ reader = [stage |-> "idle", at |-> 1, texts |-> <<>>, calls |-> <<>>, out |-> <<>>]
        /\ got = [texts |-> <<>>, calls |-> <<>>, result |-> "none"]
    <2>1. script \in Scripts
      BY ScriptsAssumption DEF Init, AScript
    <2>2. QED BY <2>1 DEF Init, StreamInit
  <1>2. Range(<<>>) = {} /\ <<>> \o <<>> = <<>> /\ <<>> \in Seq(StreamEvents) /\ <<>> \in Seq(STRING)
        /\ Len(<<>>) = 0
    BY DEF Range
  <1>3. Events \in Seq(StreamEvents) /\ script.capacity \in Nat \ {0}
        /\ script.service \in {"openai", "anthropic", "google", "ollama"}
    BY <1>1, ScriptsAssumption DEF Events
  <1>4. StreamTyped
    <2>1. reader.at \in 1..(Len(Events) + 1)
      BY <1>1, <1>3
    <2>2. reader \in ReaderRec /\ got \in GotRec
      BY <1>1, <1>2 DEF ReaderRec, GotRec
    <2>3. 0 <= script.capacity
      BY <1>3
    <2>4. QED BY <1>1, <1>2, <2>1, <2>2, <2>3 DEF StreamTyped
  <1>5. Seen = <<>> /\ InFlight = <<>>
    <2>1. Seen = SubSeq(Events, 1, 0)
      BY <1>1 DEF Seen, Events
    <2>2. SubSeq(Events, 1, 0) = <<>>
      BY <1>3
    <2>3. QED BY <1>1, <1>2, <2>1, <2>2 DEF InFlight
  <1>6. TextsOf(<<>>) = <<>> /\ CallsOf(<<>>) = <<>>
    BY <1>2, TextsEmpty, CallsConcat
  <1>7. PassedTexts = <<>> /\ PassedCalls = <<>> /\ NoError
    BY <1>1, <1>2, <1>5, <1>6 DEF PassedTexts, PassedCalls, NoError
  <1>8. ReadOn(Seen) /\ CallsKept
    <2>1. IsInjective(<<>>)
      BY DEF IsInjective
    <2>2. FirstParts(<<>>) = {}
      BY <1>2 DEF FirstParts
    <2>3. QED BY <1>1, <1>2, <1>5, <1>6, <2>1, <2>2 DEF ReadOn, CallsKept
  <1>9. PrefixOK
    <2>1. TextsOf(Events) \in Seq(STRING)
      BY <1>3, TextsTyped
    <2>2. <<>> \o TextsOf(Events) = TextsOf(Events)
      BY <2>1
    <2>3. QED BY <1>2, <1>7, <2>1, <2>2 DEF PrefixOK, Begins
  <1>10. ReadingOK /\ EndOK
    BY <1>1, <1>5, <1>6, <1>7, <1>8 DEF ReadingOK, EndOK
  <1>11. QED BY <1>4, <1>9, <1>10 DEF StreamInv

LEMMA NextStream ==
  ASSUME StreamInv, [Next]_vars
  PROVE  StreamInv'
PROOF
  <1>1. CASE ReaderStep
    BY <1>1, StartStreamKeeps, ReadEventKeeps, ReadEndKeeps, FailsKeep, SendChunkKeeps,
       ReportErrorKeeps, CloseStreamKeeps DEF ReaderStep
  <1>2. CASE Consume
    BY <1>2, ConsumeKeeps
  <1>3. CASE CancelStream
    BY <1>3, CancelStreamKeeps
  <1>4. CASE UNCHANGED streamVars
    BY <1>4 DEF streamVars, StreamInv, StreamTyped, ReadingOK, EndOK, PrefixOK, Begins, Complete,
                CallsKept, ReadOn, FirstParts, NoError, PassedTexts, PassedCalls, InFlight, Seen,
                Events, TextIsCalls, Contiguous
  <1>5. QED BY <1>1, <1>2, <1>3, <1>4
            DEF Next, vars, Client_, Stream_, Wire_, Feed_, Remote_

LEMMA StreamInvFaithful ==
  ASSUME StreamInv
  PROVE  StreamFaithful
PROOF
  <1>1. StreamTyped
    BY DEF StreamInv
  <1> USE ScriptFacts
  <1>2. /\ got.texts \in Seq(STRING) /\ got.calls \in Seq(StreamEvents)
        /\ InFlight \in Seq(StreamEvents) /\ TextsOf(InFlight) \in Seq(STRING)
        /\ Events \in Seq(StreamEvents) /\ TextsOf(Events) \in Seq(STRING)
    BY <1>1, TextsTyped
  <1>3. IsPrefix(got.texts, TextsOf(script.events))
    <2> DEFINE a == got.texts
               b == TextsOf(InFlight)
               t == TextsOf(Events)
    <2>1. a \in Seq(STRING) /\ b \in Seq(STRING) /\ t \in Seq(STRING)
      BY <1>2
    <2>2. Begins(a \o b, t)
      BY DEF StreamInv, PrefixOK, PassedTexts
    <2>a. TextsOf(script.events) = t
      BY DEF Events
    <2> HIDE DEF a, b, t
    <2>3. Begins(a, t)
      BY <2>1, <2>2, BeginsLess
    <2>4. PICK rest \in Seq(STRING) : t = a \o rest
      BY <2>3 DEF Begins
    <2>5. /\ Len(a) \in Nat /\ Len(rest) \in Nat /\ Len(a \o rest) = Len(a) + Len(rest)
          /\ \A i \in 1..Len(a) : (a \o rest)[i] = a[i]
      BY <2>1, ConcatPlaces
    <2>6. Len(a) <= Len(t) /\ SubSeq(a, 1, Len(a)) = a
      BY <2>1, <2>4, <2>5
    <2>7. SubSeq(t, 1, Len(a)) = a
      <3>1. Len(a) \in 0..Len(t)
        BY <2>5, <2>6
      <3>2. SubSeq(t, 1, Len(a)) \in Seq(STRING) /\ Len(SubSeq(t, 1, Len(a))) = Len(a)
        BY <2>1, <3>1, Beginnings
      <3>3. \A i \in 1..Len(a) : SubSeq(t, 1, Len(a))[i] = a[i]
        <4>1. \A i \in 1..Len(a) : SubSeq(t, 1, Len(a))[i] = t[i]
          BY <2>1, <3>1
        <4>2. QED BY <2>4, <2>5, <4>1
      <3>4. QED BY <2>1, <3>2, <3>3, SeqEqual
    <2>8. QED BY <2>6, <2>7, <2>a DEF IsPrefix, a
  <1>4. ASSUME got.result = "ok", ~cancelled
        PROVE  /\ PassedTexts = got.texts /\ PassedCalls = got.calls /\ Complete
    <2>1. reader.stage = "closed" /\ chunks = <<>> /\ reader.out = <<>>
          /\ (~NoError \/ Complete)
      BY <1>4 DEF StreamInv, EndOK
    <2>2. InFlight = <<>>
      <3>1. <<>> \o <<>> = <<>>
        OBVIOUS
      <3>2. QED BY <2>1, <3>1 DEF InFlight
    <2>3. NoError
      <3>1. Range(<<>>) = {}
        BY DEF Range
      <3>2. QED BY <2>2, <3>1 DEF NoError
    <2>4. TextsOf(<<>>) = <<>> /\ CallsOf(<<>>) = <<>>
      BY <1>2, TextsEmpty, CallsConcat
    <2>5. got.texts \o <<>> = got.texts /\ got.calls \o <<>> = got.calls
      BY <1>2
    <2>6. QED BY <2>1, <2>2, <2>3, <2>4, <2>5 DEF PassedTexts, PassedCalls
  <1>5. ASSUME got.result = "ok", ~cancelled
        PROVE  ~Has("refused") /\ (Has("error") => script.service \in {"openai", "anthropic"})
    <2>1. ReadOn(Events)
      BY <1>4, <1>5 DEF Complete
    <2>2. \A i \in DOMAIN script.events : script.events[i] \in Range(Events)
      BY DEF Events, Range
    <2>3. QED BY <2>1, <2>2 DEF ReadOn, Has
  <1>6. ASSUME got.result = "ok", ~cancelled
        PROVE  IF TextIsCalls
               THEN got.texts = <<>> /\ got.calls = Extracted(TextsOf(script.events))
               ELSE /\ WholeText
                    /\ (script.service = "openai" => Contiguous) => WholeCalls
    BY <1>4, <1>6 DEF Complete, WholeText, WholeCalls, Events
  <1>7. QED BY <1>3, <1>5, <1>6 DEF StreamFaithful

(***************************************************************************)
(* A response is what the service sent.  In every behaviour the text that  *)
(* consumeStream has received is the beginning of the text of the script,  *)
(* and a response of a run that was not cancelled has all the text and     *)
(* every call once, whatever the service, the capacity of the channel and  *)
(* the interleaving of the two goroutines (runner.go:394-424).             *)
(***************************************************************************)
THEOREM StreamsAreFaithful == Spec => []StreamFaithful
PROOF
  <1>1. StreamInv /\ [Next]_vars => StreamInv'
    BY NextStream
  <1>2. Init => StreamInv
    BY InitStream
  <1>3. StreamInv => StreamFaithful
    BY StreamInvFaithful
  <1>4. QED BY <1>1, <1>2, <1>3, PTL DEF Spec

(***************************************************************************)
(* Types.                                                                  *)
(***************************************************************************)
Stages == {"idle", "waiting", "reading", "done", "failed"}
Methods == {"initialize", "initialized", "tools/list", "tools/call", "nothing"}
Line == [id : Nat, to : Callers, method : Methods]
CallRec == [stage : Stages, step : 1..3, id : Nat, got : Seq(Line), cancelled : BOOLEAN]

RemoteTyped ==
  /\ lastId \in Nat
  /\ lock \in Callers \cup {"free"}
  /\ calls \in [Callers -> CallRec]

(***************************************************************************)
(* The parts of the invariant.                                             *)
(***************************************************************************)
Active(c) == calls[c].stage \in {"waiting", "reading"}

(* A call that is not over has had an answer for every step before its own. *)
StepsOK ==
  \A c \in Callers :
    /\ calls[c].step <= Len(Program(c))
    /\ calls[c].stage \in {"idle", "waiting", "reading"} => Len(calls[c].got) = calls[c].step - 1

(* Who reads holds the mutex, alone.                                       *)
LockOK == \A c \in Callers : calls[c].stage = "reading" <=> lock = c

(* The ids of those who wait and read are the client's, each its own, and  *)
(* only a notification has none.                                           *)
IdsOK ==
  /\ \A c \in Callers : Active(c) =>
       calls[c].id <= lastId /\ (calls[c].id = 0 <=> IsNotification(Method(c)))
  /\ \A c \in Callers : calls[c].stage = "reading" => calls[c].id # 0
  /\ \A c, d \in Callers :
       Active(c) /\ Active(d) /\ calls[c].id = calls[d].id /\ calls[c].id # 0 => c = d

(* A line on the wire with the id of a call is of that call.               *)
Honest(m) ==
  /\ m.id <= lastId
  /\ \A c \in Callers :
       Active(c) /\ calls[c].id = m.id /\ m.id # 0 => m.to = c /\ m.method = Method(c)
Good == {m \in Line : Honest(m)}
LinesOK == requests \in Seq(Good) /\ replies \in Seq(Good)

RemoteInv == RemoteTyped /\ StepsOK /\ LockOK /\ IdsOK /\ LinesOK /\ AnswersMatch

(***************************************************************************)
(* Sequences and records.                                                  *)
(***************************************************************************)
LEMMA SeqSteps ==
  ASSUME NEW S, NEW s \in Seq(S), NEW t \in Seq(S), NEW e \in S
  PROVE  /\ Append(s, e) \in Seq(S) /\ s \o t \in Seq(S) /\ <<e>> \in Seq(S) /\ <<>> \in Seq(S)
         /\ s # <<>> => Head(s) \in S /\ Tail(s) \in Seq(S)
PROOF OBVIOUS

LEMMA AppendFacts ==
  ASSUME NEW S, NEW s \in Seq(S), NEW e \in S
  PROVE  /\ Append(s, e) \in Seq(S) /\ Len(Append(s, e)) = Len(s) + 1
         /\ \A n \in DOMAIN s : Append(s, e)[n] = s[n]
         /\ Append(s, e)[Len(s) + 1] = e
         /\ DOMAIN Append(s, e) = 1..(Len(s) + 1) /\ DOMAIN s = 1..Len(s)
PROOF OBVIOUS

LEMMA CallerNames == "connect" \in Callers /\ "free" \notin Callers
PROOF BY ToolCallsAssumption DEF Callers

LEMMA NothingIsALine == Nothing \in Line /\ Nothing.id = 0
PROOF BY CallerNames DEF Nothing, Line, Methods

(* The programs of the callers.                                            *)
LEMMA ProgramFacts ==
  ASSUME NEW c \in Callers
  PROVE  /\ Len(Program(c)) \in 1..3
         /\ \A n \in 1..Len(Program(c)) : Program(c)[n] \in Methods
PROOF BY DEF Program, Methods

LEMMA MethodFacts ==
  ASSUME RemoteTyped, StepsOK, NEW c \in Callers
  PROVE  Method(c) = Program(c)[calls[c].step] /\ Method(c) \in Methods
         /\ calls[c].step \in 1..Len(Program(c))
PROOF
  <1>1. calls[c].step \in 1..3 /\ calls[c].step <= Len(Program(c))
    BY DEF RemoteTyped, StepsOK, CallRec
  <1>2. calls[c].step \in 1..Len(Program(c))
    BY <1>1, ProgramFacts
  <1>3. QED BY <1>2, ProgramFacts DEF Method

(* A call that began: it waits with its id.                                *)
LEMMA BegunRec ==
  ASSUME NEW k \in CallRec, NEW id \in Nat
  PROVE  LET l == [k EXCEPT !.stage = "waiting", !.id = id] IN
         /\ l \in CallRec /\ l.stage = "waiting" /\ l.id = id
         /\ l.step = k.step /\ l.got = k.got
PROOF BY DEF CallRec, Stages

(* A call that ends: one more answer, and nobody's turn any more.          *)
LEMMA EndedRec ==
  ASSUME NEW c \in Callers, RemoteTyped, NEW reply \in Line, NEW ok \in BOOLEAN,
         calls[c].step \in 1..Len(Program(c))
  PROVE  \E l \in CallRec :
           /\ Ended(c, reply, ok) = [calls EXCEPT ![c] = l]
           /\ l.got = Append(calls[c].got, reply)
           /\ \/ l.stage = "idle" /\ l.step = calls[c].step + 1 /\ l.step <= Len(Program(c))
              \/ l.stage \in {"done", "failed"} /\ l.step = calls[c].step
PROOF
  <1> DEFINE k == [calls[c] EXCEPT !.got = Append(@, reply)]
             more == ok /\ ~(calls[c].step = Len(Program(c)))
             on == [k EXCEPT !.stage = "idle", !.step = @ + 1]
             over == [k EXCEPT !.stage = IF ok THEN "done" ELSE "failed"]
  <1>0. calls[c] \in CallRec
    BY DEF RemoteTyped
  <1>1. Append(calls[c].got, reply) \in Seq(Line)
    BY <1>0, AppendFacts DEF CallRec
  <1>2. k \in CallRec /\ k.got = Append(calls[c].got, reply) /\ k.step = calls[c].step
    BY <1>0, <1>1 DEF CallRec
  <1>3. Ended(c, reply, ok) = [calls EXCEPT ![c] = IF more THEN on ELSE over]
    BY DEF Ended
  <1> HIDE DEF k
  <1>4. over \in CallRec /\ over.got = k.got /\ over.step = k.step /\ over.stage \in {"done", "failed"}
    BY <1>2 DEF CallRec, Stages
  <1>5. CASE more
    <2>1. k.step + 1 \in 1..3 /\ k.step + 1 <= Len(Program(c))
      BY <1>2, <1>5, ProgramFacts
    <2>2. \A n \in 1..3 : [k EXCEPT !.stage = "idle", !.step = n] \in CallRec
            /\ [k EXCEPT !.stage = "idle", !.step = n].step = n
            /\ [k EXCEPT !.stage = "idle", !.step = n].got = k.got
            /\ [k EXCEPT !.stage = "idle", !.step = n].stage = "idle"
      <3> TAKE n \in 1..3
      <3>1. QED BY <1>2 DEF CallRec, Stages
    <2>3. on \in CallRec /\ on.step = k.step + 1 /\ on.got = k.got /\ on.stage = "idle"
      BY <2>1, <2>2
    <2> HIDE DEF on, over
    <2>4. QED BY <1>2, <1>3, <1>5, <2>1, <2>3
  <1>6. CASE ~more
    <2> HIDE DEF on, over
    <2>1. QED BY <1>2, <1>3, <1>4, <1>6
  <1>7. QED BY <1>5, <1>6

(***************************************************************************)
(* What the actions have in common.                                        *)
(***************************************************************************)

(* Lines stay honest while ids only grow and nobody else becomes active.   *)
LEMMA HonestStays ==
  ASSUME RemoteInv, lastId' \in Nat, lastId' >= lastId,
         \A c \in Callers : Active(c)' =>
           \/ Active(c) /\ calls'[c].id = calls[c].id /\ Method(c)' = Method(c)
           \/ calls'[c].id = 0 \/ calls'[c].id > lastId
  PROVE  Good \subseteq Good'
PROOF
  <1> SUFFICES ASSUME NEW m \in Good PROVE m \in Line /\ Honest(m)'
    BY DEF Good
  <1>1. m \in Line /\ Honest(m) /\ m.id \in Nat /\ m.id <= lastId /\ lastId \in Nat
    BY DEF Good, Honest, Line, RemoteInv, RemoteTyped
  <1>2. m.id <= lastId'
    BY <1>1
  <1>3. ASSUME NEW c \in Callers, Active(c)', calls'[c].id = m.id, m.id # 0
        PROVE  m.to = c /\ m.method = Method(c)'
    BY <1>1, <1>3 DEF Honest
  <1>4. QED BY <1>1, <1>2, <1>3 DEF Honest

LEMMA SameCallsSame ==
  ASSUME RemoteInv, calls' = calls, lastId' = lastId
  PROVE  StepsOK' /\ IdsOK' /\ AnswersMatch' /\ Good' = Good
         /\ calls' \in [Callers -> CallRec] /\ lastId' \in Nat
PROOF
  BY DEF RemoteInv, RemoteTyped, StepsOK, IdsOK, AnswersMatch, Good, Honest, Active, Method

(* An active call ends with nothing or with its own answer.                *)
LEMMA EndedKeeps ==
  ASSUME RemoteInv, NEW c \in Callers, Active(c), NEW reply \in Line, NEW ok \in BOOLEAN,
         calls' = Ended(c, reply, ok), lastId' = lastId,
         reply = Nothing \/ (reply.to = c /\ reply.method = Method(c))
  PROVE  /\ calls' \in [Callers -> CallRec] /\ StepsOK' /\ IdsOK' /\ AnswersMatch'
         /\ Good \subseteq Good' /\ ~Active(c)'
         /\ \A d \in Callers : d # c => calls'[d] = calls[d]
PROOF
  <1>0. /\ RemoteTyped /\ StepsOK /\ IdsOK /\ AnswersMatch
        /\ calls \in [Callers -> CallRec] /\ lastId \in Nat
        /\ calls[c] \in CallRec
    BY DEF RemoteInv, RemoteTyped
  <1>1. calls[c].step \in 1..Len(Program(c)) /\ Method(c) = Program(c)[calls[c].step]
    BY <1>0, MethodFacts
  <1>2. PICK l \in CallRec :
          /\ calls' = [calls EXCEPT ![c] = l]
          /\ l.got = Append(calls[c].got, reply)
          /\ \/ l.stage = "idle" /\ l.step = calls[c].step + 1 /\ l.step <= Len(Program(c))
             \/ l.stage \in {"done", "failed"} /\ l.step = calls[c].step
    BY <1>0, <1>1, EndedRec
  <1>3. calls' \in [Callers -> CallRec] /\ calls'[c] = l
        /\ \A d \in Callers : d # c => calls'[d] = calls[d]
    BY <1>0, <1>2
  <1>4. ~Active(c)'
    BY <1>2, <1>3 DEF Active
  <1>5. \A d \in Callers : d # c => Method(d)' = Method(d) /\ Active(d)' = Active(d)
    BY <1>3 DEF Method, Active
  <1>6. calls[c].got \in Seq(Line) /\ Len(calls[c].got) = calls[c].step - 1 /\ calls[c].step \in 1..3
    BY <1>0 DEF CallRec, StepsOK, Active
  <1>7. StepsOK'
    <2>1. Len(l.got) = calls[c].step
      BY <1>2, <1>6, AppendFacts
    <2>2. l.step <= Len(Program(c)) /\ (l.stage \in {"idle", "waiting", "reading"} => Len(l.got) = l.step - 1)
      BY <1>1, <1>2, <1>6, <2>1
    <2>3. QED BY <1>0, <1>3, <2>2 DEF StepsOK
  <1>8. IdsOK'
    BY <1>0, <1>3, <1>4, <1>5 DEF IdsOK, Active
  <1>9. AnswersMatch'
    <2> SUFFICES ASSUME NEW d \in Callers, NEW n \in DOMAIN calls'[d].got
                 PROVE  calls'[d].got[n] = Nothing
                        \/ (calls'[d].got[n].to = d /\ calls'[d].got[n].method = Program(d)[n])
      BY DEF AnswersMatch
    <2>1. CASE d # c
      BY <1>0, <1>3, <2>1 DEF AnswersMatch
    <2>2. CASE d = c
      <3>1. n \in 1..calls[c].step /\ DOMAIN calls[c].got = 1..(calls[c].step - 1)
        BY <1>2, <1>3, <1>6, <2>2, AppendFacts
      <3>2. CASE n \in DOMAIN calls[c].got
        <4>1. calls'[d].got = Append(calls[c].got, reply)
          BY <1>2, <1>3, <2>2
        <4>2. calls'[d].got[n] = calls[c].got[n]
          BY <1>6, <3>2, <4>1, AppendFacts
        <4>3. QED BY <1>0, <2>2, <3>2, <4>2 DEF AnswersMatch
      <3>3. CASE n = calls[c].step
        <4>1. calls'[d].got[n] = reply
          BY <1>2, <1>3, <1>6, <2>2, <3>3, AppendFacts
        <4>2. QED BY <1>1, <2>2, <3>3, <4>1
      <3>4. QED BY <1>6, <3>1, <3>2, <3>3
    <2>3. QED BY <2>1, <2>2
  <1>10. Good \subseteq Good'
    BY <1>0, <1>3, <1>4, <1>5, HonestStays
  <1>11. QED BY <1>3, <1>4, <1>7, <1>8, <1>9, <1>10

(***************************************************************************)
(* The actions.                                                            *)
(***************************************************************************)
LEMMA BeginKeeps ==
  ASSUME RemoteInv, NEW c \in Callers, BeginCall(c)
  PROVE  RemoteInv'
PROOF
  <1> DEFINE id == IF IsNotification(Method(c)) THEN 0 ELSE lastId + 1
             l == [calls[c] EXCEPT !.stage = "waiting", !.id = id]
  <1>0. /\ RemoteTyped /\ StepsOK /\ LockOK /\ IdsOK /\ LinesOK /\ AnswersMatch
        /\ calls \in [Callers -> CallRec] /\ lastId \in Nat /\ calls[c] \in CallRec
    BY DEF RemoteInv, RemoteTyped
  <1>1. /\ calls[c].stage = "idle" /\ calls' = [calls EXCEPT ![c] = l]
        /\ lastId' = (IF id = 0 THEN lastId ELSE id)
        /\ UNCHANGED <<lock, requests, replies>>
    BY DEF BeginCall
  <1>2. id \in Nat /\ (id = 0 <=> IsNotification(Method(c))) /\ (id # 0 => id = lastId + 1)
    BY <1>0
  <1>3. l \in CallRec /\ l.stage = "waiting" /\ l.id = id /\ l.step = calls[c].step
        /\ l.got = calls[c].got
    BY ZenonT(60), <1>0, <1>2, BegunRec
  <1> HIDE DEF l, id
  <1>4. calls' \in [Callers -> CallRec] /\ calls'[c] = l
        /\ \A d \in Callers : d # c => calls'[d] = calls[d]
    BY <1>0, <1>1, <1>3
  <1>5. lastId' \in Nat /\ lastId' >= lastId /\ id <= lastId'
    BY <1>0, <1>1, <1>2
  <1>6. \A d \in Callers : /\ Method(d)' = Method(d)
                           /\ d # c => Active(d)' = Active(d)
    BY <1>3, <1>4 DEF Method, Active
  <1>7. RemoteTyped'
    BY <1>0, <1>1, <1>4, <1>5 DEF RemoteTyped
  <1>8. StepsOK'
    BY <1>0, <1>1, <1>3, <1>4 DEF StepsOK
  <1>9. LockOK'
    BY <1>0, <1>1, <1>3, <1>4 DEF LockOK
  <1>10. \A d \in Callers : Active(d) => calls[d].id <= lastId /\ calls[d].id \in Nat
    BY <1>0 DEF IdsOK, CallRec
  <1>11. IdsOK'
    <2>1. \A d \in Callers : Active(d)' =>
            calls'[d].id <= lastId' /\ (calls'[d].id = 0 <=> IsNotification(Method(d)'))
      BY <1>0, <1>2, <1>3, <1>4, <1>5, <1>6, <1>10 DEF IdsOK
    <2>2. \A d \in Callers : calls'[d].stage = "reading" => calls'[d].id # 0
      BY <1>0, <1>3, <1>4 DEF IdsOK
    <2>3. ASSUME NEW d \in Callers, NEW e \in Callers, Active(d)', Active(e)',
                 calls'[d].id = calls'[e].id, calls'[d].id # 0
          PROVE  d = e
      <3>1. CASE d # c /\ e # c
        BY <1>0, <1>4, <1>6, <2>3, <3>1 DEF IdsOK
      <3>2. CASE d = c \/ e = c
        BY <1>0, <1>2, <1>3, <1>4, <1>6, <1>10, <2>3, <3>2
      <3>3. QED BY <3>1, <3>2
    <2>4. QED BY <2>1, <2>2, <2>3 DEF IdsOK
  <1>12. Good \subseteq Good'
    <2>1. \A d \in Callers : Active(d)' =>
            \/ Active(d) /\ calls'[d].id = calls[d].id /\ Method(d)' = Method(d)
            \/ calls'[d].id = 0 \/ calls'[d].id > lastId
      BY <1>0, <1>2, <1>3, <1>4, <1>6
    <2>2. QED BY <1>5, <2>1, HonestStays
  <1>13. LinesOK'
    BY <1>0, <1>1, <1>12, SeqOfMore DEF LinesOK
  <1>14. AnswersMatch'
    BY <1>0, <1>3, <1>4 DEF AnswersMatch
  <1>15. QED BY <1>7, <1>8, <1>9, <1>11, <1>13, <1>14 DEF RemoteInv

LEMMA WriteKeeps ==
  ASSUME RemoteInv, NEW c \in Callers, WriteRequest(c)
  PROVE  RemoteInv'
PROOF
  <1> DEFINE m == [id |-> calls[c].id, to |-> c, method |-> Method(c)]
  <1>0. /\ RemoteTyped /\ StepsOK /\ LockOK /\ IdsOK /\ LinesOK /\ AnswersMatch
        /\ calls \in [Callers -> CallRec] /\ lastId \in Nat /\ calls[c] \in CallRec
    BY DEF RemoteInv, RemoteTyped
  <1>1. Active(c) /\ calls[c].stage = "waiting" /\ lock = "free" /\ UNCHANGED <<lastId, replies>>
    BY DEF WriteRequest, Active
  <1>2. m \in Line /\ Honest(m)
    <2>1. Method(c) \in Methods /\ calls[c].id \in Nat /\ calls[c].id <= lastId
      BY <1>0, <1>1, MethodFacts DEF CallRec, IdsOK
    <2>2. ASSUME NEW d \in Callers, Active(d), calls[d].id = m.id, m.id # 0 PROVE d = c
      BY <1>0, <1>1, <2>2 DEF IdsOK
    <2>3. QED BY <2>1, <2>2 DEF Line, Honest
  <1>3. m \in Good
    BY <1>2 DEF Good
  <1>4. CASE /\ requests' = Append(requests, m) /\ ~IsNotification(Method(c))
             /\ calls' = [calls EXCEPT ![c].stage = "reading"] /\ lock' = c
    <2> DEFINE l == [calls[c] EXCEPT !.stage = "reading"]
    <2>1. l \in CallRec /\ l.stage = "reading" /\ l.id = calls[c].id /\ l.step = calls[c].step
          /\ l.got = calls[c].got
      BY <1>0 DEF CallRec, Stages
    <2>2. calls' = [calls EXCEPT ![c] = l]
      BY <1>4
    <2> HIDE DEF l
    <2>3. calls' \in [Callers -> CallRec] /\ calls'[c] = l
          /\ \A d \in Callers : d # c => calls'[d] = calls[d]
      BY <1>0, <2>1, <2>2
    <2>4. \A d \in Callers : Method(d)' = Method(d) /\ Active(d)' = Active(d)
                             /\ calls'[d].id = calls[d].id
      BY <1>1, <2>1, <2>3 DEF Method, Active
    <2>5. RemoteTyped'
      BY <1>0, <1>1, <1>4, <2>3 DEF RemoteTyped
    <2>6. StepsOK'
      BY <1>0, <1>1, <2>1, <2>3 DEF StepsOK
    <2>7. LockOK'
      BY <1>0, <1>1, <1>4, <2>1, <2>3, CallerNames DEF LockOK
    <2>8. calls[c].id # 0
      BY <1>0, <1>1, <1>4 DEF IdsOK
    <2>9. IdsOK'
      BY <1>0, <1>1, <2>1, <2>3, <2>4, <2>8 DEF IdsOK
    <2>10. Good \subseteq Good'
      BY <1>0, <1>1, <2>4, HonestStays
    <2>11. LinesOK'
      BY <1>0, <1>1, <1>3, <1>4, <2>10, SeqOfMore, SeqSteps DEF LinesOK
    <2>12. AnswersMatch'
      BY <1>0, <2>1, <2>3 DEF AnswersMatch
    <2>13. QED BY <2>5, <2>6, <2>7, <2>9, <2>11, <2>12 DEF RemoteInv
  <1>5. ASSUME NEW ok \in BOOLEAN, calls' = Ended(c, Nothing, ok), lock' = lock,
               requests' \in {requests, Append(requests, m)}
        PROVE  RemoteInv'
    <2>1. /\ calls' \in [Callers -> CallRec] /\ StepsOK' /\ IdsOK' /\ AnswersMatch'
          /\ Good \subseteq Good' /\ ~Active(c)'
          /\ \A d \in Callers : d # c => calls'[d] = calls[d]
      BY <1>1, <1>5, NothingIsALine, EndedKeeps
    <2>2. RemoteTyped'
      BY <1>0, <1>1, <1>5, <2>1 DEF RemoteTyped
    <2>3. LockOK'
      BY <1>0, <1>1, <1>5, <2>1, CallerNames DEF LockOK, Active
    <2>4. LinesOK'
      <3>1. requests' \in Seq(Good) /\ replies' \in Seq(Good)
        BY <1>0, <1>1, <1>3, <1>5, AppendFacts DEF LinesOK
      <3>2. QED BY <2>1, <3>1, SeqOfMore DEF LinesOK
    <2>5. QED BY <2>1, <2>2, <2>3, <2>4 DEF RemoteInv
  <1>6. QED
    <2>1. IsNotification(Method(c)) \in BOOLEAN
      BY DEF IsNotification
    <2>2. \/ /\ requests' = Append(requests, m) /\ ~IsNotification(Method(c))
             /\ calls' = [calls EXCEPT ![c].stage = "reading"] /\ lock' = c
          \/ requests' = Append(requests, m) /\ calls' = Ended(c, Nothing, TRUE) /\ lock' = lock
          \/ /\ calls' = Ended(c, Nothing, IsNotification(Method(c)))
             /\ lock' = lock /\ requests' = requests
      BY DEF WriteRequest
    <2>3. QED BY <1>4, <1>5, <2>1, <2>2

LEMMA ServerKeeps ==
  ASSUME RemoteInv, ServerAnswers
  PROVE  RemoteInv'
PROOF
  <1>0. /\ RemoteTyped /\ StepsOK /\ LockOK /\ IdsOK /\ LinesOK /\ AnswersMatch
    BY DEF RemoteInv
  <1>1. /\ requests # <<>> /\ UNCHANGED <<lock, lastId, calls>> /\ requests' = Tail(requests)
        /\ \E noise \in {<<>>, <<Nothing>>} :
             replies' \in {replies \o noise, replies \o noise \o <<Head(requests)>>}
    BY DEF ServerAnswers
  <1>2. StepsOK' /\ IdsOK' /\ AnswersMatch' /\ Good' = Good
        /\ calls' \in [Callers -> CallRec] /\ lastId' \in Nat
    BY <1>1, SameCallsSame
  <1>3. Nothing \in Good
    BY <1>0, NothingIsALine DEF Good, Honest, RemoteTyped
  <1>4. Head(requests) \in Good /\ Tail(requests) \in Seq(Good)
    BY <1>0, <1>1, <1>3, SeqSteps DEF LinesOK
  <1>5. <<>> \in Seq(Good) /\ <<Nothing>> \in Seq(Good) /\ <<Head(requests)>> \in Seq(Good)
    BY <1>3, <1>4, <1>0, SeqSteps DEF LinesOK
  <1>6. \A noise \in {<<>>, <<Nothing>>} :
          replies \o noise \in Seq(Good) /\ replies \o noise \o <<Head(requests)>> \in Seq(Good)
    <2> TAKE noise \in {<<>>, <<Nothing>>}
    <2>1. replies \o noise \in Seq(Good)
      BY <1>0, <1>3, <1>5, SeqSteps DEF LinesOK
    <2>2. QED BY <1>3, <1>5, <2>1, SeqSteps
  <1>7. LinesOK'
    BY <1>1, <1>2, <1>4, <1>6 DEF LinesOK
  <1>8. LockOK' /\ RemoteTyped'
    BY <1>0, <1>1, <1>2 DEF LockOK, RemoteTyped
  <1>9. QED BY <1>2, <1>7, <1>8 DEF RemoteInv

LEMMA ReadKeeps ==
  ASSUME RemoteInv, NEW c \in Callers, ReadReply(c)
  PROVE  RemoteInv'
PROOF
  <1>0. /\ RemoteTyped /\ StepsOK /\ LockOK /\ IdsOK /\ LinesOK /\ AnswersMatch
    BY DEF RemoteInv
  <1>1. lock = c /\ replies # <<>> /\ replies' = Tail(replies) /\ UNCHANGED <<lastId, requests>>
        /\ calls[c].stage = "reading" /\ Active(c)
    BY <1>0 DEF ReadReply, LockOK, Active
  <1>2. Head(replies) \in Good /\ Tail(replies) \in Seq(Good)
    BY <1>0, <1>1, NothingIsALine, SeqSteps DEF LinesOK
  <1>3. CASE Matches(c, Head(replies))
    <2>1. PICK ok \in BOOLEAN : calls' = Ended(c, Head(replies), ok) /\ lock' = "free"
      BY <1>3 DEF ReadReply
    <2>2. Head(replies) \in Line /\ Head(replies).to = c /\ Head(replies).method = Method(c)
      BY <1>0, <1>1, <1>2, <1>3 DEF Matches, Good, Honest, IdsOK
    <2>3. /\ calls' \in [Callers -> CallRec] /\ StepsOK' /\ IdsOK' /\ AnswersMatch'
          /\ Good \subseteq Good' /\ ~Active(c)'
          /\ \A d \in Callers : d # c => calls'[d] = calls[d]
      BY <1>1, <2>1, <2>2, EndedKeeps
    <2>4. RemoteTyped'
      BY <1>0, <1>1, <2>1, <2>3 DEF RemoteTyped
    <2>5. LockOK'
      BY <1>0, <1>1, <2>1, <2>3, CallerNames DEF LockOK, Active
    <2>6. LinesOK'
      BY <1>0, <1>1, <1>2, <2>3, SeqOfMore DEF LinesOK
    <2>7. QED BY <2>3, <2>4, <2>5, <2>6 DEF RemoteInv
  <1>4. CASE ~Matches(c, Head(replies))
    <2>1. UNCHANGED <<calls, lock, lastId>>
      BY <1>1, <1>4 DEF ReadReply
    <2>2. StepsOK' /\ IdsOK' /\ AnswersMatch' /\ Good' = Good
          /\ calls' \in [Callers -> CallRec] /\ lastId' \in Nat
      BY <2>1, SameCallsSame
    <2>3. LinesOK' /\ LockOK' /\ RemoteTyped'
      BY <1>0, <1>1, <1>2, <2>1, <2>2 DEF LinesOK, LockOK, RemoteTyped
    <2>4. QED BY <2>2, <2>3 DEF RemoteInv
  <1>5. QED BY <1>3, <1>4

LEMMA BreakKeeps ==
  ASSUME RemoteInv, NEW c \in Callers, ReadBreaks(c)
  PROVE  RemoteInv'
PROOF
  <1>0. RemoteTyped /\ LockOK
    BY DEF RemoteInv
  <1>1. /\ lock = c /\ lock' = "free" /\ lastId' = lastId /\ calls' = Ended(c, Nothing, FALSE)
        /\ requests' = <<>> /\ replies' = <<>> /\ Active(c)
    BY <1>0 DEF ReadBreaks, LockOK, Active
  <1>2. /\ calls' \in [Callers -> CallRec] /\ StepsOK' /\ IdsOK' /\ AnswersMatch'
        /\ Good \subseteq Good' /\ ~Active(c)'
        /\ \A d \in Callers : d # c => calls'[d] = calls[d]
    BY <1>1, NothingIsALine, EndedKeeps
  <1>3. RemoteTyped' /\ LockOK'
    BY <1>0, <1>1, <1>2, CallerNames DEF RemoteTyped, LockOK, Active
  <1>4. <<>> \in Seq(Good')
    OBVIOUS
  <1>5. LinesOK'
    BY <1>1, <1>4 DEF LinesOK
  <1>6. QED BY <1>2, <1>3, <1>5 DEF RemoteInv

LEMMA CancelKeeps ==
  ASSUME RemoteInv, NEW c \in Callers, CancelCall(c)
  PROVE  RemoteInv'
PROOF
  <1> DEFINE l == [calls[c] EXCEPT !.cancelled = TRUE]
  <1>0. /\ RemoteTyped /\ StepsOK /\ LockOK /\ IdsOK /\ LinesOK /\ AnswersMatch
        /\ calls \in [Callers -> CallRec] /\ lastId \in Nat /\ calls[c] \in CallRec
    BY DEF RemoteInv, RemoteTyped
  <1>1. calls' = [calls EXCEPT ![c] = l] /\ UNCHANGED <<lock, lastId, requests, replies>>
    BY DEF CancelCall
  <1>2. l \in CallRec /\ l.stage = calls[c].stage /\ l.id = calls[c].id /\ l.step = calls[c].step
        /\ l.got = calls[c].got
    BY <1>0 DEF CallRec
  <1> HIDE DEF l
  <1>3. calls' \in [Callers -> CallRec]
        /\ \A d \in Callers : /\ calls'[d].stage = calls[d].stage /\ calls'[d].id = calls[d].id
                              /\ calls'[d].step = calls[d].step /\ calls'[d].got = calls[d].got
    BY <1>0, <1>1, <1>2
  <1>4. \A d \in Callers : Method(d)' = Method(d) /\ Active(d)' = Active(d)
    BY <1>3 DEF Method, Active
  <1>5. RemoteTyped' /\ StepsOK' /\ LockOK' /\ AnswersMatch'
    BY <1>0, <1>1, <1>3 DEF RemoteTyped, StepsOK, LockOK, AnswersMatch
  <1>6. IdsOK'
    BY <1>0, <1>1, <1>3, <1>4 DEF IdsOK
  <1>7. Good \subseteq Good'
    BY <1>0, <1>1, <1>3, <1>4, HonestStays
  <1>8. LinesOK'
    BY <1>0, <1>1, <1>7, SeqOfMore DEF LinesOK
  <1>9. QED BY <1>5, <1>6, <1>8 DEF RemoteInv

(* The server's process ends, or nothing of this happens.                  *)
LEMMA QuietKeeps ==
  ASSUME RemoteInv, UNCHANGED <<lock, lastId, replies, calls>>, requests' \in {requests, <<>>}
  PROVE  RemoteInv'
PROOF
  <1>1. StepsOK' /\ IdsOK' /\ AnswersMatch' /\ Good' = Good
        /\ calls' \in [Callers -> CallRec] /\ lastId' \in Nat
    BY SameCallsSame
  <1>2. RemoteTyped' /\ LockOK'
    BY <1>1 DEF RemoteInv, RemoteTyped, LockOK
  <1>3. <<>> \in Seq(Good) /\ requests \in Seq(Good) /\ replies \in Seq(Good)
    BY DEF RemoteInv, LinesOK
  <1>4. LinesOK'
    BY <1>1, <1>3 DEF LinesOK
  <1>5. QED BY <1>1, <1>2, <1>4 DEF RemoteInv

LEMMA InitRemote == Init => RemoteInv
PROOF
  <1> SUFFICES ASSUME Init PROVE RemoteInv
    OBVIOUS
  <1> USE DEF Init, RemoteInit
  <1>1. RemoteTyped
    BY CallerNames DEF RemoteTyped, CallRec, Stages
  <1>2. StepsOK
    <2>1. \A c \in Callers : calls[c].step = 1 /\ Len(calls[c].got) = 0
      OBVIOUS
    <2>2. \A c \in Callers : 1 <= Len(Program(c)) /\ 0 = 1 - 1
      BY SMTT(40), ProgramFacts
    <2> HIDE DEF Init, RemoteInit
    <2>3. QED BY <2>1, <2>2 DEF StepsOK
  <1>3. LockOK /\ IdsOK /\ AnswersMatch
    BY CallerNames DEF LockOK, IdsOK, AnswersMatch, Active
  <1>4. LinesOK
    BY DEF LinesOK
  <1>5. QED BY <1>1, <1>2, <1>3, <1>4 DEF RemoteInv

LEMMA NextRemote == RemoteInv /\ [Next]_vars => RemoteInv'
PROOF
  <1> SUFFICES ASSUME RemoteInv, [Next]_vars PROVE RemoteInv'
    OBVIOUS
  <1>1. CASE RemoteNext
    BY <1>1, BeginKeeps, WriteKeeps, ReadKeeps, BreakKeeps, CancelKeeps, ServerKeeps, QuietKeeps
       DEF RemoteNext, CallStep, ServerEnds
  <1>2. CASE UNCHANGED remoteVars
    BY <1>2, QuietKeeps DEF remoteVars
  <1>3. QED BY <1>1, <1>2 DEF Next, vars, Client_, Stream_, Wire_, Feed_

(* Whatever a call of a server returns is what the server answered to that *)
(* very request, for any number of concurrent calls (mcp.go:295-327).      *)
THEOREM AnswersAreTheirs == Spec => []AnswersMatch
PROOF
  <1>1. Init => RemoteInv
    BY InitRemote
  <1>2. RemoteInv /\ [Next]_vars => RemoteInv'
    BY NextRemote
  <1>3. RemoteInv => AnswersMatch
    BY DEF RemoteInv
  <1>4. QED BY <1>1, <1>2, <1>3, PTL DEF Spec

(* Only the holder of the mutex reads, so no two calls read the pipe.      *)
THEOREM OneReader == Spec => []LockOK
PROOF
  <1>1. Init => RemoteInv
    BY InitRemote
  <1>2. RemoteInv /\ [Next]_vars => RemoteInv'
    BY NextRemote
  <1>3. RemoteInv => LockOK
    BY DEF RemoteInv
  <1>4. QED BY <1>1, <1>2, <1>3, PTL DEF Spec
(***************************************************************************)
(* Calls of a provider.  A call only goes on to a client it has not been   *)
(* at, so that what was asked where it is now is what this client's own    *)
(* retries asked.                                                          *)
(***************************************************************************)
Services == {"openai", "anthropic", "google", "ollama"}
Verdicts == [kind : {"response", "final", "retryable", "plain"}, status : Nat]
AnswerRec == [member : Nat, client : Nat, verdict : Verdicts]
ChatRec == [stage : {"idle", "trying", "waiting", "done"}, member : Nat, client : Nat,
            attempt : Nat, result : {"none", "ok", "error"}]

Under == call.stage \in {"trying", "waiting"}

CallTyped ==
  /\ stack \in Stacks
  /\ call \in ChatRec /\ call.member \in DOMAIN stack
  /\ call.client \in DOMAIN stack[call.member].clients
  /\ call.attempt <= Client.retries
  /\ turn \in [DOMAIN stack -> Nat]
  /\ answers \in Seq(AnswerRec)

Before(a) == a.member < call.member \/ (a.member = call.member /\ a.client < call.client)
From(all, m, c) == {i \in DOMAIN all : all[i].member = m /\ all[i].client = c}
Here == From(answers, call.member, call.client)

(* While a call is under way no answer was a response, each came from where *)
(* the call is or was, those from here are its retries, each with a reason, *)
(* and no member was passed over.                                          *)
UnderWay ==
  Under =>
    /\ \A i \in DOMAIN answers :
         /\ answers[i].verdict.kind # "response"
         /\ Before(answers[i]) \/ i \in Here
    /\ Cardinality(Here) = call.attempt
    /\ \A i \in Here : answers[i].verdict.status \in Client.retryOn
    /\ \A m \in 1..(call.member - 1) : \E i \in DOMAIN answers : answers[i].member = m

NotBegun == call.stage = "idle" => answers = <<>> /\ call = Idle

CallInv == CallTyped /\ NotBegun /\ UnderWay /\ CallsJustified

LEMMA StackFacts ==
  ASSUME NEW s \in Stacks
  PROVE  /\ DOMAIN s = 1..Len(s) /\ Len(s) \in Nat \ {0}
         /\ \A m \in DOMAIN s :
              /\ s[m].how \in {"alone", "fallback", "roundRobin"}
              /\ DOMAIN s[m].clients = 1..Len(s[m].clients) /\ Len(s[m].clients) \in Nat \ {0}
              /\ \A c \in DOMAIN s[m].clients :
                   /\ s[m].clients[c].service \in Services
                   /\ s[m].clients[c].retries \in Nat
PROOF
  <1>1. s \in Seq(MemberKinds) /\ s # <<>> /\ \A m \in DOMAIN s : s[m].clients # <<>>
    BY StacksAssumption
  <1>2. DOMAIN s = 1..Len(s) /\ Len(s) \in Nat \ {0} /\ \A m \in DOMAIN s : s[m] \in MemberKinds
    BY <1>1
  <1>3. ASSUME NEW m \in DOMAIN s
        PROVE  /\ s[m].how \in {"alone", "fallback", "roundRobin"}
               /\ s[m].clients \in Seq(ClientKinds) /\ s[m].clients # <<>>
    BY <1>1, <1>2, <1>3 DEF MemberKinds
  <1>4. ASSUME NEW m \in DOMAIN s
        PROVE  /\ DOMAIN s[m].clients = 1..Len(s[m].clients) /\ Len(s[m].clients) \in Nat \ {0}
               /\ \A c \in DOMAIN s[m].clients : s[m].clients[c] \in ClientKinds
    <2> DEFINE q == s[m].clients
    <2>1. q \in Seq(ClientKinds) /\ q # <<>>
      BY <1>3, <1>4
    <2> HIDE DEF q
    <2>2. DOMAIN q = 1..Len(q) /\ Len(q) \in Nat \ {0} /\ \A c \in DOMAIN q : q[c] \in ClientKinds
      BY <2>1
    <2>3. QED BY <2>2 DEF q
  <1>5. \A k \in ClientKinds : k.service \in Services /\ k.retries \in Nat
    BY DEF ClientKinds, Services
  <1>6. QED BY <1>2, <1>3, <1>4, <1>5

LEMMA ChatTyped ==
  ASSUME NEW s \in Services, NEW o \in Outcomes
  PROVE  Chat(s, o) \in Verdicts
PROOF
  <1>1. HttpStatus(o) \in Nat
    BY DEF HttpStatus, Outcomes
  <1>2. \A k \in {"response", "final", "retryable", "plain"}, n \in Nat : Verdict(k, n) \in Verdicts
    BY DEF Verdict, Verdicts
  <1>3. Refusal(o) \in Verdicts
    BY <1>1, <1>2 DEF Refusal
  <1>4. OpenAIChat(o) \in Verdicts /\ AnthropicChat(o) \in Verdicts
    BY <1>1, <1>2, <1>3 DEF OpenAIChat, AnthropicChat
  <1>5. GoogleChat(o) \in Verdicts /\ OllamaChat(o) \in Verdicts
    BY <1>1, <1>2, <1>3 DEF GoogleChat, OllamaChat
  <1>6. QED BY <1>4, <1>5 DEF Chat, Services

(* The requests of a call are finitely many.                               *)
LEMMA AskedFinite ==
  ASSUME NEW S, NEW s \in Seq(S), NEW A, A \subseteq DOMAIN s
  PROVE  IsFiniteSet(A) /\ Cardinality(A) \in Nat
PROOF
  <1>1. DOMAIN s = 1..Len(s) /\ Len(s) \in Nat
    OBVIOUS
  <1>2. IsFiniteSet(DOMAIN s)
    BY <1>1, FS_Interval
  <1>3. QED BY <1>2, FS_Subset, FS_CardinalityType

(* Where a call goes next it has not been.                                 *)
LEMMA FirstClientFacts ==
  ASSUME CallTyped, NEW m \in DOMAIN stack
  PROVE  FirstClient(m) \in DOMAIN stack[m].clients /\ FirstClient(m) \in Nat
PROOF
  <1> DEFINE n == Len(stack[m].clients)
             t == turn[m]
  <1>1. n \in Nat \ {0} /\ DOMAIN stack[m].clients = 1..n /\ t \in Nat
    BY StackFacts DEF CallTyped
  <1> HIDE DEF n, t
  <1>2. t % n \in 0..(n - 1)
    BY <1>1
  <1>3. (t % n) + 1 \in 1..n /\ 1 \in 1..n
    BY <1>1, <1>2
  <1>4. FirstClient(m) \in {1, (t % n) + 1}
    BY DEF FirstClient, n, t
  <1>5. QED BY <1>1, <1>3, <1>4

LEMMA FromGrows ==
  ASSUME NEW n \in Nat, NEW f, NEW g, DOMAIN f = 1..n, DOMAIN g = 1..(n + 1),
         \A i \in 1..n : g[i] = f[i],
         NEW m, NEW c
  PROVE  /\ From(f, m, c) \subseteq 1..n
         /\ g[n + 1].member = m /\ g[n + 1].client = c => From(g, m, c) = From(f, m, c) \union {n + 1}
         /\ ~(g[n + 1].member = m /\ g[n + 1].client = c) => From(g, m, c) = From(f, m, c)
PROOF
  <1>1. \A i : i \in 1..(n + 1) <=> i \in 1..n \/ i = n + 1
    OBVIOUS
  <1>2. QED BY <1>1, Zenon DEF From

LEMMA OneMoreAnswer ==
  ASSUME NEW all \in Seq(AnswerRec), NEW a \in AnswerRec, NEW m, NEW c
  PROVE  /\ From(all, m, c) \subseteq DOMAIN all /\ Cardinality(From(all, m, c)) \in Nat
         /\ a.member = m /\ a.client = c =>
              Cardinality(From(Append(all, a), m, c)) = Cardinality(From(all, m, c)) + 1
         /\ ~(a.member = m /\ a.client = c) =>
              Cardinality(From(Append(all, a), m, c)) = Cardinality(From(all, m, c))
PROOF
  <1> DEFINE n == Len(all)
             bs == Append(all, a)
  <1>1. /\ DOMAIN all = 1..n /\ n \in Nat /\ DOMAIN bs = 1..(n + 1)
        /\ \A i \in 1..n : bs[i] = all[i]
        /\ bs[n + 1] = a
    BY AppendFacts
  <1>2. \A A : A \subseteq DOMAIN all => IsFiniteSet(A) /\ Cardinality(A) \in Nat
    BY AskedFinite
  <1> HIDE DEF n, bs
  <1>3. /\ From(all, m, c) \subseteq 1..n
        /\ a.member = m /\ a.client = c => From(bs, m, c) = From(all, m, c) \union {n + 1}
        /\ ~(a.member = m /\ a.client = c) => From(bs, m, c) = From(all, m, c)
    BY <1>1, FromGrows
  <1>4. n + 1 \notin From(all, m, c)
    BY <1>1, <1>3
  <1>5. IsFiniteSet(From(all, m, c)) /\ Cardinality(From(all, m, c)) \in Nat
    BY <1>1, <1>2, <1>3
  <1>6. Cardinality(From(all, m, c) \union {n + 1}) = Cardinality(From(all, m, c)) + 1
    BY <1>4, <1>5, FS_AddElement
  <1>7. QED BY <1>1, <1>3, <1>5, <1>6 DEF bs

(* An answer that a call under way gets has a reason to have been asked    *)
(* for, and the number of requests here goes up by one.                    *)
Answer(verdict) == [member |-> call.member, client |-> call.client, verdict |-> verdict]

LEMMA AnswerJustified ==
  ASSUME CallTyped, UnderWay, RetriesJustified, Under, NEW v \in Verdicts,
         answers' = Append(answers, Answer(v)), stack' = stack
  PROVE  /\ answers' \in Seq(AnswerRec) /\ RetriesJustified'
         /\ Cardinality(From(answers', call.member, call.client)) = call.attempt + 1
         /\ \A i \in DOMAIN answers' :
              /\ answers'[i] = Answer(v) \/ (i \in DOMAIN answers /\ answers'[i] = answers[i])
              /\ Before(answers'[i]) \/ i \in From(answers', call.member, call.client)
         /\ Last(answers') = Answer(v) /\ answers' # <<>>
         /\ \A m \in 1..call.member : \E i \in DOMAIN answers' : answers'[i].member = m
PROOF
  <1> DEFINE a == Answer(v)
             n == Len(answers) + 1
             l == Client.retries
  <1>1. /\ answers \in Seq(AnswerRec) /\ call.attempt \in Nat /\ call.attempt <= l
        /\ call.member \in Nat /\ call.client \in Nat
    BY DEF CallTyped, ChatRec
  <1>2. a \in AnswerRec /\ a.member = call.member /\ a.client = call.client
    BY <1>1 DEF Answer, AnswerRec
  <1>3. l \in Nat
    BY StackFacts DEF CallTyped, Client, Member
  <1>4. l = stack[call.member].clients[call.client].retries
    BY DEF Client, Member
  <1> HIDE DEF a, l
  <1>5. /\ answers' \in Seq(AnswerRec) /\ Len(answers') = n /\ Len(answers) \in Nat
        /\ DOMAIN answers' = 1..n /\ DOMAIN answers = 1..Len(answers)
        /\ \A i \in DOMAIN answers : answers'[i] = answers[i]
        /\ answers'[n] = a
    BY <1>1, <1>2, AppendFacts DEF a
  <1>6. /\ \A i \in DOMAIN answers :
             /\ answers[i].verdict.kind # "response"
             /\ Before(answers[i]) \/ i \in Here
        /\ Cardinality(Here) = call.attempt
        /\ \A i \in Here : answers[i].verdict.status \in Client.retryOn
        /\ \A m \in 1..(call.member - 1) : \E i \in DOMAIN answers : answers[i].member = m
    BY DEF UnderWay
  <1>7. Cardinality(From(answers', call.member, call.client)) = call.attempt + 1
    <2>1. Here = From(answers, call.member, call.client)
      BY DEF Here
    <2>2. QED BY <2>1, <1>1, <1>2, <1>6, OneMoreAnswer DEF a
  <1>8. \A i \in 1..(Len(answers') - 1) : answers'[i].verdict.kind # "response"
    BY <1>5, <1>6
  <1>9. ASSUME NEW i \in DOMAIN answers', NEW j \in DOMAIN answers', i < j, Same(answers'[i], answers'[j])
        PROVE  answers'[i].verdict.status \in Asker(answers[i])'.retryOn
    <2>1. i \in DOMAIN answers /\ answers'[i] = answers[i]
      BY <1>5, <1>9
    <2>2. CASE j \in DOMAIN answers
      BY <2>1, <2>2, <1>5, <1>9 DEF RetriesJustified, Asker
    <2>3. CASE j = n
      BY SMTT(40), <2>1, <2>3, <1>2, <1>5, <1>6, <1>9 DEF Same, Here, From, Asker, Client, Member
    <2>4. QED BY <2>2, <2>3, <1>5
  <1>10. ASSUME NEW i \in DOMAIN answers'
         PROVE  Cardinality(Asked(answers[i])') <=
                  stack'[answers'[i].member].clients[answers'[i].client].retries + 1
    <2> DEFINE m == answers'[i].member
               c == answers'[i].client
    <2>1. Asked(answers[i])' = From(answers', m, c)
      BY DEF Asked, Same, From
    <2>2. CASE m = call.member /\ c = call.client
      <3>1. From(answers', m, c) = From(answers', call.member, call.client)
        BY <2>2
      <3>2. Cardinality(From(answers', m, c)) <= l + 1
        BY <3>1, <1>1, <1>3, <1>7
      <3>3. stack'[m].clients[c].retries = l
        BY <2>2, <1>4
      <3>4. QED BY <2>1, <3>2, <3>3
    <2>3. CASE ~(m = call.member /\ c = call.client)
      <3>1. i \in DOMAIN answers /\ answers'[i] = answers[i]
        BY <2>3, <1>2, <1>5, <1>10
      <3>2. Cardinality(From(answers', m, c)) = Cardinality(From(answers, m, c))
        <4> HIDE DEF m, c
        <4>1. ~(a.member = m /\ a.client = c)
          BY <2>3, <1>2
        <4>2. QED BY <4>1, <1>1, <1>2, OneMoreAnswer DEF a
      <3>3. Asked(answers[i]) = From(answers, m, c)
        BY <3>1 DEF Asked, Same, From
      <3>4. Cardinality(Asked(answers[i])) <= stack[answers[i].member].clients[answers[i].client].retries + 1
        BY SMTT(40), <3>1 DEF RetriesJustified, Asker
      <3>5. QED BY <2>1, <3>1, <3>2, <3>3, <3>4
    <2>4. QED BY <2>2, <2>3
  <1>11. RetriesJustified'
    BY <1>8, <1>9, <1>10 DEF RetriesJustified, Same, Asker
  <1>12. ASSUME NEW i \in DOMAIN answers'
         PROVE  /\ answers'[i] = a \/ (i \in DOMAIN answers /\ answers'[i] = answers[i])
                /\ Before(answers'[i]) \/ i \in From(answers', call.member, call.client)
    <2>1. CASE i \in DOMAIN answers
      BY <2>1, <1>5, <1>6, <1>12 DEF Here, From
    <2>2. CASE i = n
      BY <2>2, <1>2, <1>5, <1>12 DEF From
    <2>3. QED BY <2>1, <2>2, <1>5, <1>12
  <1>13. Last(answers') = a /\ answers' # <<>>
    <2>1. Last(answers') = answers'[Len(answers')]
      BY DEF Last
    <2>2. QED BY <2>1, <1>5
  <1>14. ASSUME NEW m \in 1..call.member PROVE \E i \in DOMAIN answers' : answers'[i].member = m
    <2>1. CASE m = call.member
      BY <2>1, <1>2, <1>5
    <2>2. CASE m # call.member
      <3>1. m \in 1..(call.member - 1)
        BY <2>2, <1>1, <1>14
      <3>2. PICK i \in DOMAIN answers : answers[i].member = m
        BY <3>1, <1>6
      <3>3. QED BY <3>2, <1>5
    <2>3. QED BY <2>1, <2>2
  <1>15. QED BY <1>5, <1>7, <1>11, <1>12, <1>13, <1>14 DEF a

(* Going on to a member it has not been at.                                *)
LEMMA TryKeeps ==
  ASSUME CallTyped, NEW m \in DOMAIN stack, Try(m), stack' = stack,
         answers' \in Seq(AnswerRec), RetriesJustified',
         \A i \in DOMAIN answers' : answers'[i].verdict.kind # "response" /\ answers'[i].member < m,
         \A k \in 1..(m - 1) : \E i \in DOMAIN answers' : answers'[i].member = k
  PROVE  CallInv'
PROOF
  <1>1. /\ call' = [Idle EXCEPT !.stage = "trying", !.member = m, !.client = FirstClient(m)]
        /\ turn' = TurnTaken(m)
    BY DEF Try
  <1>2. FirstClient(m) \in DOMAIN stack[m].clients /\ FirstClient(m) \in Nat /\ m \in Nat
    BY FirstClientFacts, StackFacts DEF CallTyped
  <1>3. /\ call'.stage = "trying" /\ call'.member = m /\ call'.client = FirstClient(m)
        /\ call'.attempt = 0 /\ call'.result = "none" /\ call' \in ChatRec
    BY <1>1, <1>2 DEF Idle, ChatRec
  <1>4. turn' \in [DOMAIN stack -> Nat]
    BY <1>1 DEF TurnTaken, CallTyped
  <1>5. stack[m].clients[FirstClient(m)].retries \in Nat
    BY <1>2, StackFacts DEF CallTyped
  <1>6. CallTyped'
    BY <1>2, <1>3, <1>4, <1>5 DEF CallTyped, Client, Member
  <1>7. Here' = {}
    BY <1>2, <1>3 DEF Here, From
  <1>8. \A i \in DOMAIN answers' : Before(answers[i])'
    BY <1>3 DEF Before
  <1>9. UnderWay'
    BY <1>3, <1>7, <1>8, FS_EmptySet DEF UnderWay, Under
  <1>10. NotBegun' /\ FailoverComplete'
    BY <1>3 DEF NotBegun, FailoverComplete
  <1>11. QED BY <1>6, <1>9, <1>10 DEF CallInv, CallsJustified

(* The end of a call.                                                      *)
LEMMA DoneKeeps ==
  ASSUME CallTyped, NEW result \in {"ok", "error"}, Done(result), stack' = stack,
         answers' \in Seq(AnswerRec), RetriesJustified',
         result = "ok" <=> (answers' # <<>> /\ Last(answers').verdict.kind = "response"),
         result = "error" /\ ~abandoned' =>
           \/ \A m \in DOMAIN stack : \E i \in DOMAIN answers' : answers'[i].member = m
           \/ Last(answers').verdict.kind = "final"
  PROVE  CallInv'
PROOF
  <1>1. call' = [call EXCEPT !.stage = "done", !.result = result] /\ turn' = turn
    BY DEF Done
  <1>2. /\ call' \in ChatRec /\ call'.stage = "done" /\ call'.result = result
        /\ call'.member = call.member /\ call'.client = call.client /\ call'.attempt = call.attempt
    BY <1>1 DEF CallTyped, ChatRec
  <1>3. CallTyped'
    BY <1>1, <1>2 DEF CallTyped, Client, Member
  <1>4. NotBegun' /\ UnderWay'
    BY <1>2 DEF NotBegun, UnderWay, Under
  <1>5. FailoverComplete'
    BY <1>2 DEF FailoverComplete
  <1>6. QED BY <1>3, <1>4, <1>5 DEF CallInv, CallsJustified

LEMMA NextClientRec ==
  ASSUME NEW k \in ChatRec
  PROVE  LET q == [k EXCEPT !.client = @ + 1, !.attempt = 0, !.stage = "trying"]
         IN  /\ q \in ChatRec /\ q.stage = "trying" /\ q.member = k.member
             /\ q.client = k.client + 1 /\ q.attempt = 0 /\ q.result = k.result
PROOF
  <1> DEFINE c == k.client + 1
             q == [k EXCEPT !.client = c, !.attempt = 0, !.stage = "trying"]
  <1>1. c \in Nat
    BY DEF ChatRec
  <1> HIDE DEF c
  <1>2. /\ q \in ChatRec /\ q.stage = "trying" /\ q.member = k.member
        /\ q.client = c /\ q.attempt = 0 /\ q.result = k.result
    BY <1>1 DEF ChatRec
  <1>3. QED BY <1>2 DEF c

LEMMA RetryRec ==
  ASSUME NEW k \in ChatRec
  PROVE  LET q == [k EXCEPT !.stage = "waiting", !.attempt = @ + 1]
         IN  /\ q \in ChatRec /\ q.stage = "waiting" /\ q.member = k.member
             /\ q.client = k.client /\ q.attempt = k.attempt + 1 /\ q.result = k.result
PROOF
  <1> DEFINE t == k.attempt + 1
             q == [k EXCEPT !.stage = "waiting", !.attempt = t]
  <1>1. t \in Nat
    BY DEF ChatRec
  <1> HIDE DEF t
  <1>2. /\ q \in ChatRec /\ q.stage = "waiting" /\ q.member = k.member
        /\ q.client = k.client /\ q.attempt = t /\ q.result = k.result
    BY <1>1 DEF ChatRec
  <1>3. QED BY <1>2 DEF t

(* A client gives up after an answer: the next client, the next member, or *)
(* the caller has the error.                                               *)
LEMMA GiveUpKeeps ==
  ASSUME CallTyped, UnderWay, RetriesJustified, Under, ~abandoned, UNCHANGED <<stack, abandoned>>,
         NEW v \in Verdicts, v.kind # "response", answers' = Append(answers, Answer(v)),
         GiveUp(v.kind = "final")
  PROVE  CallInv'
PROOF
  <1>1. /\ answers' \in Seq(AnswerRec) /\ RetriesJustified'
        /\ \A i \in DOMAIN answers' :
             /\ answers'[i] = Answer(v) \/ (i \in DOMAIN answers /\ answers'[i] = answers[i])
             /\ Before(answers'[i]) \/ i \in From(answers', call.member, call.client)
        /\ Last(answers') = Answer(v) /\ answers' # <<>>
        /\ \A m \in 1..call.member : \E i \in DOMAIN answers' : answers'[i].member = m
    BY AnswerJustified
  <1>2. Answer(v).verdict = v
    BY DEF Answer
  <1>3. \A i \in DOMAIN answers' : answers'[i].verdict.kind # "response"
    BY <1>1, <1>2 DEF UnderWay
  <1>4. /\ call \in ChatRec /\ call.member \in Nat /\ call.client \in Nat
        /\ stack \in Stacks /\ call.member \in DOMAIN stack
        /\ call.client \in DOMAIN stack[call.member].clients
    BY DEF CallTyped, ChatRec
  <1>5. /\ DOMAIN stack = 1..Len(stack) /\ Len(stack) \in Nat
        /\ \A m \in DOMAIN stack :
             /\ DOMAIN stack[m].clients = 1..Len(stack[m].clients) /\ Len(stack[m].clients) \in Nat
             /\ \A c \in DOMAIN stack[m].clients : stack[m].clients[c].retries \in Nat
    BY <1>4, StackFacts
  <1>6. \A i \in DOMAIN answers' : answers'[i].member \in Nat /\ answers'[i].client \in Nat
    <2>1. \A i \in DOMAIN answers' : answers'[i] \in AnswerRec
      BY <1>1
    <2>2. QED BY <2>1 DEF AnswerRec
  <1>7. ASSUME call' = [call EXCEPT !.client = @ + 1, !.attempt = 0, !.stage = "trying"],
               turn' = turn, NextClient
        PROVE  CallInv'
    <2>1. /\ call' \in ChatRec /\ call'.stage = "trying" /\ call'.member = call.member
          /\ call'.client = call.client + 1 /\ call'.attempt = 0 /\ call'.result = call.result
      BY <1>4, <1>7, NextClientRec
    <2>2. call.client + 1 \in DOMAIN stack[call.member].clients
      BY <1>4, <1>5, <1>7 DEF NextClient, Member
    <2>3. CallTyped'
      BY SMTT(40), <1>1, <1>4, <1>5, <1>7, <2>1, <2>2 DEF CallTyped, Client, Member
    <2>4. ASSUME NEW i \in DOMAIN answers'
          PROVE  /\ answers'[i].member < call'.member
                    \/ (answers'[i].member = call'.member /\ answers'[i].client < call'.client)
                 /\ ~(answers'[i].member = call'.member /\ answers'[i].client = call'.client)
      BY SMTT(40), <1>1, <1>4, <1>6, <2>1, <2>4 DEF Before, From
    <2>5. Here' = {} /\ \A i \in DOMAIN answers' : Before(answers[i])'
      BY <2>4 DEF Here, From, Before
    <2>6. \A m \in 1..(call'.member - 1) : \E i \in DOMAIN answers' : answers'[i].member = m
      <3>1. ASSUME NEW m \in 1..(call'.member - 1) PROVE m \in 1..call.member
        BY <1>4, <2>1
      <3>2. QED BY <3>1, <1>1
    <2>7. UnderWay'
      BY <1>3, <2>1, <2>5, <2>6, FS_EmptySet DEF UnderWay, Under
    <2>8. NotBegun' /\ FailoverComplete'
      BY <2>1 DEF NotBegun, FailoverComplete
    <2>9. QED BY <1>1, <2>3, <2>7, <2>8 DEF CallInv, CallsJustified
  <1>8. ASSUME Try(call.member + 1), call.member < Len(stack) PROVE CallInv'
    <2>1. call.member + 1 \in DOMAIN stack
      BY <1>4, <1>5, <1>8
    <2>2. \A i \in DOMAIN answers' : answers'[i].member < call.member + 1
      BY SMTT(40), <1>1, <1>4, <1>6 DEF Before, From
    <2>3. \A m \in 1..((call.member + 1) - 1) : \E i \in DOMAIN answers' : answers'[i].member = m
      BY SMTT(40), <1>1, <1>4
    <2>4. QED BY <1>1, <1>3, <1>8, <2>1, <2>2, <2>3, TryKeeps
  <1>9. ASSUME Done("error"),
               ~(call.member < Len(stack)) \/ v.kind = "final"
        PROVE  CallInv'
    <2>1. \/ \A m \in DOMAIN stack : \E i \in DOMAIN answers' : answers'[i].member = m
          \/ Last(answers').verdict.kind = "final"
      <3>1. CASE v.kind = "final"
        BY <3>1, <1>1, <1>2
      <3>2. CASE ~(call.member < Len(stack))
        <4>1. ASSUME NEW m \in DOMAIN stack PROVE m \in 1..call.member
          BY <3>2, <1>4, <1>5
        <4>2. QED BY <4>1, <1>1
      <3>3. QED BY <3>1, <3>2, <1>9
    <2>2. Last(answers').verdict.kind # "response"
      BY <1>1, <1>2
    <2>3. QED BY <1>1, <1>9, <2>1, <2>2, DoneKeeps
  <1>10. QED BY <1>7, <1>8, <1>9 DEF GiveUp

LEMMA ExchangeKeeps ==
  ASSUME CallInv, NEW o \in Outcomes, Exchange(o)
  PROVE  CallInv'
PROOF
  <1> DEFINE v == Chat(Client.service, o)
  <1>1. CallTyped /\ UnderWay /\ RetriesJustified /\ Under
    BY DEF CallInv, CallsJustified, Exchange, Under
  <1>2. v \in Verdicts
    BY <1>1, ChatTyped, StackFacts DEF CallTyped, Client, Member
  <1>3. /\ ~abandoned /\ UNCHANGED <<stack, abandoned>>
        /\ answers' = Append(answers, Answer(v))
        /\ \/ v.kind = "response" /\ Done("ok")
           \/ /\ v.kind # "response"
              /\ ShouldRetry(Client, v) /\ call.attempt < Client.retries
              /\ call' = [call EXCEPT !.stage = "waiting", !.attempt = @ + 1]
              /\ UNCHANGED turn
           \/ v.kind # "response" /\ GiveUp(v.kind = "final")
    BY DEF Exchange, Answer
  <1> HIDE DEF v
  <1>4. /\ answers' \in Seq(AnswerRec) /\ RetriesJustified'
        /\ Cardinality(From(answers', call.member, call.client)) = call.attempt + 1
        /\ \A i \in DOMAIN answers' :
             /\ answers'[i] = Answer(v) \/ (i \in DOMAIN answers /\ answers'[i] = answers[i])
             /\ Before(answers'[i]) \/ i \in From(answers', call.member, call.client)
        /\ Last(answers') = Answer(v) /\ answers' # <<>>
        /\ \A m \in 1..call.member : \E i \in DOMAIN answers' : answers'[i].member = m
    BY <1>1, <1>2, <1>3, AnswerJustified
  <1>5. Answer(v).verdict = v
    BY DEF Answer
  <1>6. CASE v.kind = "response" /\ Done("ok")
    BY <1>1, <1>3, <1>4, <1>5, <1>6, DoneKeeps
  <1>7. CASE /\ v.kind # "response"
             /\ ShouldRetry(Client, v) /\ call.attempt < Client.retries
             /\ call' = [call EXCEPT !.stage = "waiting", !.attempt = @ + 1]
             /\ UNCHANGED turn
    <2>1. call \in ChatRec /\ call.attempt \in Nat /\ Client.retries \in Nat
      BY <1>1, StackFacts DEF CallTyped, ChatRec, Client, Member
    <2>2. /\ call' \in ChatRec /\ call'.stage = "waiting" /\ call'.member = call.member
          /\ call'.client = call.client /\ call'.attempt = call.attempt + 1 /\ call'.result = call.result
      BY <1>7, <2>1, RetryRec
    <2>3. Client' = Client /\ Here' = From(answers', call.member, call.client)
      BY <1>3, <2>2 DEF Client, Member, Here, From
    <2>4. CallTyped'
      BY <1>1, <1>3, <1>4, <1>7, <2>1, <2>2, <2>3 DEF CallTyped
    <2>5. v.status \in Client.retryOn
      BY <1>7, <2>1 DEF ShouldRetry
    <2>6. \A i \in DOMAIN answers' : answers'[i].verdict.kind # "response"
      BY <1>1, <1>4, <1>5, <1>7 DEF UnderWay
    <2>7. ASSUME NEW i \in From(answers', call.member, call.client)
          PROVE  answers'[i].verdict.status \in Client.retryOn
      <3>1. i \in DOMAIN answers' /\ answers'[i].member = call.member /\ answers'[i].client = call.client
        BY <2>7 DEF From
      <3>2. CASE answers'[i] = Answer(v)
        BY <3>2, <1>5, <2>5
      <3>3. CASE i \in DOMAIN answers /\ answers'[i] = answers[i]
        <4>1. i \in Here
          BY <3>1, <3>3 DEF Here, From
        <4>2. QED BY <4>1, <3>3, <1>1 DEF UnderWay
      <3>4. QED BY <3>1, <3>2, <3>3, <1>4
    <2>8. \A i \in DOMAIN answers' : Before(answers[i])' \/ i \in Here'
      BY <1>4, <2>2, <2>3 DEF Before
    <2>9. \A m \in 1..(call'.member - 1) : \E i \in DOMAIN answers' : answers'[i].member = m
      <3>1. call.member \in Nat
        BY <2>1 DEF ChatRec
      <3>2. QED BY <3>1, <1>4, <2>2
    <2>10. UnderWay'
      BY <1>4, <2>2, <2>3, <2>6, <2>7, <2>8, <2>9 DEF UnderWay
    <2>11. NotBegun' /\ FailoverComplete'
      BY <2>2 DEF NotBegun, FailoverComplete
    <2>12. QED BY <1>4, <2>4, <2>10, <2>11 DEF CallInv, CallsJustified
  <1>8. CASE v.kind # "response" /\ GiveUp(v.kind = "final")
    BY <1>1, <1>2, <1>3, <1>8, GiveUpKeeps
  <1>9. QED BY <1>3, <1>6, <1>7, <1>8

(* The steps that ask nothing.                                             *)
LEMMA StartKeeps ==
  ASSUME CallInv, StartChat
  PROVE  CallInv'
PROOF
  <1>1. /\ CallTyped /\ RetriesJustified /\ answers = <<>>
        /\ Try(1) /\ UNCHANGED <<stack, answers>>
    BY DEF CallInv, NotBegun, CallsJustified, StartChat
  <1>2. 1 \in DOMAIN stack
    BY <1>1, StackFacts DEF CallTyped
  <1>3. answers' \in Seq(AnswerRec) /\ DOMAIN answers' = {}
    BY <1>1
  <1>4. RetriesJustified'
    BY <1>1 DEF RetriesJustified, Asked, Asker
  <1>5. QED BY <1>1, <1>2, <1>3, <1>4, TryKeeps

LEMMA UnsentKeeps ==
  ASSUME CallInv, Unsent
  PROVE  CallInv'
PROOF
  <1>1. /\ CallTyped /\ RetriesJustified /\ UnderWay /\ Under
        /\ abandoned' /\ Done("error") /\ UNCHANGED <<stack, answers>>
    BY DEF CallInv, CallsJustified, Unsent, GiveUp, Under
  <1>2. RetriesJustified' /\ answers' \in Seq(AnswerRec)
    BY <1>1 DEF RetriesJustified, Asked, Asker, CallTyped
  <1>3. answers' # <<>> => Last(answers').verdict.kind # "response"
    <2>1. ASSUME answers # <<>> PROVE Len(answers) \in DOMAIN answers
      BY <1>1, <2>1 DEF CallTyped
    <2>2. QED BY <2>1, <1>1 DEF Last, UnderWay
  <1>4. QED BY <1>1, <1>2, <1>3, DoneKeeps

LEMMA WaitKeeps ==
  ASSUME CallInv, Waited \/ AbandonChat
  PROVE  CallInv'
PROOF
  <1>1. /\ CallTyped /\ RetriesJustified /\ UnderWay /\ Under
        /\ UNCHANGED <<stack, answers, turn>>
    BY DEF CallInv, CallsJustified, Waited, AbandonChat, Under
  <1>2. /\ call' \in ChatRec /\ call'.member = call.member /\ call'.client = call.client
        /\ call'.attempt = call.attempt /\ call'.stage \in {"trying", "waiting"}
    BY <1>1 DEF CallTyped, ChatRec, Waited, AbandonChat, Under
  <1>3. CallTyped'
    BY <1>1, <1>2 DEF CallTyped, Client, Member
  <1>4. UnderWay'
    BY <1>1, <1>2 DEF UnderWay, Here, From, Before, Client, Member
  <1>5. NotBegun' /\ FailoverComplete' /\ RetriesJustified'
    BY <1>1, <1>2 DEF NotBegun, FailoverComplete, RetriesJustified, Asked, Asker
  <1>6. QED BY <1>3, <1>4, <1>5 DEF CallInv, CallsJustified

LEMMA InitCall == Init => CallInv
PROOF
  <1> SUFFICES ASSUME Init PROVE CallInv
    OBVIOUS
  <1>1. stack \in Stacks
    BY StacksAssumption DEF Init, AStack
  <1>2. call = Idle /\ answers = <<>> /\ turn = [m \in DOMAIN stack |-> 0]
    BY DEF Init, ClientInit
  <1>3. 1 \in DOMAIN stack /\ 1 \in DOMAIN stack[1].clients /\ stack[1].clients[1].retries \in Nat
    BY <1>1, StackFacts
  <1>4. CallTyped
    BY <1>1, <1>2, <1>3 DEF CallTyped, ChatRec, Idle, Client, Member
  <1>5. NotBegun /\ UnderWay /\ FailoverComplete
    BY <1>2 DEF NotBegun, UnderWay, Under, FailoverComplete, Idle
  <1>6. RetriesJustified
    BY <1>2 DEF RetriesJustified
  <1>7. QED BY <1>4, <1>5, <1>6 DEF CallInv, CallsJustified

LEMMA NextCall == CallInv /\ [Next]_vars => CallInv'
PROOF
  <1> SUFFICES ASSUME CallInv, [Next]_vars PROVE CallInv'
    OBVIOUS
  <1>1. CASE ClientStep \/ AbandonChat
    BY <1>1, ExchangeKeeps, StartKeeps, UnsentKeeps, WaitKeeps DEF ClientStep
  <1>2. CASE UNCHANGED clientVars
    <2>1. UNCHANGED <<stack, call, answers, turn, abandoned>>
      BY <1>2 DEF clientVars
    <2>2. CallTyped' /\ NotBegun'
      BY <2>1 DEF CallInv, CallTyped, NotBegun, Client, Member
    <2>3. UnderWay'
      BY <2>1 DEF CallInv, UnderWay, Under, Here, Before, Client, Member
    <2>4. CallsJustified'
      BY <2>1 DEF CallInv, CallsJustified, RetriesJustified, FailoverComplete, Asked, Asker
    <2>5. QED BY <2>2, <2>3, <2>4 DEF CallInv
  <1>3. QED BY <1>1, <1>2 DEF Next, vars, Stream_, Wire_, Feed_, Remote_

(* Whatever a provider is made of, a service is asked again only after an  *)
(* answer that may pass and no more often than its retries allow, nothing  *)
(* is asked after a response, and a call that fails, and was not abandoned *)
(* or met with a final error, has asked every member.                      *)
THEOREM CallsAreJustified == Spec => []CallsJustified
PROOF
  <1>1. Init => CallInv
    BY InitCall
  <1>2. CallInv /\ [Next]_vars => CallInv'
    BY NextCall
  <1>3. CallInv => CallsJustified
    BY DEF CallInv
  <1>4. QED BY <1>1, <1>2, <1>3, PTL DEF Spec

(***************************************************************************)
(* Conversations on the wire.                                              *)
(***************************************************************************)
Refs ==
  {<<>>} \cup {<<n>> : n \in Names} \cup {<<n, i>> : n \in Names, i \in Nat}
  \cup {<<"call", i>> : i \in Nat} \cup {<<"id", n, i>> : n \in Nat, i \in Nat}
PartSet == [type : {"text", "call", "result"}, ref : Refs]
ContentSet == [role : {"system", "user", "assistant", "tool", "model"}, parts : Seq(PartSet)]
ToolCallRec == [name : Names, id : Refs]
MessageSet == [role : {"system", "user", "assistant", "tool"}, text : BOOLEAN, calls : Seq(ToolCallRec),
               answers : Refs, from : {"openai", "anthropic", "google", "ollama", "none"}]

LEMMA CallsInAre ==
  ASSUME NEW w
  PROVE  /\ CallsIn(w) = {p.ref : p \in {q \in Range(w.parts) : q.type = "call"}}
         /\ ResultsIn(w) = {p.ref : p \in {q \in Range(w.parts) : q.type = "result"}}
PROOF BY DEF CallsIn, ResultsIn, Range

Continues(turns, w) == turns # <<>> /\ Last(turns).role = w.role

LEMMA MergeFacts ==
  ASSUME NEW turns \in Seq(ContentSet), NEW w \in ContentSet, NEW m, m = MergeInto(turns, w)
  PROVE  /\ m \in Seq(ContentSet) /\ m # <<>> /\ Last(m).role = w.role
         /\ Len(m) = IF Continues(turns, w) THEN Len(turns) ELSE Len(turns) + 1
         /\ \A j \in 1..(Len(m) - 1) : m[j] = turns[j]
         /\ m[Len(m)] = IF Continues(turns, w) THEN Content(w.role, turns[Len(turns)].parts \o w.parts)
                        ELSE w
PROOF
  <1>1. CASE Continues(turns, w)
    <2> DEFINE n == Len(turns)
               u == turns[n].parts
               v == w.parts
               c == [turns[n] EXCEPT !.parts = u \o v]
    <2>1. n \in Nat \ {0} /\ n \in 1..n /\ turns[n] \in ContentSet /\ Last(turns) = turns[n]
      BY <1>1 DEF Continues, Last
    <2>2. u \in Seq(PartSet) /\ v \in Seq(PartSet) /\ turns[n].role = w.role
      BY <1>1, <2>1 DEF ContentSet, Continues
    <2>3. u \o v \in Seq(PartSet)
      <3> HIDE DEF u, v
      <3>1. QED BY <2>2, Concats
    <2>4. c \in ContentSet /\ c = Content(w.role, u \o v) /\ c.role = w.role
      <3> DEFINE x == u \o v
      <3> HIDE DEF x
      <3>1. x \in Seq(PartSet)
        BY <2>3 DEF x
      <3>2. [turns[n] EXCEPT !.parts = x] = [role |-> w.role, parts |-> x]
        BY <2>1, <2>2 DEF ContentSet
      <3>3. [role |-> w.role, parts |-> x] \in ContentSet
        BY <3>1 DEF ContentSet
      <3>4. QED BY <3>2, <3>3 DEF Content, x
    <2>5. m = [turns EXCEPT ![n] = c]
      BY <1>1 DEF MergeInto, Continues
    <2> HIDE DEF c
    <2>6. /\ m \in Seq(ContentSet) /\ Len(m) = n /\ m[n] = c
          /\ \A j \in 1..(n - 1) : m[j] = turns[j]
      BY <2>1, <2>4, <2>5
    <2>7. Last(m) = m[n] /\ m # <<>>
      BY <2>1, <2>6 DEF Last
    <2>8. QED BY <1>1, <2>4, <2>6, <2>7
  <1>2. CASE ~Continues(turns, w)
    <2>1. m = Append(turns, w)
      BY <1>2 DEF MergeInto, Continues
    <2>2. /\ m \in Seq(ContentSet) /\ Len(m) = Len(turns) + 1 /\ m[Len(turns) + 1] = w
          /\ \A j \in 1..Len(turns) : m[j] = turns[j]
      BY <2>1, AppendedIs
    <2>3. Len(turns) \in Nat /\ m # <<>> /\ Last(m) = w
      BY <2>2 DEF Last
    <2>4. QED BY <1>2, <2>2, <2>3
  <1>3. QED BY <1>1, <1>2

(* A table of what is merged of the beginnings.                            *)
MergeTable(f, s) ==
  f = [n \in 0..Len(s) |-> IF n = 0 THEN <<>> ELSE MergeInto(f[n - 1], s[n])]

LEMMA MergedHasTable ==
  ASSUME NEW s \in Seq(ContentSet)
  PROVE  \E f \in [0..Len(s) -> Seq(ContentSet)] :
           MergeTable(f, s) /\ MergeConsecutive(s) = f[Len(s)]
PROOF
  <1> DEFINE V == Seq(ContentSet)
             n == Len(s)
             step == [i \in 1..n |-> [v \in V |-> MergeInto(v, s[i])]]
  <1>1. n \in Nat /\ <<>> \in V /\ \A i \in 1..n : s[i] \in ContentSet
    OBVIOUS
  <1>2. \A v \in V, w \in ContentSet : MergeInto(v, w) \in V
    BY MergeFacts
  <1> HIDE DEF V
  <1>3. step \in [1..n -> [V -> V]]
    BY <1>1, <1>2
  <1>4. \A i \in 1..n : \A v \in V : step[i][v] = MergeInto(v, s[i])
    OBVIOUS
  <1> HIDE DEF n, step
  <1>5. PICK f \in [0..n -> V] : IsTable(f, n, <<>>, step)
    BY <1>1, <1>3, Table
  <1>6. \A i \in 1..n : i - 1 \in 0..n
    BY <1>1
  <1>7. MergeTable(f, s)
    <2>1. f[0] = <<>> /\ \A i \in 1..n : f[i] = MergeInto(f[i - 1], s[i])
      BY <1>4, <1>5, <1>6 DEF IsTable
    <2>2. \A k \in 0..n : k = 0 \/ k \in 1..n
      BY <1>1
    <2>3. \A k \in 0..n : f[k] = IF k = 0 THEN <<>> ELSE MergeInto(f[k - 1], s[k])
      BY <2>1, <2>2
    <2>4. QED BY <1>5, <2>3 DEF MergeTable, n
  <1> DEFINE g == CHOOSE g : MergeTable(g, s)
  <1>8. MergeTable(g, s)
    BY <1>7
  <1>9. MergeConsecutive(s) = g[n]
    BY DEF MergeConsecutive, MergeTable, n
  <1> HIDE DEF g
  <1>10. \A k \in 0..n : g[k] = f[k]
    <2> DEFINE T == {k \in 0..n : g[k] = f[k]}
    <2>1. g[0] = <<>> /\ f[0] = <<>>
      BY <1>1, <1>7, <1>8 DEF MergeTable, n
    <2>2. ASSUME NEW k \in Nat, k < n, k \in T PROVE k + 1 \in T
      <3>1. k + 1 \in 0..n /\ k + 1 # 0 /\ (k + 1) - 1 = k
        BY <1>1, <2>2
      <3>2. g[k + 1] = MergeInto(g[k], s[k + 1])
        BY <1>8, <3>1 DEF MergeTable, n
      <3>3. f[k + 1] = MergeInto(f[k], s[k + 1])
        BY <1>7, <3>1 DEF MergeTable, n
      <3>4. QED BY <2>2, <3>1, <3>2, <3>3
    <2>3. 0 \in T
      BY <1>1, <2>1
    <2> HIDE DEF T
    <2>4. \A k \in 0..n : k \in T
      BY <1>1, <2>2, <2>3, Induction
    <2>5. QED BY <2>4 DEF T
  <1>11. n \in 0..n
    BY <1>1
  <1>12. QED BY <1>5, <1>7, <1>9, <1>10, <1>11 DEF V, n

LEMMA MergeEmpty == MergeConsecutive(<<>>) = <<>>
PROOF
  <1>1. <<>> \in Seq(ContentSet) /\ Len(<<>>) = 0
    OBVIOUS
  <1>2. PICK f \in [0..Len(<<>>) -> Seq(ContentSet)] :
          MergeTable(f, <<>>) /\ MergeConsecutive(<<>>) = f[Len(<<>>)]
    BY <1>1, MergedHasTable
  <1>3. QED BY <1>1, <1>2 DEF MergeTable

(* One more message is merged into what is merged of those before.         *)
LEMMA MergeAppend ==
  ASSUME NEW s \in Seq(ContentSet), NEW w \in ContentSet
  PROVE  /\ MergeConsecutive(s) \in Seq(ContentSet)
         /\ MergeConsecutive(Append(s, w)) = MergeInto(MergeConsecutive(s), w)
PROOF
  <1> DEFINE a == Append(s, w)
             n == Len(s)
  <1>1. /\ a \in Seq(ContentSet) /\ Len(a) = n + 1 /\ n \in Nat
        /\ (\A i \in 1..n : a[i] = s[i]) /\ a[n + 1] = w
    BY AppendedIs
  <1> HIDE DEF a
  <1>2. PICK f \in [0..Len(s) -> Seq(ContentSet)] :
          MergeTable(f, s) /\ MergeConsecutive(s) = f[Len(s)]
    BY MergedHasTable
  <1>3. PICK g \in [0..Len(a) -> Seq(ContentSet)] :
          MergeTable(g, a) /\ MergeConsecutive(a) = g[Len(a)]
    BY <1>1, MergedHasTable
  <1> HIDE DEF n
  <1>4. \A k \in 0..n : g[k] = f[k]
    <2> DEFINE T == {k \in 0..n : g[k] = f[k]}
    <2>1. g[0] = <<>> /\ f[0] = <<>>
      BY <1>1, <1>2, <1>3 DEF MergeTable, n
    <2>2. ASSUME NEW k \in Nat, k < n, k \in T PROVE k + 1 \in T
      <3>1. k + 1 \in 0..n /\ k + 1 \in 0..Len(a) /\ k + 1 # 0 /\ (k + 1) - 1 = k /\ k + 1 \in 1..n
        BY <1>1, <2>2
      <3>2. g[k + 1] = MergeInto(g[k], a[k + 1])
        BY <1>3, <3>1 DEF MergeTable
      <3>3. f[k + 1] = MergeInto(f[k], s[k + 1])
        BY <1>2, <3>1 DEF MergeTable, n
      <3>4. QED BY <1>1, <2>2, <3>1, <3>2, <3>3
    <2>3. 0 \in T
      BY <1>1, <2>1
    <2> HIDE DEF T
    <2>4. \A k \in 0..n : k \in T
      BY <1>1, <2>2, <2>3, Induction
    <2>5. QED BY <2>4 DEF T
  <1>5. g[n + 1] = MergeInto(g[n], w)
    <2>1. n + 1 \in 0..Len(a) /\ n + 1 # 0 /\ (n + 1) - 1 = n
      BY <1>1
    <2>2. g[n + 1] = MergeInto(g[n], a[n + 1])
      BY <1>3, <2>1 DEF MergeTable
    <2>3. QED BY <1>1, <2>2
  <1>6. n \in 0..n /\ n = Len(s)
    BY <1>1 DEF n
  <1>7. QED BY <1>1, <1>2, <1>3, <1>4, <1>5, <1>6 DEF a

(***************************************************************************)
(* Turns.                                                                  *)
(***************************************************************************)
LEMMA PartsOfAppend ==
  ASSUME NEW s \in Seq(ContentSet), NEW w \in ContentSet
  PROVE  /\ PartsOf(s) \in Seq(PartSet)
         /\ PartsOf(Append(s, w)) = PartsOf(s) \o w.parts
PROOF
  <1> DEFINE V == Seq(PartSet)
             parts == [i \in DOMAIN s |-> s[i].parts]
             a == Append(s, w)
             more == [i \in DOMAIN a |-> a[i].parts]
  <1>1. PartsOf(s) = FlattenSeq(parts) /\ PartsOf(a) = FlattenSeq(more)
    BY DEF PartsOf
  <1>2. \A x \in ContentSet : x.parts \in V
    BY DEF ContentSet
  <1>3. /\ Len(s) \in Nat /\ DOMAIN s = 1..Len(s) /\ DOMAIN a = 1..(Len(s) + 1)
        /\ \A i \in 1..Len(s) : s[i] \in ContentSet /\ a[i] = s[i]
        /\ a[Len(s) + 1] = w
    OBVIOUS
  <1>4. parts \in Seq(Seq(PartSet)) /\ more = Append(parts, w.parts) /\ w.parts \in Seq(PartSet)
    <2> HIDE DEF V, a
    <2>1. parts \in Seq(V) /\ Len(parts) = Len(s) /\ \A i \in 1..Len(s) : parts[i] = s[i].parts
      BY <1>2, <1>3
    <2>2. \A i \in DOMAIN a : a[i] \in ContentSet
      BY <1>3
    <2>3. more \in Seq(V) /\ Len(more) = Len(s) + 1
          /\ \A i \in 1..(Len(s) + 1) : more[i] = a[i].parts
      BY <1>2, <1>3, <2>2
    <2> HIDE DEF parts, more
    <2>4. w.parts \in V
      BY <1>2
    <2>5. Append(parts, w.parts) \in Seq(V) /\ Len(Append(parts, w.parts)) = Len(s) + 1
          /\ (\A i \in 1..Len(s) : Append(parts, w.parts)[i] = parts[i])
          /\ Append(parts, w.parts)[Len(s) + 1] = w.parts
      BY <2>1, <2>4
    <2>6. \A i \in 1..Len(more) : more[i] = Append(parts, w.parts)[i]
      BY <1>3, <2>1, <2>3, <2>5
    <2>7. more = Append(parts, w.parts)
      BY <2>3, <2>5, <2>6, SeqEqual
    <2>8. QED BY <2>1, <2>4, <2>7 DEF V
  <1> HIDE DEF parts, more, a
  <1>5. FlattenSeq(parts) \in Seq(PartSet) /\ FlattenSeq(more) = FlattenSeq(parts) \o w.parts
    BY <1>4, FlattenAppend
  <1>6. QED BY <1>1, <1>5 DEF a

LEMMA AContent == Content("user", <<>>) \in ContentSet
PROOF BY DEF Content, ContentSet

LEMMA PartsOfTyped ==
  ASSUME NEW s \in Seq(ContentSet)
  PROVE  PartsOf(s) \in Seq(PartSet)
PROOF BY AContent, PartsOfAppend

LEMMA PartsOfMerge ==
  ASSUME NEW turns \in Seq(ContentSet), NEW w \in ContentSet
  PROVE  PartsOf(MergeInto(turns, w)) = PartsOf(turns) \o w.parts
PROOF
  <1>1. CASE Continues(turns, w)
    <2> DEFINE n == Len(turns)
               m == MergeInto(turns, w)
               front == SubSeq(turns, 1, n - 1)
               x == turns[n]
               c == Content(w.role, x.parts \o w.parts)
    <2>1. turns # <<>>
      BY <1>1 DEF Continues
    <2>2. /\ front \in Seq(ContentSet) /\ x \in ContentSet /\ n \in Nat \ {0}
          /\ Len(front) = n - 1 /\ turns = Append(front, x)
      BY <2>1, SplitLast
    <2>3. /\ m \in Seq(ContentSet) /\ Len(m) = n /\ (\A j \in 1..(n - 1) : m[j] = turns[j]) /\ m[n] = c
      <3>1. /\ m \in Seq(ContentSet)
            /\ Len(m) = IF Continues(turns, w) THEN Len(turns) ELSE Len(turns) + 1
            /\ \A j \in 1..(Len(m) - 1) : m[j] = turns[j]
            /\ m[Len(m)] = IF Continues(turns, w)
                           THEN Content(w.role, turns[Len(turns)].parts \o w.parts) ELSE w
        BY MergeFacts
      <3> HIDE DEF m
      <3>2. QED BY <1>1, <3>1
    <2>4. c \in ContentSet /\ c.parts = x.parts \o w.parts
      <3>1. c \in ContentSet
        BY <2>2, <2>3
      <3>2. QED BY <3>1 DEF Content
    <2> HIDE DEF c, front, m, n, x
    <2>5. m = Append(front, c)
      <3>1. /\ Append(front, c) \in Seq(ContentSet) /\ Len(Append(front, c)) = n
            /\ (\A j \in 1..(n - 1) : Append(front, c)[j] = front[j]) /\ Append(front, c)[n] = c
        <4>1. (n - 1) + 1 = n
          BY <2>2
        <4>2. QED BY <2>2, <2>4, <4>1, AppendedIs
      <3>2. \A j \in 1..(n - 1) : turns[j] = front[j]
        <4>1. \A j \in 1..Len(front) : Append(front, x)[j] = front[j]
          BY <2>2, AppendedIs
        <4>2. QED BY <2>2, <4>1
      <3>3. \A j \in 1..n : j \in 1..(n - 1) \/ j = n
        BY <2>2
      <3>4. \A j \in 1..n : m[j] = Append(front, c)[j]
        BY <2>3, <3>1, <3>2, <3>3
      <3>5. QED BY <2>3, <3>1, <3>4, SeqEqual
    <2>6. PartsOf(Append(front, c)) = PartsOf(front) \o c.parts
      BY <2>2, <2>4, PartsOfAppend
    <2>7. PartsOf(Append(front, x)) = PartsOf(front) \o x.parts /\ PartsOf(front) \in Seq(PartSet)
      BY <2>2, PartsOfAppend
    <2> DEFINE p == PartsOf(front)
               q == x.parts
               r == w.parts
    <2>8. p \in Seq(PartSet) /\ q \in Seq(PartSet) /\ r \in Seq(PartSet)
      BY <2>2, <2>7 DEF ContentSet
    <2>a. PartsOf(m) = p \o (q \o r) /\ PartsOf(turns) = p \o q
      BY <2>2, <2>4, <2>5, <2>6, <2>7
    <2> HIDE DEF p, q, r
    <2>9. (p \o q) \o r = p \o (q \o r)
      BY SMTT(40), <2>8, Concats
    <2>10. QED BY <2>9, <2>a DEF m, r
  <1>2. CASE ~Continues(turns, w)
    <2>1. MergeInto(turns, w) = Append(turns, w)
      BY <1>2 DEF MergeInto, Continues
    <2>2. QED BY <2>1, PartsOfAppend
  <1>3. QED BY <1>1, <1>2

LEMMA AlternatingMerge ==
  ASSUME NEW turns \in Seq(ContentSet), NEW w \in ContentSet, Alternating(turns)
  PROVE  Alternating(MergeInto(turns, w))
PROOF
  <1> DEFINE m == MergeInto(turns, w)
             n == Len(turns)
  <1>1. /\ m \in Seq(ContentSet) /\ Last(m).role = w.role
        /\ Len(m) = IF Continues(turns, w) THEN n ELSE n + 1
        /\ (\A j \in 1..(Len(m) - 1) : m[j] = turns[j])
        /\ m # <<>>
    BY MergeFacts
  <1> HIDE DEF m
  <1>2. n \in Nat /\ Len(m) \in Nat \ {0} /\ m[Len(m)].role = w.role
    BY <1>1 DEF Last
  <1>3. SUFFICES ASSUME NEW i \in 1..(Len(m) - 1) PROVE m[i].role # m[i + 1].role
    BY DEF Alternating, m
  <1>4. \A j \in 1..(n - 1) : turns[j].role # turns[j + 1].role
    BY DEF Alternating
  <1>5. CASE i + 1 < Len(m)
    <2>1. i \in 1..(n - 1) /\ i + 1 \in 1..(Len(m) - 1)
      BY <1>1, <1>2, <1>5
    <2>2. QED BY <1>1, <1>4, <2>1
  <1>6. CASE i + 1 = Len(m) /\ Continues(turns, w)
    <2>1. i \in 1..(n - 1) /\ i + 1 = n /\ turns[n].role = w.role
      BY <1>1, <1>2, <1>6 DEF Continues, Last
    <2>2. QED BY <1>1, <1>2, <1>4, <1>6, <2>1
  <1>7. CASE i + 1 = Len(m) /\ ~Continues(turns, w)
    <2>1. i = n /\ n # 0
      BY <1>1, <1>2, <1>7
    <2>2. turns # <<>> /\ Last(turns) = turns[n]
      BY <2>1 DEF Last
    <2>3. QED BY <1>1, <1>2, <1>7, <2>1, <2>2 DEF Continues
  <1>8. i + 1 <= Len(m)
    BY <1>2
  <1>9. QED BY <1>2, <1>5, <1>6, <1>7, <1>8

(* Merging keeps every part in its order, and the roles of what it makes   *)
(* alternate; the last turn has the role of the last message.              *)
LEMMA Merged ==
  ASSUME NEW s \in Seq(ContentSet)
  PROVE  /\ MergeConsecutive(s) \in Seq(ContentSet)
         /\ PartsOf(MergeConsecutive(s)) = PartsOf(s) /\ Alternating(MergeConsecutive(s))
PROOF
  <1> DEFINE Right(u) == PartsOf(MergeConsecutive(u)) = PartsOf(u) /\ Alternating(MergeConsecutive(u))
             U == {u \in Seq(ContentSet) : Right(u)}
  <1>1. <<>> \in U
    <2>1. \A i \in 1..(Len(<<>>) - 1) : FALSE
      OBVIOUS
    <2>2. Alternating(<<>>)
      BY <2>1 DEF Alternating
    <2>3. QED BY <2>2, MergeEmpty
  <1>2. ASSUME NEW u \in Seq(ContentSet), NEW w \in ContentSet, u \in U PROVE Append(u, w) \in U
    <2>1. MergeConsecutive(u) \in Seq(ContentSet)
          /\ MergeConsecutive(Append(u, w)) = MergeInto(MergeConsecutive(u), w)
      BY MergeAppend
    <2>2. PartsOf(MergeInto(MergeConsecutive(u), w)) = PartsOf(MergeConsecutive(u)) \o w.parts
      BY <2>1, PartsOfMerge
    <2>3. PartsOf(Append(u, w)) = PartsOf(u) \o w.parts
      BY PartsOfAppend
    <2>4. Right(u)
      BY <1>2
    <2>5. Alternating(MergeInto(MergeConsecutive(u), w))
      BY <2>1, <2>4, AlternatingMerge
    <2>6. Append(u, w) \in Seq(ContentSet)
      BY AppendedIs
    <2>7. QED BY <2>1, <2>2, <2>3, <2>4, <2>5, <2>6
  <1>3. s \in U
    <2> HIDE DEF U
    <2>1. QED BY <1>1, <1>2, SeqInduction
  <1>4. MergeConsecutive(s) \in Seq(ContentSet)
    BY AContent, MergeAppend
  <1>5. QED BY <1>3, <1>4

(* The results of a turn with those that are due are of calls of the turn  *)
(* before, and only calls that are gone have neither.                      *)
Balanced(results, due, asks, gone) ==
  /\ results \cup due \subseteq asks
  /\ asks \ gone \subseteq results \cup due

(* The calls of each turn of the model, whose role is a, are answered in   *)
(* the turn after it, those that are due still and those gone aside.       *)
Answered(turns, a, due, gone) ==
  /\ \A j \in 1..Len(turns) : CallsIn(turns[j]) # {} => turns[j].role = a
  /\ \A j \in 1..(Len(turns) - 1) : CallsIn(turns[j]) # {} =>
       IF j + 1 < Len(turns) THEN Balanced(ResultsIn(turns[j + 1]), {}, CallsIn(turns[j]), gone)
       ELSE Balanced(ResultsIn(turns[j + 1]), due, CallsIn(turns[j]), gone)
  /\ turns # <<>> /\ Last(turns).role = a => CallsIn(Last(turns)) = due

LEMMA Balances ==
  ASSUME NEW results, NEW due, NEW asks, NEW gone, Balanced(results, due, asks, gone),
         NEW more, gone \subseteq more
  PROVE  /\ Balanced(results, due, asks, more)
         /\ due \subseteq more => Balanced(results, {}, asks, more)
         /\ \A r, rest : r \cup rest \subseteq due /\ due \ more \subseteq r \cup rest
              => Balanced(results \cup r, rest, asks, more)
PROOF BY DEF Balanced

LEMMA AnsweredByOthers ==
  ASSUME NEW turns \in Seq(ContentSet), NEW w \in ContentSet, NEW a, NEW due, NEW rest,
         NEW gone, NEW more, gone \subseteq more,
         Alternating(turns), Answered(turns, a, due, gone),
         w.role # a, CallsIn(w) = {},
         ResultsIn(w) \cup rest \subseteq due, due \ more \subseteq ResultsIn(w) \cup rest,
         due # {} /\ turns # <<>> => Last(turns).role \in {a, w.role} \/ due \subseteq more
  PROVE  Answered(MergeInto(turns, w), a, rest, more)
PROOF
  <1> DEFINE m == MergeInto(turns, w)
             n == Len(turns)
  <1>1. /\ m \in Seq(ContentSet) /\ m # <<>> /\ Last(m).role = w.role
        /\ Len(m) = IF Continues(turns, w) THEN n ELSE n + 1
        /\ (\A j \in 1..(Len(m) - 1) : m[j] = turns[j])
        /\ m[Len(m)] = IF Continues(turns, w) THEN Content(w.role, turns[n].parts \o w.parts) ELSE w
    BY MergeFacts
  <1>2. n \in Nat /\ Len(m) \in Nat \ {0} /\ Last(m) = m[Len(m)]
    BY <1>1 DEF Last
  <1> HIDE DEF m
  <1>3. CASE Continues(turns, w)
    <2>1. n # 0 /\ n \in 1..n /\ Last(turns) = turns[n] /\ turns[n].role = w.role /\ Len(m) = n
          /\ turns[n] \in ContentSet
      BY <1>1, <1>2, <1>3 DEF Continues, Last
    <2>2. CallsIn(turns[n]) = {}
      BY <2>1 DEF Answered
    <2>3. CallsIn(m[n]) = CallsIn(turns[n]) \cup CallsIn(w)
          /\ ResultsIn(m[n]) = ResultsIn(turns[n]) \cup ResultsIn(w)
      <3>1. turns[n].parts \in Seq(PartSet) /\ w.parts \in Seq(PartSet)
        BY <2>1 DEF ContentSet
      <3>2. Range(turns[n].parts \o w.parts) = Range(turns[n].parts) \cup Range(w.parts)
        BY <3>1, RangeConcat
      <3> DEFINE both == turns[n].parts \o w.parts
                 x == m[n]
                 y == turns[n]
      <3>3. x = Content(w.role, both)
        BY <1>1, <1>3, <2>1
      <3>4. Range(both) = Range(y.parts) \cup Range(w.parts)
        BY <3>2
      <3> HIDE DEF both, x, y
      <3>5. x.parts = both
        BY <3>3 DEF Content
      <3>6. /\ CallsIn(x) = {p.ref : p \in {q \in Range(both) : q.type = "call"}}
            /\ ResultsIn(x) = {p.ref : p \in {q \in Range(both) : q.type = "result"}}
        BY <3>5, CallsInAre
      <3>7. /\ CallsIn(y) = {p.ref : p \in {q \in Range(y.parts) : q.type = "call"}}
            /\ ResultsIn(y) = {p.ref : p \in {q \in Range(y.parts) : q.type = "result"}}
            /\ CallsIn(w) = {p.ref : p \in {q \in Range(w.parts) : q.type = "call"}}
            /\ ResultsIn(w) = {p.ref : p \in {q \in Range(w.parts) : q.type = "result"}}
        BY CallsInAre
      <3>8. CallsIn(x) = CallsIn(y) \cup CallsIn(w) /\ ResultsIn(x) = ResultsIn(y) \cup ResultsIn(w)
        BY ZenonT(60), <3>4, <3>6, <3>7
      <3>9. QED BY <3>8 DEF x, y
    <2>4. CallsIn(m[n]) = {}
      BY <2>2, <2>3
    <2>5. \A j \in 1..n : j \in 1..(n - 1) \/ j = n
      BY <1>2
    <2>6. \A j \in 1..n : CallsIn(m[j]) # {} => m[j].role = a
      BY <1>1, <2>1, <2>4, <2>5 DEF Answered
    <2>7. ASSUME NEW j \in 1..(n - 1), CallsIn(m[j]) # {}
          PROVE  IF j + 1 < n THEN Balanced(ResultsIn(m[j + 1]), {}, CallsIn(m[j]), more)
                 ELSE Balanced(ResultsIn(m[j + 1]), rest, CallsIn(m[j]), more)
      <3>1. m[j] = turns[j]
        BY <1>1, <2>1
      <3>2. CASE j + 1 < n
        <4>1. j + 1 \in 1..(n - 1)
          BY <1>2, <3>2
        <4>2. m[j + 1] = turns[j + 1]
          BY <1>1, <2>1, <4>1
        <4>3. Balanced(ResultsIn(turns[j + 1]), {}, CallsIn(turns[j]), gone)
          BY <2>7, <3>1, <3>2, <4>2 DEF Answered
        <4>4. Balanced(ResultsIn(turns[j + 1]), {}, CallsIn(turns[j]), more)
          BY <4>3, Balances
        <4>5. QED BY <3>1, <3>2, <4>2, <4>4
      <3>3. CASE ~(j + 1 < n)
        <4>1. j + 1 = n
          BY <1>2, <3>3
        <4>2. Balanced(ResultsIn(turns[n]), due, CallsIn(turns[j]), gone)
          BY <2>7, <3>1, <3>3, <4>1 DEF Answered
        <4>a. Balanced(ResultsIn(turns[n]) \cup ResultsIn(w), rest, CallsIn(turns[j]), more)
          BY <4>2, Balances
        <4>3. Balanced(ResultsIn(m[n]), rest, CallsIn(m[j]), more)
          BY <2>3, <3>1, <4>a
        <4>4. QED BY <3>3, <4>1, <4>3
      <3>4. QED BY <3>2, <3>3
    <2>8. Answered(m, a, rest, more)
      BY <1>1, <2>1, <2>6, <2>7 DEF Answered
    <2>9. QED BY <2>8 DEF m
  <1>4. CASE ~Continues(turns, w)
    <2>1. Len(m) = n + 1 /\ m[n + 1] = w /\ \A j \in 1..n : m[j] = turns[j]
      BY <1>1, <1>2, <1>4
    <2>2. \A j \in 1..(n + 1) : j \in 1..n \/ j = n + 1
      BY <1>2
    <2>3. \A j \in 1..(n + 1) : CallsIn(m[j]) # {} => m[j].role = a
      BY <2>1, <2>2 DEF Answered
    <2>4. ASSUME NEW j \in 1..n, CallsIn(m[j]) # {}
          PROVE  IF j + 1 < n + 1 THEN Balanced(ResultsIn(m[j + 1]), {}, CallsIn(m[j]), more)
                 ELSE Balanced(ResultsIn(m[j + 1]), rest, CallsIn(m[j]), more)
      <3>1. m[j] = turns[j] /\ turns[j].role = a
        BY <2>1, <2>4 DEF Answered
      <3>2. CASE j + 1 < n
        <4>1. j + 1 \in 1..n /\ j \in 1..(n - 1) /\ j + 1 < n + 1
          BY <1>2, <3>2
        <4>2. m[j + 1] = turns[j + 1]
          BY <2>1, <4>1
        <4>3. Balanced(ResultsIn(turns[j + 1]), {}, CallsIn(turns[j]), gone)
          BY <2>4, <3>1, <3>2, <4>1, <4>2 DEF Answered
        <4>4. Balanced(ResultsIn(turns[j + 1]), {}, CallsIn(turns[j]), more)
          BY <4>3, Balances
        <4>5. QED BY <3>1, <4>1, <4>2, <4>4
      <3>3. CASE j + 1 = n
        <4>1. j \in 1..(n - 1) /\ ~(j + 1 < n) /\ n \in 1..n /\ n # 0 /\ j + 1 < n + 1
          BY <1>2, <3>3
        <4>2. Balanced(ResultsIn(turns[n]), due, CallsIn(turns[j]), gone)
          BY <2>4, <3>1, <3>3, <4>1 DEF Answered
        <4>3. turns[j].role # turns[n].role
          BY <3>3, <4>1 DEF Alternating
        <4>4. turns # <<>> /\ Last(turns) = turns[n]
          BY <4>1 DEF Last
        <4>5. due = {} \/ due \subseteq more
          BY <1>4, <3>1, <4>3, <4>4 DEF Continues
        <4>6. Balanced(ResultsIn(turns[n]), {}, CallsIn(turns[j]), more)
          BY <4>2, <4>5, Balances
        <4>7. QED BY <2>1, <3>1, <3>3, <4>1, <4>6
      <3>4. CASE j = n
        <4>1. turns # <<>> /\ Last(turns) = turns[n] /\ ~(j + 1 < n + 1)
          BY <1>2, <3>4 DEF Last
        <4>2. CallsIn(turns[n]) = due
          BY <3>1, <3>4, <4>1 DEF Answered
        <4>3. Balanced({}, due, CallsIn(turns[n]), more)
          BY <4>2 DEF Balanced
        <4>4. Balanced({} \cup ResultsIn(w), rest, CallsIn(turns[n]), more)
          <5>1. more \subseteq more
            OBVIOUS
          <5>2. QED BY <4>3, <5>1, Balances
        <4>5. Balanced(ResultsIn(w), rest, CallsIn(turns[n]), more)
          BY <4>4
        <4>6. QED BY <2>1, <3>1, <3>4, <4>1, <4>5
      <3>5. j + 1 < n \/ j + 1 = n \/ j = n
        BY <1>2
      <3>6. QED BY <3>2, <3>3, <3>4, <3>5
    <2>5. (n + 1) - 1 = n
      BY SMTT(40), <1>2
    <2>6. Answered(m, a, rest, more)
      BY <1>1, <2>1, <2>3, <2>4, <2>5 DEF Answered
    <2>7. QED BY <2>6 DEF m
  <1>5. QED BY <1>3, <1>4

LEMMA AnsweredByModel ==
  ASSUME NEW turns \in Seq(ContentSet), NEW w \in ContentSet, NEW a, NEW due,
         NEW gone, Answered(turns, a, {}, gone), w.role = a, CallsIn(w) = due,
         turns # <<>> => Last(turns).role # a
  PROVE  Answered(MergeInto(turns, w), a, due, gone)
PROOF
  <1> DEFINE m == MergeInto(turns, w)
             n == Len(turns)
  <1>1. m = Append(turns, w)
    BY DEF MergeInto
  <1>2. /\ m \in Seq(ContentSet) /\ Len(m) = n + 1 /\ m[n + 1] = w
        /\ (\A j \in 1..n : m[j] = turns[j]) /\ n \in Nat
    BY <1>1, AppendedIs
  <1> HIDE DEF m
  <1>3. m # <<>> /\ Last(m) = w /\ (n + 1) - 1 = n
    BY <1>2 DEF Last
  <1>4. \A j \in 1..(n + 1) : CallsIn(m[j]) # {} => m[j].role = a
    <2>1. \A j \in 1..(n + 1) : j \in 1..n \/ j = n + 1
      BY <1>2
    <2>2. QED BY <1>2, <2>1 DEF Answered
  <1>5. ASSUME NEW j \in 1..n, CallsIn(m[j]) # {}
        PROVE  j + 1 < n + 1 /\ Balanced(ResultsIn(m[j + 1]), {}, CallsIn(m[j]), gone)
    <2>1. m[j] = turns[j] /\ turns[j].role = a
      BY <1>2, <1>5 DEF Answered
    <2>2. j # n
      <3>1. SUFFICES ASSUME j = n PROVE FALSE
        OBVIOUS
      <3>2. turns # <<>> /\ Last(turns) = turns[n]
        BY <1>2, <3>1 DEF Last
      <3>3. QED BY <2>1, <3>1, <3>2
    <2>3. j \in 1..(n - 1) /\ j + 1 \in 1..n /\ j + 1 < n + 1
      BY <1>2, <2>2
    <2>4. Balanced(ResultsIn(turns[j + 1]), {}, CallsIn(turns[j]), gone)
      BY <1>5, <2>1, <2>3 DEF Answered
    <2>5. QED BY <1>2, <2>1, <2>3, <2>4
  <1>6. Answered(m, a, due, gone)
    BY <1>2, <1>3, <1>4, <1>5 DEF Answered
  <1>7. QED BY <1>6 DEF m

(***************************************************************************)
(* The conversions of the clients.                                         *)
(***************************************************************************)
LEMMA Mapped ==
  ASSUME NEW S, NEW T, NEW f \in [S -> T], NEW s \in Seq(S), NEW e \in S
  PROVE  /\ [i \in DOMAIN s |-> f[s[i]]] \in Seq(T)
         /\ Len([i \in DOMAIN s |-> f[s[i]]]) = Len(s)
         /\ Range([i \in DOMAIN s |-> f[s[i]]]) = {f[x] : x \in Range(s)}
         /\ [i \in DOMAIN Append(s, e) |-> f[Append(s, e)[i]]]
              = Append([i \in DOMAIN s |-> f[s[i]]], f[e])
PROOF
  <1> DEFINE t == [i \in DOMAIN s |-> f[s[i]]]
             a == Append(s, e)
             u == [i \in DOMAIN a |-> f[a[i]]]
  <1>1. /\ Len(s) \in Nat /\ DOMAIN s = 1..Len(s) /\ (\A i \in 1..Len(s) : s[i] \in S)
        /\ a \in Seq(S) /\ Len(a) = Len(s) + 1 /\ DOMAIN a = 1..(Len(s) + 1)
        /\ (\A i \in 1..Len(s) : a[i] = s[i]) /\ a[Len(s) + 1] = e
    BY AppendedIs
  <1> HIDE DEF a
  <1>2. t \in Seq(T) /\ Len(t) = Len(s) /\ \A i \in 1..Len(s) : t[i] = f[s[i]]
    BY <1>1
  <1>3. u \in Seq(T) /\ Len(u) = Len(s) + 1 /\ \A i \in 1..(Len(s) + 1) : u[i] = f[a[i]]
    <2>1. \A i \in 1..(Len(s) + 1) : a[i] \in S
      BY <1>1
    <2>2. QED BY <1>1, <2>1
  <1>4. Range(t) = {f[x] : x \in Range(s)}
    BY <1>1 DEF Range
  <1> HIDE DEF t, u
  <1>5. /\ Append(t, f[e]) \in Seq(T) /\ Len(Append(t, f[e])) = Len(s) + 1
        /\ (\A i \in 1..Len(s) : Append(t, f[e])[i] = t[i]) /\ Append(t, f[e])[Len(s) + 1] = f[e]
    BY <1>2
  <1>6. \A i \in 1..(Len(s) + 1) : i \in 1..Len(s) \/ i = Len(s) + 1
    BY <1>1
  <1>7. \A i \in 1..(Len(s) + 1) : u[i] = Append(t, f[e])[i]
    BY <1>1, <1>2, <1>3, <1>5, <1>6
  <1>8. u = Append(t, f[e])
    BY <1>3, <1>5, <1>7, SeqEqual
  <1>9. QED BY <1>2, <1>4, <1>8 DEF t, u, a

LEMMA PartFacts ==
  /\ \A r \in Refs : Part("call", r) \in PartSet /\ Part("result", r) \in PartSet
  /\ \A r : Part("call", r).type = "call" /\ Part("call", r).ref = r
            /\ Part("result", r).type = "result" /\ Part("result", r).ref = r
  /\ NoText \in PartSet /\ NoText.type = "text" /\ <<>> \in Refs
  /\ \A n \in Names : <<n>> \in Refs
PROOF
  <1>1. <<>> \in Refs /\ \A n \in Names : <<n>> \in Refs
    BY DEF Refs
  <1>2. QED BY <1>1 DEF Part, PartSet, NoText

(* The calls among the parts.                                              *)
PartsThatCall(parts) == Selected(parts, LAMBDA p : p.type = "call")

LEMMA CallPartsAre ==
  ASSUME NEW parts \in Seq(PartSet)
  PROVE  PartsThatCall(parts) = Among(parts, {p \in PartSet : p.type = "call"})
PROOF
  <1> DEFINE T == {p \in PartSet : p.type = "call"}
  <1>1. \A i \in DOMAIN parts : parts[i] \in PartSet
    OBVIOUS
  <1>2. [i \in DOMAIN parts |-> IF parts[i].type = "call" THEN <<parts[i]>> ELSE <<>>]
          = [i \in DOMAIN parts |-> IF parts[i] \in T THEN <<parts[i]>> ELSE <<>>]
    BY <1>1
  <1> HIDE DEF T
  <1>3. QED BY <1>2 DEF PartsThatCall, Selected, Among, T

(* The parts of a message with calls: its text and a part for each call.   *)
LEMMA CallingParts ==
  ASSUME NEW m, NEW cs \in Seq(PartSet), \A p \in Range(cs) : p.type = "call",
         NEW parts, parts = OrNoText(TextParts(m) \o cs)
  PROVE  /\ parts \in Seq(PartSet)
         /\ {p.ref : p \in {q \in Range(parts) : q.type = "call"}} = {p.ref : p \in Range(cs)}
         /\ {p.ref : p \in {q \in Range(parts) : q.type = "result"}} = {}
         /\ PartsThatCall(parts) = cs
PROOF
  <1> DEFINE T == {p \in PartSet : p.type = "call"}
             one == <<NoText>>
  <1>1. /\ one \in Seq(PartSet) /\ <<>> \in Seq(PartSet) /\ Range(one) = {NoText} /\ Range(<<>>) = {}
        /\ Range(cs) \subseteq T
    <2>1. \A i \in DOMAIN cs : cs[i] \in PartSet
      OBVIOUS
    <2>2. Range(cs) \subseteq PartSet
      BY <2>1 DEF Range
    <2>3. QED BY <2>2, PartFacts DEF Range
  <1>2. Among(one, T) = <<>> /\ Among(cs, T) = cs
    <2>1. Range(one) \cap T = {}
      BY <1>1, PartFacts
    <2>2. Among(one, T) = <<>>
      BY <1>1, <2>1, AmongNone
    <2>3. Among(cs, T) = cs
      BY <1>1, AmongAll
    <2>4. QED BY <2>2, <2>3
  <1> HIDE DEF one
  <1>3. /\ parts \in Seq(PartSet) /\ Range(cs) \subseteq Range(parts)
        /\ Range(parts) \subseteq Range(cs) \cup {NoText} /\ Among(parts, T) = cs
    <2>1. CASE TextParts(m) = one
      <3>1. /\ one \o cs \in Seq(PartSet) /\ Range(one \o cs) = {NoText} \cup Range(cs)
            /\ Among(one \o cs, T) = Among(one, T) \o Among(cs, T)
        <4>1. one \o cs \in Seq(PartSet)
          BY <1>1, Concats
        <4>2. Range(one \o cs) = Range(one) \cup Range(cs)
          BY <1>1, RangeConcat
        <4>3. Among(one \o cs, T) = Among(one, T) \o Among(cs, T)
          BY <1>1, AmongConcat
        <4>4. QED BY <1>1, <4>1, <4>2, <4>3
      <3>2. one \o cs # <<>>
        <4>1. Range(one \o cs) # {}
          BY <3>1
        <4>2. QED BY <1>1, <4>1
      <3>3. parts = one \o cs
        BY <2>1, <3>2 DEF OrNoText
      <3>4. <<>> \o cs = cs
        OBVIOUS
      <3>5. QED BY <1>2, <3>1, <3>3, <3>4
    <2>2. CASE TextParts(m) = <<>> /\ cs # <<>>
      <3>1. <<>> \o cs = cs
        OBVIOUS
      <3>2. parts = cs
        BY <2>2, <3>1 DEF OrNoText
      <3>3. QED BY <1>2, <3>2
    <2>3. CASE TextParts(m) = <<>> /\ cs = <<>>
      <3>1. <<>> \o <<>> = <<>>
        OBVIOUS
      <3>2. parts = one
        BY <2>3, <3>1 DEF OrNoText, one
      <3>3. QED BY <1>1, <1>2, <2>3, <3>2
    <2>4. QED BY <2>1, <2>2, <2>3 DEF TextParts, one
  <1>4. PartsThatCall(parts) = Among(parts, T)
    BY <1>3, CallPartsAre
  <1>5. \A p \in Range(parts) : p.type # "result" /\ (p.type = "call" <=> p \in Range(cs))
    BY <1>3, PartFacts
  <1>6. QED BY <1>3, <1>4, <1>5

(* The calls with the given references.                                    *)
CallsWith(refs) == {Part("call", r) : r \in refs}

LEMMA RefsAre ==
  ASSUME NEW refs, NEW ps, ps = CallsWith(refs)
  PROVE  (\A p \in ps : p.type = "call") /\ refs = {p.ref : p \in ps}
PROOF
  <1>1. \A r \in refs : Part("call", r) \in ps /\ Part("call", r).ref = r
    BY PartFacts DEF CallsWith
  <1>2. \A p \in ps : \E r \in refs : p = Part("call", r)
    BY DEF CallsWith
  <1>3. \A p \in ps : p.type = "call" /\ p.ref \in refs
    BY <1>2, PartFacts
  <1>4. \A r \in refs : \E p \in ps : p.ref = r
    BY <1>1
  <1> HIDE DEF CallsWith
  <1>5. QED BY <1>3, <1>4

LEMMA PartsOfCalls ==
  ASSUME NEW cs \in Seq(ToolCallRec)
  PROVE  /\ [i \in DOMAIN cs |-> RequestToolCall(cs[i])] \in Seq(PartSet)
         /\ Range([i \in DOMAIN cs |-> RequestToolCall(cs[i])]) = CallsWith({c.id : c \in Range(cs)})
         /\ [i \in DOMAIN cs |-> FunctionCall(cs[i])] \in Seq(PartSet)
         /\ Range([i \in DOMAIN cs |-> FunctionCall(cs[i])]) = CallsWith({<<c.name>> : c \in Range(cs)})
         /\ [i \in DOMAIN cs |-> OllamaToolCall(cs[i])] \in Seq(PartSet)
         /\ Range([i \in DOMAIN cs |-> OllamaToolCall(cs[i])]) = {Part("call", <<>>) : c \in Range(cs)}
         /\ Len([i \in DOMAIN cs |-> OllamaToolCall(cs[i])]) = Len(cs)
PROOF
  <1>1. Len(cs) \in Nat /\ DOMAIN cs = 1..Len(cs) /\ \A i \in 1..Len(cs) : cs[i] \in ToolCallRec
    OBVIOUS
  <1>2. \A c \in ToolCallRec : c.id \in Refs /\ <<c.name>> \in Refs /\ <<>> \in Refs
    BY PartFacts DEF ToolCallRec
  <1>3. \A c \in ToolCallRec : Part("call", c.id) \in PartSet /\ Part("call", <<c.name>>) \in PartSet
                           /\ Part("call", <<>>) \in PartSet
    BY <1>2, PartFacts
  <1> DEFINE R(c) == Part("call", c.id)
             F(c) == Part("call", <<c.name>>)
             O(c) == Part("call", <<>>)
  <1>4. /\ [i \in DOMAIN cs |-> RequestToolCall(cs[i])] = [i \in 1..Len(cs) |-> R(cs[i])]
        /\ [i \in DOMAIN cs |-> FunctionCall(cs[i])] = [i \in 1..Len(cs) |-> F(cs[i])]
        /\ [i \in DOMAIN cs |-> OllamaToolCall(cs[i])] = [i \in 1..Len(cs) |-> O(cs[i])]
    BY <1>1 DEF RequestToolCall, FunctionCall, OllamaToolCall
  <1>5. \A c \in ToolCallRec : R(c) \in PartSet /\ F(c) \in PartSet /\ O(c) \in PartSet
    BY <1>3
  <1> HIDE DEF R, F, O
  <1>6. /\ [i \in 1..Len(cs) |-> R(cs[i])] \in Seq(PartSet)
        /\ [i \in 1..Len(cs) |-> F(cs[i])] \in Seq(PartSet)
        /\ [i \in 1..Len(cs) |-> O(cs[i])] \in Seq(PartSet)
        /\ Len([i \in 1..Len(cs) |-> O(cs[i])]) = Len(cs)
    BY <1>1, <1>5
  <1>7. /\ Range([i \in 1..Len(cs) |-> R(cs[i])]) = {R(c) : c \in Range(cs)}
        /\ Range([i \in 1..Len(cs) |-> F(cs[i])]) = {F(c) : c \in Range(cs)}
        /\ Range([i \in 1..Len(cs) |-> O(cs[i])]) = {O(c) : c \in Range(cs)}
    BY <1>1 DEF Range
  <1>8. /\ {R(c) : c \in Range(cs)} = CallsWith({c.id : c \in Range(cs)})
        /\ {F(c) : c \in Range(cs)} = CallsWith({<<c.name>> : c \in Range(cs)})
    BY DEF R, F, CallsWith
  <1>9. QED BY <1>4, <1>6, <1>7, <1>8 DEF O

(* A result, and what the model said, as messages on the wire.             *)
LEMMA ResultContent ==
  ASSUME NEW role \in {"system", "user", "assistant", "tool", "model"}, NEW r \in Refs,
         NEW w, w = Content(role, <<Part("result", r)>>)
  PROVE  w \in ContentSet /\ w.role = role /\ CallsIn(w) = {} /\ ResultsIn(w) = {r}
PROOF
  <1> DEFINE parts == <<Part("result", r)>>
  <1>1. Part("result", r) \in PartSet
    BY PartFacts
  <1>2. parts \in Seq(PartSet) /\ Range(parts) = {Part("result", r)} /\ parts[1] = Part("result", r)
        /\ DOMAIN parts = {1}
    BY <1>1 DEF Range
  <1> HIDE DEF parts
  <1>3. w = [role |-> role, parts |-> parts]
    BY DEF Content, parts
  <1>4. w \in ContentSet /\ w.role = role /\ w.parts = parts
    <2>1. [role |-> role, parts |-> parts] \in ContentSet
      BY <1>2 DEF ContentSet
    <2>2. QED BY <1>3, <2>1
  <1>5. CallsIn(w) = {} /\ ResultsIn(w) = {r}
    BY <1>2, <1>4, CallsInAre, PartFacts
  <1>6. QED BY <1>4, <1>5

LEMMA CallingContent ==
  ASSUME NEW role \in {"system", "user", "assistant", "tool", "model"}, NEW m,
         NEW cs \in Seq(PartSet), NEW refs, Range(cs) = CallsWith(refs),
         NEW w, w = Content(role, OrNoText(TextParts(m) \o cs))
  PROVE  w \in ContentSet /\ w.role = role /\ ResultsIn(w) = {} /\ CallsIn(w) = refs
PROOF
  <1> DEFINE parts == OrNoText(TextParts(m) \o cs)
  <1>1. w = [role |-> role, parts |-> parts]
    BY DEF Content
  <1>0. (\A p \in Range(cs) : p.type = "call") /\ refs = {p.ref : p \in Range(cs)}
    BY RefsAre
  <1>2. /\ parts \in Seq(PartSet)
        /\ {p.ref : p \in {q \in Range(parts) : q.type = "call"}} = {p.ref : p \in Range(cs)}
        /\ {p.ref : p \in {q \in Range(parts) : q.type = "result"}} = {}
    BY <1>0, CallingParts
  <1> HIDE DEF parts
  <1>3. w \in ContentSet /\ w.role = role /\ w.parts = parts
    <2>1. [role |-> role, parts |-> parts] \in ContentSet
      BY <1>2 DEF ContentSet
    <2>2. QED BY <1>1, <2>1
  <1>4. CallsIn(w) = refs /\ ResultsIn(w) = {}
    BY <1>0, <1>2, <1>3, CallsInAre
  <1>5. QED BY <1>2, <1>3, <1>4

LEMMA MessageFields ==
  ASSUME NEW m \in MessageSet
  PROVE  m.calls \in Seq(ToolCallRec) /\ m.answers \in Refs /\ m.role \in {"system", "user", "assistant", "tool"}
PROOF BY DEF MessageSet

(* What a message becomes for each service.                                *)
LEMMA OpenAIConverts ==
  ASSUME NEW m \in MessageSet
  PROVE  /\ OpenAIMessage(m) \in ContentSet /\ OpenAIMessage(m).role = m.role
         /\ CallsIn(OpenAIMessage(m)) = IF m.role = "tool" THEN {} ELSE {c.id : c \in Range(m.calls)}
         /\ ResultsIn(OpenAIMessage(m)) = IF m.role = "tool" THEN {m.answers} ELSE {}
PROOF
  <1>1. m.calls \in Seq(ToolCallRec) /\ m.answers \in Refs /\ m.role \in {"system", "user", "assistant", "tool"}
    BY MessageFields
  <1>2. CASE m.role = "tool"
    <2>1. OpenAIMessage(m) = Content("tool", <<Part("result", m.answers)>>)
      BY <1>2 DEF OpenAIMessage
    <2>2. QED BY <1>1, <1>2, <2>1, ResultContent
  <1>3. CASE m.role # "tool"
    <2> DEFINE cs == [i \in DOMAIN m.calls |-> RequestToolCall(m.calls[i])]
    <2>1. OpenAIMessage(m) = Content(m.role, OrNoText(TextParts(m) \o cs))
      BY <1>3 DEF OpenAIMessage
    <2>2. cs \in Seq(PartSet) /\ Range(cs) = CallsWith({c.id : c \in Range(m.calls)})
      BY <1>1, PartsOfCalls
    <2> HIDE DEF cs
    <2> DEFINE refs == {c.id : c \in Range(m.calls)}
    <2> HIDE DEF refs
    <2>3. Range(cs) = CallsWith(refs)
      BY <2>2 DEF refs
    <2>5. /\ OpenAIMessage(m) \in ContentSet /\ OpenAIMessage(m).role = m.role
          /\ ResultsIn(OpenAIMessage(m)) = {} /\ CallsIn(OpenAIMessage(m)) = refs
      BY <1>1, <2>1, <2>2, <2>3, CallingContent
    <2>6. QED BY <1>3, <2>5 DEF refs
  <1>4. QED BY <1>2, <1>3

LEMMA AnthropicConverts ==
  ASSUME NEW m \in MessageSet
  PROVE  /\ AnthropicMessage(m) \in ContentSet
         /\ AnthropicMessage(m).role = IF m.role = "tool" THEN "user" ELSE m.role
         /\ CallsIn(AnthropicMessage(m)) = IF m.role = "tool" THEN {} ELSE {c.id : c \in Range(m.calls)}
         /\ ResultsIn(AnthropicMessage(m)) = IF m.role = "tool" THEN {m.answers} ELSE {}
PROOF
  <1>1. m.calls \in Seq(ToolCallRec) /\ m.answers \in Refs /\ m.role \in {"system", "user", "assistant", "tool"}
    BY MessageFields
  <1>2. CASE m.role = "tool"
    <2>1. AnthropicMessage(m) = Content("user", <<Part("result", m.answers)>>)
      BY <1>2 DEF AnthropicMessage
    <2>2. QED BY <1>1, <1>2, <2>1, ResultContent
  <1>3. CASE m.role # "tool"
    <2> DEFINE cs == [i \in DOMAIN m.calls |-> RequestToolCall(m.calls[i])]
    <2>1. AnthropicMessage(m) = Content(m.role, OrNoText(TextParts(m) \o cs))
      BY <1>3 DEF AnthropicMessage, ToolUse, RequestToolCall
    <2>2. cs \in Seq(PartSet) /\ Range(cs) = CallsWith({c.id : c \in Range(m.calls)})
      BY <1>1, PartsOfCalls
    <2> HIDE DEF cs
    <2> DEFINE refs == {c.id : c \in Range(m.calls)}
    <2> HIDE DEF refs
    <2>3. Range(cs) = CallsWith(refs)
      BY <2>2 DEF refs
    <2>5. /\ AnthropicMessage(m) \in ContentSet /\ AnthropicMessage(m).role = m.role
          /\ ResultsIn(AnthropicMessage(m)) = {} /\ CallsIn(AnthropicMessage(m)) = refs
      BY <1>1, <2>1, <2>2, <2>3, CallingContent
    <2>6. QED BY <1>3, <2>5 DEF refs
  <1>4. QED BY <1>2, <1>3

LEMMA GoogleConverts ==
  ASSUME NEW m \in MessageSet, m.role # "system", m.role # "assistant" => m.calls = <<>>
  PROVE  /\ GoogleMessage(m) \in ContentSet
         /\ GoogleMessage(m).role = IF m.role = "assistant" THEN "model" ELSE "user"
         /\ CallsIn(GoogleMessage(m)) = {<<c.name>> : c \in Range(m.calls)}
         /\ ResultsIn(GoogleMessage(m)) = IF m.role = "tool" THEN {m.answers} ELSE {}
PROOF
  <1>1. m.calls \in Seq(ToolCallRec) /\ m.answers \in Refs /\ m.role \in {"user", "assistant", "tool"}
    BY MessageFields
  <1>2. CASE m.role = "tool"
    <2>1. GoogleMessage(m) = Content("user", <<Part("result", m.answers)>>)
      BY <1>2 DEF GoogleMessage
    <2>2. {<<c.name>> : c \in Range(m.calls)} = {}
      <3>1. Range(m.calls) = {}
        BY <1>2 DEF Range
      <3>2. QED BY <3>1
    <2>3. /\ GoogleMessage(m) \in ContentSet /\ GoogleMessage(m).role = "user"
          /\ CallsIn(GoogleMessage(m)) = {} /\ ResultsIn(GoogleMessage(m)) = {m.answers}
      BY <1>1, <2>1, ResultContent
    <2>4. QED BY <1>2, <2>2, <2>3
  <1>3. CASE m.role = "user"
    <2> DEFINE cs == <<>>
               none == {}
    <2>1. cs \in Seq(PartSet) /\ Range(cs) = {} /\ Range(m.calls) = {}
      BY <1>3 DEF Range
    <2>2. CallsWith(none) = none
      BY DEF CallsWith
    <2>3. {<<c.name>> : c \in Range(m.calls)} = none
      BY <2>1
    <2>4. GoogleMessage(m) = Content("user", OrNoText(TextParts(m) \o cs))
      BY <1>3 DEF GoogleMessage, TextParts, OrNoText
    <2>5. Range(cs) = CallsWith(none)
      BY <2>1, <2>2
    <2> HIDE DEF cs, none
    <2>6. /\ GoogleMessage(m) \in ContentSet /\ GoogleMessage(m).role = "user"
          /\ ResultsIn(GoogleMessage(m)) = {} /\ CallsIn(GoogleMessage(m)) = none
      BY <2>1, <2>4, <2>5, CallingContent
    <2>7. QED BY <1>3, <2>3, <2>6
  <1>4. CASE m.role = "assistant"
    <2> DEFINE cs == [i \in DOMAIN m.calls |-> FunctionCall(m.calls[i])]
    <2>1. GoogleMessage(m) = Content("model", OrNoText(TextParts(m) \o cs))
      BY <1>4 DEF GoogleMessage
    <2>2. cs \in Seq(PartSet) /\ Range(cs) = CallsWith({<<c.name>> : c \in Range(m.calls)})
      BY <1>1, PartsOfCalls
    <2> HIDE DEF cs
    <2> DEFINE refs == {<<c.name>> : c \in Range(m.calls)}
    <2> HIDE DEF refs
    <2>3. Range(cs) = CallsWith(refs)
      BY <2>2 DEF refs
    <2>5. /\ GoogleMessage(m) \in ContentSet /\ GoogleMessage(m).role = "model"
          /\ ResultsIn(GoogleMessage(m)) = {} /\ CallsIn(GoogleMessage(m)) = refs
      BY <1>1, <2>1, <2>2, <2>3, CallingContent
    <2>6. QED BY <1>4, <2>5 DEF refs
  <1>5. QED BY <1>1, <1>2, <1>3, <1>4

LEMMA OllamaConverts ==
  ASSUME NEW m \in MessageSet
  PROVE  IF m.role = "tool"
         THEN PartsThatCall(OllamaMessage(m).parts) = <<>> /\ ResultsIn(OllamaMessage(m)) # {}
         ELSE Len(PartsThatCall(OllamaMessage(m).parts)) = Len(m.calls)
PROOF
  <1>1. m.calls \in Seq(ToolCallRec) /\ m.answers \in Refs /\ m.role \in {"system", "user", "assistant", "tool"}
        /\ <<>> \in Refs
    BY MessageFields, PartFacts
  <1>2. CASE m.role = "tool"
    <2> DEFINE parts == <<Part("result", <<>>)>>
               T == {p \in PartSet : p.type = "call"}
    <2>1. OllamaMessage(m) = Content("tool", parts)
      BY <1>2 DEF OllamaMessage
    <2>2. ResultsIn(OllamaMessage(m)) = {<<>>}
      BY <1>1, <2>1, ResultContent
    <2>3. parts \in Seq(PartSet) /\ Range(parts) = {Part("result", <<>>)}
      BY <1>1, PartFacts DEF Range
    <2>4. Range(parts) \cap T = {}
      BY <2>3, PartFacts
    <2> HIDE DEF parts, T
    <2>5. Among(parts, T) = <<>>
      BY <2>3, <2>4, AmongNone
    <2>6. PartsThatCall(parts) = <<>>
      BY <2>3, <2>5, CallPartsAre DEF T
    <2>7. OllamaMessage(m).parts = parts
      BY <2>1 DEF Content
    <2>8. QED BY <1>2, <2>2, <2>6, <2>7
  <1>3. CASE m.role # "tool"
    <2> DEFINE cs == [i \in DOMAIN m.calls |-> OllamaToolCall(m.calls[i])]
               parts == OrNoText(TextParts(m) \o cs)
    <2>1. OllamaMessage(m).parts = parts
      BY <1>3 DEF OllamaMessage, Content
    <2>2. cs \in Seq(PartSet) /\ Range(cs) = {Part("call", <<>>) : c \in Range(m.calls)}
          /\ Len(cs) = Len(m.calls)
      BY <1>1, PartsOfCalls
    <2> HIDE DEF cs
    <2>3. \A p \in Range(cs) : p.type = "call"
      BY <2>2, PartFacts
    <2>4. PartsThatCall(parts) = cs
      BY <2>2, <2>3, CallingParts
    <2>5. QED BY <1>3, <2>1, <2>2, <2>4
  <1>4. QED BY <1>2, <1>3

(***************************************************************************)
(* The requests of a conversation that grows.                              *)
(***************************************************************************)
Speech == {m \in MessageSet : m.role # "system" /\ (m.role # "assistant" => m.calls = <<>>)}
Plain == {m \in MessageSet : m.role # "assistant" => m.calls = <<>>}

LEMMA ConversationIs ==
  ASSUME NEW msgs \in Seq(Plain)
  PROVE  /\ Conversation(msgs) \in Seq(Speech)
         /\ \A m \in Speech : Conversation(Append(msgs, m)) = Append(Conversation(msgs), m)
         /\ Range(Conversation(msgs)) = Range(msgs) \cap Speech
PROOF
  <1>1. \A u \in Seq(Plain) : Conversation(u) = Among(u, Speech)
    <2>1. SUFFICES ASSUME NEW u \in Seq(Plain) PROVE Conversation(u) = Among(u, Speech)
      OBVIOUS
    <2>2. \A i \in DOMAIN u : u[i] \in Plain
      OBVIOUS
    <2>3. \A i \in DOMAIN u : InConversation(u[i]) <=> u[i] \in Speech
      BY <2>2 DEF InConversation, Speech, Plain
    <2>4. [i \in DOMAIN u |-> IF InConversation(u[i]) THEN <<u[i]>> ELSE <<>>]
            = [i \in DOMAIN u |-> IF u[i] \in Speech THEN <<u[i]>> ELSE <<>>]
      BY <2>3
    <2>5. QED BY <2>4 DEF Conversation, Selected, Among
  <1>2. Speech \subseteq Plain
    BY DEF Speech, Plain
  <1>3. Among(msgs, Speech) \in Seq(Plain) /\ Range(Among(msgs, Speech)) = Range(msgs) \cap Speech
    BY AmongTyped, AmongRange
  <1>4. Among(msgs, Speech) \in Seq(Speech)
    BY <1>3 DEF Range
  <1>5. ASSUME NEW m \in Speech
        PROVE  Conversation(Append(msgs, m)) = Append(Conversation(msgs), m)
    <2>1. m \in Plain
      BY <1>2
    <2>2. Append(msgs, m) \in Seq(Plain)
      BY <2>1, AppendedIs
    <2>3. Among(Append(msgs, m), Speech) = Append(Among(msgs, Speech), m)
      BY <2>1, AmongAppend
    <2>4. QED BY <1>1, <2>2, <2>3
  <1>6. QED BY <1>1, <1>3, <1>4, <1>5

LEMMA Speaking ==
  ASSUME NEW m \in Speech
  PROVE  /\ m \in MessageSet /\ m.role \in {"user", "assistant", "tool"}
         /\ OpenAIMessage(m) \in ContentSet /\ AnthropicMessage(m) \in ContentSet
         /\ GoogleMessage(m) \in ContentSet
PROOF
  <1>1. m \in MessageSet /\ m.role # "system" /\ (m.role # "assistant" => m.calls = <<>>)
    BY DEF Speech
  <1>2. m.role \in {"user", "assistant", "tool"}
    BY <1>1, MessageFields
  <1>3. OpenAIMessage(m) \in ContentSet
    BY <1>1, OpenAIConverts
  <1>4. AnthropicMessage(m) \in ContentSet
    BY <1>1, AnthropicConverts
  <1>5. GoogleMessage(m) \in ContentSet
    BY <1>1, GoogleConverts
  <1>6. QED BY <1>1, <1>2, <1>3, <1>4, <1>5

LEMMA PlainIsMessage ==
  ASSUME NEW m \in Plain PROVE m \in MessageSet /\ (m \in Speech <=> m.role # "system")
PROOF BY DEF Plain, Speech

LEMMA OpenAIRequestIs ==
  ASSUME NEW msgs \in Seq(Plain)
  PROVE  /\ OpenAIRequest(msgs) \in Seq(ContentSet)
         /\ \A m \in Plain : OpenAIRequest(Append(msgs, m)) = Append(OpenAIRequest(msgs), OpenAIMessage(m))
PROOF
  <1> DEFINE f == [m \in Plain |-> OpenAIMessage(m)]
  <1>1. \A m \in Plain : OpenAIMessage(m) \in ContentSet
    BY PlainIsMessage, OpenAIConverts
  <1>2. f \in [Plain -> ContentSet] /\ \A m \in Plain : f[m] = OpenAIMessage(m)
    BY <1>1
  <1> HIDE DEF f
  <1>3. ASSUME NEW u \in Seq(Plain) PROVE [i \in DOMAIN u |-> f[u[i]]] = OpenAIRequest(u)
    <2>1. \A i \in DOMAIN u : u[i] \in Plain
      OBVIOUS
    <2>2. \A i \in DOMAIN u : f[u[i]] = OpenAIMessage(u[i])
      BY <1>2, <2>1
    <2>3. QED BY <2>2 DEF OpenAIRequest
  <1>4. OpenAIRequest(msgs) \in Seq(ContentSet)
    <2>1. CASE Plain = {}
      <3>1. msgs = <<>>
        BY <2>1
      <3>2. QED BY <3>1 DEF OpenAIRequest
    <2>2. CASE Plain # {}
      <3>1. PICK e : e \in Plain
        BY <2>2
      <3>2. [i \in DOMAIN msgs |-> f[msgs[i]]] \in Seq(ContentSet)
        BY <1>2, <3>1, Mapped
      <3>3. QED BY <1>3, <3>2
    <2>3. QED BY <2>1, <2>2
  <1>5. ASSUME NEW m \in Plain
        PROVE  OpenAIRequest(Append(msgs, m)) = Append(OpenAIRequest(msgs), OpenAIMessage(m))
    <2>1. [i \in DOMAIN Append(msgs, m) |-> f[Append(msgs, m)[i]]]
            = Append([i \in DOMAIN msgs |-> f[msgs[i]]], f[m])
      BY <1>2, Mapped
    <2>2. Append(msgs, m) \in Seq(Plain)
      BY AppendedIs
    <2>3. QED BY <1>2, <1>3, <2>1, <2>2
  <1>6. QED BY <1>4, <1>5

LEMMA AnthropicContentsAre ==
  ASSUME NEW msgs \in Seq(Plain)
  PROVE  /\ AnthropicContents(msgs) \in Seq(ContentSet)
         /\ \A m \in Speech : AnthropicContents(Append(msgs, m))
                                = Append(AnthropicContents(msgs), AnthropicMessage(m))
PROOF
  <1> DEFINE f == [m \in Speech |-> AnthropicMessage(m)]
             g == Conversation(msgs)
  <1>1. \A m \in Speech : AnthropicMessage(m) \in ContentSet
    BY Speaking
  <1>2. f \in [Speech -> ContentSet] /\ \A m \in Speech : f[m] = AnthropicMessage(m)
    BY <1>1
  <1>3. g \in Seq(Speech) /\ \A m \in Speech : Conversation(Append(msgs, m)) = Append(g, m)
    BY ConversationIs
  <1> HIDE DEF f, g
  <1>4. ASSUME NEW u \in Seq(Speech)
        PROVE  [i \in DOMAIN u |-> f[u[i]]] = [i \in DOMAIN u |-> AnthropicMessage(u[i])]
    <2>1. \A i \in DOMAIN u : u[i] \in Speech
      OBVIOUS
    <2>2. QED BY <1>2, <2>1
  <1>5. AnthropicContents(msgs) = [i \in DOMAIN g |-> f[g[i]]]
    BY <1>3, <1>4 DEF AnthropicContents, g
  <1>6. AnthropicContents(msgs) \in Seq(ContentSet)
    <2>1. Len(g) \in Nat /\ DOMAIN g = 1..Len(g) /\ \A i \in 1..Len(g) : f[g[i]] \in ContentSet
      BY <1>2, <1>3
    <2>2. QED BY <1>5, <2>1
  <1>7. ASSUME NEW m \in Speech
        PROVE  AnthropicContents(Append(msgs, m)) = Append(AnthropicContents(msgs), AnthropicMessage(m))
    <2>1. [i \in DOMAIN Append(g, m) |-> f[Append(g, m)[i]]]
            = Append([i \in DOMAIN g |-> f[g[i]]], f[m])
      BY <1>2, <1>3, Mapped
    <2>2. Append(g, m) \in Seq(Speech)
      BY <1>3, AppendedIs
    <2>3. AnthropicContents(Append(msgs, m)) = [i \in DOMAIN Append(g, m) |-> AnthropicMessage(Append(g, m)[i])]
      BY <1>3 DEF AnthropicContents
    <2>4. QED BY <1>2, <1>4, <1>5, <2>1, <2>2, <2>3
  <1>8. QED BY <1>6, <1>7

LEMMA GoogleContentsAre ==
  ASSUME NEW msgs \in Seq(Plain)
  PROVE  /\ GoogleContents(msgs) \in Seq(ContentSet)
         /\ \A m \in Speech : GoogleContents(Append(msgs, m))
                                = Append(GoogleContents(msgs), GoogleMessage(m))
PROOF
  <1> DEFINE f == [m \in Speech |-> GoogleMessage(m)]
             g == Conversation(msgs)
  <1>1. \A m \in Speech : GoogleMessage(m) \in ContentSet
    BY Speaking
  <1>2. f \in [Speech -> ContentSet] /\ \A m \in Speech : f[m] = GoogleMessage(m)
    BY <1>1
  <1>3. g \in Seq(Speech) /\ \A m \in Speech : Conversation(Append(msgs, m)) = Append(g, m)
    BY ConversationIs
  <1> HIDE DEF f, g
  <1>4. ASSUME NEW u \in Seq(Speech)
        PROVE  [i \in DOMAIN u |-> f[u[i]]] = [i \in DOMAIN u |-> GoogleMessage(u[i])]
    <2>1. \A i \in DOMAIN u : u[i] \in Speech
      OBVIOUS
    <2>2. QED BY <1>2, <2>1
  <1>5. GoogleContents(msgs) = [i \in DOMAIN g |-> f[g[i]]]
    BY <1>3, <1>4 DEF GoogleContents, g
  <1>6. GoogleContents(msgs) \in Seq(ContentSet)
    <2>1. Len(g) \in Nat /\ DOMAIN g = 1..Len(g) /\ \A i \in 1..Len(g) : f[g[i]] \in ContentSet
      BY <1>2, <1>3
    <2>2. QED BY <1>5, <2>1
  <1>7. ASSUME NEW m \in Speech
        PROVE  GoogleContents(Append(msgs, m)) = Append(GoogleContents(msgs), GoogleMessage(m))
    <2>1. [i \in DOMAIN Append(g, m) |-> f[Append(g, m)[i]]]
            = Append([i \in DOMAIN g |-> f[g[i]]], f[m])
      BY <1>2, <1>3, Mapped
    <2>2. Append(g, m) \in Seq(Speech)
      BY <1>3, AppendedIs
    <2>3. GoogleContents(Append(msgs, m)) = [i \in DOMAIN Append(g, m) |-> GoogleMessage(Append(g, m)[i])]
      BY <1>3 DEF GoogleContents
    <2>4. QED BY <1>2, <1>4, <1>5, <2>1, <2>2, <2>3
  <1>8. QED BY <1>6, <1>7

(* The last turn has the role of the last message.                         *)
LEMMA LastTurn ==
  ASSUME NEW s \in Seq(ContentSet), NEW w \in ContentSet
  PROVE  /\ MergeConsecutive(Append(s, w)) # <<>>
         /\ Last(MergeConsecutive(Append(s, w))).role = w.role
PROOF
  <1>1. MergeConsecutive(s) \in Seq(ContentSet)
        /\ MergeConsecutive(Append(s, w)) = MergeInto(MergeConsecutive(s), w)
    BY MergeAppend
  <1> DEFINE turns == MergeConsecutive(s)
             m == MergeInto(turns, w)
  <1>2. turns \in Seq(ContentSet)
    BY <1>1
  <1> HIDE DEF turns
  <1>3. /\ m \in Seq(ContentSet) /\ m # <<>> /\ Last(m).role = w.role
        /\ Len(m) = IF Continues(turns, w) THEN Len(turns) ELSE Len(turns) + 1
        /\ \A j \in 1..(Len(m) - 1) : m[j] = turns[j]
        /\ m[Len(m)] = IF Continues(turns, w) THEN Content(w.role, turns[Len(turns)].parts \o w.parts)
                        ELSE w
    BY <1>2, MergeFacts
  <1>4. QED BY <1>1, <1>3 DEF turns

(* One more message of the user or a tool, or of the model.                *)
LEMMA OthersTurn ==
  ASSUME NEW s \in Seq(ContentSet), NEW w \in ContentSet, NEW a, NEW due, NEW rest,
         NEW gone, NEW more, gone \subseteq more,
         Answered(MergeConsecutive(s), a, due, gone),
         w.role # a, CallsIn(w) = {},
         ResultsIn(w) \cup rest \subseteq due, due \ more \subseteq ResultsIn(w) \cup rest,
         due # {} => Last(MergeConsecutive(s)).role \in {a, w.role} \/ due \subseteq more
  PROVE  Answered(MergeConsecutive(Append(s, w)), a, rest, more)
PROOF
  <1> DEFINE turns == MergeConsecutive(s)
  <1>1. turns \in Seq(ContentSet) /\ MergeConsecutive(Append(s, w)) = MergeInto(turns, w)
    BY MergeAppend
  <1>2. Alternating(turns)
    BY Merged
  <1> HIDE DEF turns
  <1>3. Answered(turns, a, due, gone)
        /\ (due # {} => Last(turns).role \in {a, w.role} \/ due \subseteq more)
    BY DEF turns
  <1>4. Answered(MergeInto(turns, w), a, rest, more)
    BY <1>1, <1>2, <1>3, AnsweredByOthers
  <1>5. QED BY <1>1, <1>4

LEMMA ModelTurn ==
  ASSUME NEW s \in Seq(ContentSet), NEW w \in ContentSet, NEW a, NEW due,
         NEW gone, Answered(MergeConsecutive(s), a, {}, gone), w.role = a, CallsIn(w) = due,
         MergeConsecutive(s) # <<>> => Last(MergeConsecutive(s)).role # a
  PROVE  Answered(MergeConsecutive(Append(s, w)), a, due, gone)
PROOF
  <1> DEFINE turns == MergeConsecutive(s)
  <1>1. turns \in Seq(ContentSet) /\ MergeConsecutive(Append(s, w)) = MergeInto(turns, w)
    BY MergeAppend
  <1> HIDE DEF turns
  <1>2. Answered(turns, a, {}, gone) /\ (turns # <<>> => Last(turns).role # a)
    BY DEF turns
  <1>3. Answered(MergeInto(turns, w), a, due, gone)
    BY <1>1, <1>2, AnsweredByModel
  <1>4. QED BY <1>1, <1>3

LEMMA LastTurns ==
  ASSUME NEW c \in Seq(Plain), c # <<>>, NEW m, m = c[Len(c)], m.role # "system"
  PROVE  /\ m \in Speech
         /\ Last(MergeConsecutive(OpenAIRequest(c))).role = OpenAIMessage(m).role
         /\ Last(AnthropicRequest(c)).role = AnthropicMessage(m).role
         /\ Last(GoogleRequest(c)).role = GoogleMessage(m).role
PROOF
  <1> DEFINE front == SubSeq(c, 1, Len(c) - 1)
  <1>1. front \in Seq(Plain) /\ m \in Plain /\ c = Append(front, m)
    BY SplitLast
  <1>2. m \in Speech
    BY <1>1, PlainIsMessage
  <1> HIDE DEF front
  <1>3. OpenAIMessage(m) \in ContentSet /\ AnthropicMessage(m) \in ContentSet /\ GoogleMessage(m) \in ContentSet
    BY <1>2, Speaking
  <1>4. OpenAIRequest(front) \in Seq(ContentSet)
        /\ OpenAIRequest(c) = Append(OpenAIRequest(front), OpenAIMessage(m))
    BY <1>1, OpenAIRequestIs
  <1>5. AnthropicContents(front) \in Seq(ContentSet)
        /\ AnthropicContents(c) = Append(AnthropicContents(front), AnthropicMessage(m))
    BY <1>1, <1>2, AnthropicContentsAre
  <1>6. GoogleContents(front) \in Seq(ContentSet)
        /\ GoogleContents(c) = Append(GoogleContents(front), GoogleMessage(m))
    BY <1>1, <1>2, GoogleContentsAre
  <1>7. Last(MergeConsecutive(OpenAIRequest(c))).role = OpenAIMessage(m).role
    BY <1>3, <1>4, LastTurn
  <1>8. Last(AnthropicRequest(c)).role = AnthropicMessage(m).role
    BY <1>3, <1>5, LastTurn DEF AnthropicRequest
  <1>9. Last(GoogleRequest(c)).role = GoogleMessage(m).role
    BY <1>3, <1>6, LastTurn DEF GoogleRequest
  <1>10. QED BY <1>2, <1>7, <1>8, <1>9

(***************************************************************************)
(* The invariant of a conversation c with the calls p that wait and the    *)
(* places l of the calls that hand-offs left: results come after the calls *)
(* they are of, and as long as the ids are the service's own, the calls of *)
(* each turn are answered in the next one but for those that wait and      *)
(* those that were left.                                                   *)
(***************************************************************************)
Numbered(c) == \A i \in 1..Len(c) : c[i].from \in {"openai", "anthropic", "none"}
Named(c) ==
  \A i \in 1..Len(c) : /\ c[i].from \in {"google", "none"}
                       /\ \A k \in 1..Len(c[i].calls) : Len(c[i].calls[k].id) = 1

Places(c) == {x \in (1..Len(c)) \X (Nat \ {0}) : x[2] <= Len(c[x[1]].calls)}
Open(c) == {x \in Places(c) : x[1] + x[2] > Len(c)}
IdAt(c, x) == c[x[1]].calls[x[2]].id
Gone(c, l) == {IdAt(c, x) : x \in l}

Followed(c, p, l) ==
  \A x \in Places(c) \ l :
    IF x[1] + x[2] <= Len(c) THEN c[x[1] + x[2]].role = "tool" ELSE x[1] + x[2] <= Len(c) + Len(p)

(* The calls that wait are those whose results would come next.            *)
OpenIs(c, p) ==
  \A j \in 1..Len(p) : \E x \in Places(c) : x[1] + x[2] = Len(c) + j /\ IdAt(c, x) = p[j]

AllAnswered(c, p, l) ==
  /\ Numbered(c) => /\ Answered(MergeConsecutive(OpenAIRequest(c)), "assistant", Range(p), Gone(c, l))
                    /\ Answered(AnthropicRequest(c), "assistant", Range(p), Gone(c, l))
  /\ Named(c) => Answered(GoogleRequest(c), "model", Range(p), Gone(c, l))

Waiting(c, p) == p # <<>> => c[Len(c)].role \in {"assistant", "tool"}

WireOK(c, p, l) ==
  /\ c \in Seq(Plain) /\ c # <<>> /\ p \in Seq(Refs) /\ l \subseteq Places(c)
  /\ Waiting(c, p) /\ Followed(c, p, l) /\ OpenIs(c, p) /\ AllAnswered(c, p, l)

WireInv ==
  /\ service \in WireServices /\ Len(conv) <= MaxMessages
  /\ WireOK(conv, pending, unanswered)

LEMMA MessageCalls ==
  ASSUME NEW c \in Seq(Plain), NEW i \in 1..Len(c)
  PROVE  /\ c[i].calls \in Seq(ToolCallRec) /\ Len(c[i].calls) \in Nat
         /\ DOMAIN c[i].calls = 1..Len(c[i].calls)
PROOF
  <1> DEFINE x == c[i]
  <1>1. x \in MessageSet
    BY PlainIsMessage
  <1> HIDE DEF x
  <1>2. x.calls \in Seq(ToolCallRec)
    BY <1>1, MessageFields
  <1>3. Len(x.calls) \in Nat /\ DOMAIN x.calls = 1..Len(x.calls)
    BY <1>2
  <1>4. QED BY <1>2, <1>3 DEF x

(* The calls of a conversation are those of its messages, and those whose  *)
(* results would come next are the ones that wait in it.                   *)
LEMMA PlacesAre ==
  ASSUME conv \in Seq(Plain)
  PROVE  CallPlaces = Places(conv) /\ WaitingPlaces = Open(conv)
PROOF
  <1>1. DOMAIN conv = 1..Len(conv) /\ Len(conv) \in Nat
    OBVIOUS
  <1>2. \A i \in 1..Len(conv) : DOMAIN conv[i].calls = 1..Len(conv[i].calls) /\ Len(conv[i].calls) \in Nat
    BY MessageCalls
  <1>3. ASSUME NEW x PROVE x \in CallPlaces <=> x \in Places(conv)
    <2>1. ASSUME x \in CallPlaces PROVE x \in Places(conv)
      <3>1. PICK i \in DOMAIN conv : x \in {i} \X DOMAIN conv[i].calls
        BY <2>1 DEF CallPlaces
      <3>2. PICK k \in DOMAIN conv[i].calls : x = <<i, k>>
        BY <3>1
      <3>3. i \in 1..Len(conv) /\ k \in 1..Len(conv[i].calls)
        BY <1>1, <1>2, <3>1, <3>2
      <3>4. k \in Nat \ {0} /\ k <= Len(conv[i].calls) /\ x[1] = i /\ x[2] = k
        BY <1>2, <3>2, <3>3
      <3>5. QED BY <3>2, <3>3, <3>4 DEF Places
    <2>2. ASSUME x \in Places(conv) PROVE x \in CallPlaces
      <3>1. PICK i \in 1..Len(conv), k \in Nat \ {0} : x = <<i, k>>
        BY <2>2 DEF Places
      <3>2. k <= Len(conv[i].calls)
        BY <2>2, <3>1 DEF Places
      <3>3. i \in DOMAIN conv /\ k \in DOMAIN conv[i].calls
        BY <1>1, <1>2, <3>1, <3>2
      <3>4. x \in {i} \X DOMAIN conv[i].calls
        BY <3>1, <3>3
      <3>5. QED BY <3>3, <3>4 DEF CallPlaces
    <2>3. QED BY <2>1, <2>2
  <1>4. CallPlaces = Places(conv)
    BY <1>3
  <1>5. QED BY <1>4 DEF WaitingPlaces, Open

(* Another message leaves the calls there were where they are.             *)
LEMMA PlacesGrow ==
  ASSUME NEW c \in Seq(Plain), NEW m \in Plain, NEW l \in SUBSET Places(c), NEW l2,
         l \subseteq l2
  PROVE  /\ Places(c) \subseteq Places(Append(c, m))
         /\ \A x \in Places(c) : IdAt(Append(c, m), x) = IdAt(c, x)
         /\ \A x \in Places(Append(c, m)) :
              x \in Places(c) \/ (x[1] = Len(c) + 1 /\ x[2] \in 1..Len(m.calls))
         /\ Gone(c, l) \subseteq Gone(Append(c, m), l2)
PROOF
  <1> DEFINE a == Append(c, m)
  <1>1. /\ Len(a) = Len(c) + 1 /\ Len(c) \in Nat /\ a[Len(c) + 1] = m
        /\ \A i \in 1..Len(c) : a[i] = c[i]
    BY AppendedIs
  <1> HIDE DEF a
  <1>2. \A i \in 1..Len(c) : i \in 1..Len(a)
    BY <1>1
  <1>3. Places(c) \subseteq Places(a)
    BY <1>1, <1>2 DEF Places
  <1>4. \A x \in Places(c) : IdAt(a, x) = IdAt(c, x)
    BY <1>1 DEF Places, IdAt
  <1>5. ASSUME NEW x \in Places(a), x \notin Places(c)
        PROVE  x[1] = Len(c) + 1 /\ x[2] \in 1..Len(m.calls)
    <2>1. x \in (1..Len(a)) \X (Nat \ {0}) /\ x[2] <= Len(a[x[1]].calls)
      BY DEF Places
    <2>2. x[1] \in 1..Len(a) /\ x[2] \in Nat \ {0} /\ x = <<x[1], x[2]>>
      BY <2>1
    <2>3. x[1] \notin 1..Len(c)
      <3>1. SUFFICES ASSUME x[1] \in 1..Len(c) PROVE x \in Places(c)
        BY <1>5
      <3>2. x[2] <= Len(c[x[1]].calls)
        BY <1>1, <2>1, <3>1
      <3>3. x \in (1..Len(c)) \X (Nat \ {0})
        BY <2>2, <3>1
      <3>4. QED BY <3>2, <3>3 DEF Places
    <2>4. x[1] = Len(c) + 1
      BY <1>1, <2>2, <2>3
    <2>5. Len(m.calls) \in Nat
      <3>1. m \in MessageSet
        BY PlainIsMessage
      <3>2. QED BY <3>1, MessageFields
    <2>6. QED BY <1>1, <2>1, <2>2, <2>4, <2>5
  <1>6. Gone(c, l) \subseteq Gone(a, l2)
    BY <1>4 DEF Gone
  <1>7. QED BY <1>3, <1>4, <1>5, <1>6 DEF a

LEMMA Earlier ==
  ASSUME NEW c \in Seq(Plain), NEW m \in Plain
  PROVE  /\ Numbered(Append(c, m)) => Numbered(c) /\ m.from \in {"openai", "anthropic", "none"}
         /\ Named(Append(c, m)) => /\ Named(c) /\ m.from \in {"google", "none"}
                                   /\ \A k \in 1..Len(m.calls) : Len(m.calls[k].id) = 1
PROOF
  <1> DEFINE a == Append(c, m)
  <1>1. /\ Len(a) = Len(c) + 1 /\ Len(c) \in Nat /\ a[Len(c) + 1] = m
        /\ \A i \in 1..Len(c) : a[i] = c[i]
    BY AppendedIs
  <1> HIDE DEF a
  <1>2. Len(c) + 1 \in 1..Len(a) /\ \A i \in 1..Len(c) : i \in 1..Len(a)
    BY <1>1
  <1>3. Numbered(a) => Numbered(c) /\ m.from \in {"openai", "anthropic", "none"}
    BY <1>1, <1>2 DEF Numbered
  <1>4. Named(a) => /\ Named(c) /\ m.from \in {"google", "none"}
                    /\ \A k \in 1..Len(m.calls) : Len(m.calls[k].id) = 1
    <2>1. ASSUME Named(a) PROVE Named(c)
      BY <1>1, <1>2, <2>1 DEF Named
    <2>2. ASSUME Named(a)
          PROVE  m.from \in {"google", "none"} /\ \A k \in 1..Len(m.calls) : Len(m.calls[k].id) = 1
      BY <1>1, <1>2, <2>2 DEF Named
    <2>3. QED BY <2>1, <2>2
  <1>5. QED BY <1>3, <1>4 DEF a

(* A message of the user, after which no call waits, or the result of the  *)
(* first call that waits.                                                  *)
LEMMA OthersKeep ==
  ASSUME NEW c, NEW p, NEW l, WireOK(c, p, l), NEW m \in Plain, NEW rest, NEW l2,
         \/ m.role = "user" /\ rest = <<>> /\ l2 = l \cup Open(c)
         \/ m.role = "tool" /\ p # <<>> /\ m.answers = Head(p) /\ rest = Tail(p) /\ l2 = l
  PROVE  WireOK(Append(c, m), rest, l2)
PROOF
  <1> DEFINE a == Append(c, m)
             n == Len(c)
             r == IF m.role = "tool" THEN {m.answers} ELSE {}
             due == Range(p)
             left == Range(rest)
             gone == Gone(c, l)
             more == Gone(a, l2)
  <1>1. /\ c \in Seq(Plain) /\ c # <<>> /\ p \in Seq(Refs) /\ l \subseteq Places(c)
        /\ Waiting(c, p) /\ Followed(c, p, l) /\ OpenIs(c, p) /\ AllAnswered(c, p, l)
    BY DEF WireOK
  <1>2. /\ m \in Speech /\ m \in MessageSet /\ m.role \in {"user", "tool"} /\ m.calls = <<>>
        /\ m.role # "assistant"
    BY DEF Plain, Speech
  <1>3. /\ a \in Seq(Plain) /\ Len(a) = n + 1 /\ n \in Nat \ {0} /\ a[n + 1] = m
        /\ (\A i \in 1..n : a[i] = c[i]) /\ a # <<>>
    BY <1>1, AppendedIs
  <1>a. l \subseteq l2 /\ l2 \subseteq Places(c)
    <2>1. Open(c) \subseteq Places(c)
      BY DEF Open
    <2>2. QED BY <1>1, <2>1
  <1>b. /\ Places(a) = Places(c) /\ (\A x \in Places(c) : IdAt(a, x) = IdAt(c, x))
        /\ gone \subseteq more
    <2>1. /\ Places(c) \subseteq Places(a) /\ (\A x \in Places(c) : IdAt(a, x) = IdAt(c, x))
          /\ \A x \in Places(a) : x \in Places(c) \/ (x[1] = n + 1 /\ x[2] \in 1..Len(m.calls))
          /\ gone \subseteq more
      BY <1>1, <1>a, PlacesGrow
    <2>2. 1..Len(m.calls) = {}
      BY <1>2
    <2>3. QED BY <2>1, <2>2
  <1>c. m.role = "user" => due \subseteq more
    <2>1. SUFFICES ASSUME m.role = "user", NEW j \in 1..Len(p) PROVE p[j] \in more
      BY <1>1 DEF Range
    <2>2. PICK x \in Places(c) : x[1] + x[2] = n + j /\ IdAt(c, x) = p[j]
      BY <1>1 DEF OpenIs
    <2>3. x[1] + x[2] > n
      BY <1>1, <1>3, <2>2
    <2>4. x \in l2
      BY <2>1, <2>3 DEF Open
    <2>5. IdAt(a, x) = p[j]
      BY <1>b, <2>2
    <2>6. QED BY <2>4, <2>5 DEF Gone
  <1>4. /\ rest \in Seq(Refs) /\ r \cup left \subseteq due /\ due \ more \subseteq r \cup left
        /\ (due # {} => p # <<>> /\ (m.role = "tool" \/ due \subseteq more))
    <2>1. Range(<<>>) = {}
      BY DEF Range
    <2>2. CASE m.role = "user"
      <3>1. rest = <<>> /\ due \subseteq more
        BY <1>c, <2>2
      <3>2. left = {} /\ r = {} /\ rest \in Seq(Refs)
        BY <2>1, <2>2, <3>1
      <3>3. due # {} => p # <<>>
        BY <2>1
      <3>4. QED BY <3>1, <3>2, <3>3
    <2>3. CASE m.role # "user"
      <3>1. m.role = "tool" /\ m.answers = Head(p) /\ rest = Tail(p) /\ p # <<>>
        BY <2>3
      <3>2. Tail(p) \in Seq(Refs)
        BY <1>1, <3>1
      <3>3. Range(p) = Range(Tail(p)) \cup {Head(p)}
        BY <1>1, <3>1, RangeTail
      <3>4. QED BY <3>1, <3>2, <3>3
    <2>4. QED BY <2>2, <2>3
  <1>5. Followed(a, rest, l2)
    <2>1. SUFFICES ASSUME NEW x \in Places(c), x \notin l2
                   PROVE  IF x[1] + x[2] <= Len(a) THEN a[x[1] + x[2]].role = "tool"
                          ELSE x[1] + x[2] <= Len(a) + Len(rest)
      BY <1>b DEF Followed
    <2>2. x[1] \in 1..n /\ x[2] \in Nat \ {0} /\ x \notin l
      BY <1>a, <2>1 DEF Places
    <2>3. PICK at \in Nat : at = x[1] + x[2]
      BY <1>3, <2>2
    <2>4. IF at <= n THEN c[at].role = "tool" ELSE at <= n + Len(p)
      BY <1>1, <2>1, <2>2, <2>3 DEF Followed
    <2>5. CASE at <= n
      <3>1. at \in 1..n /\ at <= Len(a)
        BY <1>3, <2>2, <2>3, <2>5
      <3>2. QED BY <1>3, <2>3, <2>4, <2>5, <3>1
    <2>6. CASE ~(at <= n)
      <3>1. at <= n + Len(p) /\ n < at
        BY <1>3, <2>4, <2>6
      <3>2. m.role = "tool"
        <4>1. SUFFICES ASSUME m.role = "user" PROVE FALSE
          BY <1>2
        <4>2. x \in Open(c)
          BY <1>3, <2>2, <2>3, <3>1 DEF Open
        <4>3. QED BY <2>1, <4>1, <4>2
      <3>3. Len(rest) = Len(p) - 1 /\ Len(p) \in Nat
        BY <1>1, <3>2
      <3>4. CASE at = n + 1
        BY <1>3, <2>3, <3>2, <3>4
      <3>5. CASE at # n + 1
        <4>1. ~(at <= Len(a)) /\ at <= Len(a) + Len(rest)
          BY SMTT(40), <1>3, <3>1, <3>3, <3>5
        <4>2. QED BY <2>3, <4>1
      <3>6. QED BY <3>4, <3>5
    <2>7. QED BY <2>5, <2>6
  <1>d. OpenIs(a, rest)
    <2>1. SUFFICES ASSUME NEW j \in 1..Len(rest)
                   PROVE  \E x \in Places(a) : x[1] + x[2] = Len(a) + j /\ IdAt(a, x) = rest[j]
      BY DEF OpenIs
    <2>2. rest # <<>> /\ rest = Tail(p) /\ p # <<>>
      <3>1. CASE m.role = "user"
        <4>1. Len(rest) = 0
          BY <3>1
        <4>2. QED BY <2>1, <4>1
      <3>2. CASE m.role # "user"
        <4>1. rest = Tail(p) /\ p # <<>>
          BY <3>2
        <4>2. Len(rest) # 0
          BY <1>4, <2>1
        <4>3. QED BY <4>1, <4>2
      <3>3. QED BY <3>1, <3>2
    <2>3. j + 1 \in 1..Len(p) /\ rest[j] = p[j + 1]
      BY <1>1, <2>1, <2>2
    <2>4. PICK x \in Places(c) : x[1] + x[2] = n + (j + 1) /\ IdAt(c, x) = p[j + 1]
      BY <1>1, <2>3 DEF OpenIs
    <2>5. n + (j + 1) = Len(a) + j
      BY <1>3, <1>4, <2>1
    <2>6. QED BY <1>b, <2>3, <2>4, <2>5
  <1>6. Waiting(a, rest)
    <2>1. rest # <<>> => m.role = "tool"
      OBVIOUS
    <2>2. QED BY <1>3, <2>1 DEF Waiting
  <1> DEFINE y == c[n]
  <1>7. due # {} => /\ y \in Speech /\ y.role \in {"assistant", "tool"}
                    /\ Last(MergeConsecutive(OpenAIRequest(c))).role = OpenAIMessage(y).role
                    /\ Last(AnthropicRequest(c)).role = AnthropicMessage(y).role
                    /\ Last(GoogleRequest(c)).role = GoogleMessage(y).role
    <2>1. SUFFICES ASSUME due # {}
                   PROVE  /\ y \in Speech /\ y.role \in {"assistant", "tool"}
                          /\ Last(MergeConsecutive(OpenAIRequest(c))).role = OpenAIMessage(y).role
                          /\ Last(AnthropicRequest(c)).role = AnthropicMessage(y).role
                          /\ Last(GoogleRequest(c)).role = GoogleMessage(y).role
      OBVIOUS
    <2>2. y.role \in {"assistant", "tool"}
      BY <1>1, <1>4, <2>1 DEF Waiting
    <2> HIDE DEF y
    <2>3. QED BY <1>1, <2>2, LastTurns DEF y
  <1>8. due # {} => m.role = "tool" \/ due \subseteq more
    BY <1>4
  <1> HIDE DEF a, due, left, r, y, gone, more
  <1>9. ASSUME Numbered(a)
        PROVE  /\ Answered(MergeConsecutive(OpenAIRequest(a)), "assistant", left, more)
               /\ Answered(AnthropicRequest(a), "assistant", left, more)
    <2>1. Numbered(c)
      BY <1>1, <1>9, Earlier DEF a
    <2>2. /\ Answered(MergeConsecutive(OpenAIRequest(c)), "assistant", due, gone)
          /\ Answered(MergeConsecutive(AnthropicContents(c)), "assistant", due, gone)
      BY <1>1, <2>1 DEF AllAnswered, AnthropicRequest, due, gone
    <2>3. OpenAIRequest(c) \in Seq(ContentSet) /\ OpenAIRequest(a) = Append(OpenAIRequest(c), OpenAIMessage(m))
      BY <1>1, OpenAIRequestIs DEF a
    <2>4. AnthropicContents(c) \in Seq(ContentSet)
          /\ AnthropicContents(a) = Append(AnthropicContents(c), AnthropicMessage(m))
      BY <1>1, <1>2, AnthropicContentsAre DEF a
    <2>5. /\ OpenAIMessage(m) \in ContentSet /\ OpenAIMessage(m).role = m.role
          /\ CallsIn(OpenAIMessage(m)) = {} /\ ResultsIn(OpenAIMessage(m)) = r
      <3>1. {x.id : x \in Range(m.calls)} = {}
        BY <1>2 DEF Range
      <3>2. QED BY <1>2, <3>1, OpenAIConverts DEF r
    <2>6. /\ AnthropicMessage(m) \in ContentSet /\ AnthropicMessage(m).role = "user"
          /\ CallsIn(AnthropicMessage(m)) = {} /\ ResultsIn(AnthropicMessage(m)) = r
      <3>1. {x.id : x \in Range(m.calls)} = {}
        BY <1>2 DEF Range
      <3>2. QED BY <1>2, <3>1, AnthropicConverts DEF r
    <2>7. due # {} /\ ~(due \subseteq more) =>
                   /\ Last(MergeConsecutive(OpenAIRequest(c))).role \in {"assistant", m.role}
                      /\ Last(MergeConsecutive(AnthropicContents(c))).role \in {"assistant", "user"}
      <3>1. SUFFICES ASSUME due # {}, ~(due \subseteq more)
                     PROVE  /\ Last(MergeConsecutive(OpenAIRequest(c))).role \in {"assistant", m.role}
                            /\ Last(MergeConsecutive(AnthropicContents(c))).role \in {"assistant", "user"}
        OBVIOUS
      <3>2. y \in MessageSet /\ y.role \in {"assistant", "tool"} /\ m.role = "tool"
        BY <1>7, <1>8, <3>1, Speaking
      <3>3. OpenAIMessage(y).role = y.role
        BY <3>2, OpenAIConverts
      <3>4. AnthropicMessage(y).role = IF y.role = "tool" THEN "user" ELSE y.role
        BY <3>2, AnthropicConverts
      <3>5. QED BY <1>7, <3>1, <3>2, <3>3, <3>4 DEF AnthropicRequest
    <2>8. Answered(MergeConsecutive(Append(OpenAIRequest(c), OpenAIMessage(m))), "assistant", left, more)
      <3>1. /\ ResultsIn(OpenAIMessage(m)) \cup left \subseteq due /\ due \ more \subseteq ResultsIn(OpenAIMessage(m)) \cup left
            /\ gone \subseteq more
        BY <1>4, <1>b, <2>5 DEF a, gone, more
      <3>2. QED BY <1>2, <2>2, <2>3, <2>5, <2>7, <3>1, OthersTurn
    <2>9. Answered(MergeConsecutive(Append(AnthropicContents(c), AnthropicMessage(m))), "assistant", left, more)
      <3>1. /\ ResultsIn(AnthropicMessage(m)) \cup left \subseteq due /\ due \ more \subseteq ResultsIn(AnthropicMessage(m)) \cup left
            /\ gone \subseteq more
        BY <1>4, <1>b, <2>6 DEF a, gone, more
      <3>2. QED BY <2>2, <2>4, <2>6, <2>7, <3>1, OthersTurn
    <2>10. QED BY <2>3, <2>4, <2>8, <2>9 DEF AnthropicRequest
  <1>10. ASSUME Named(a) PROVE Answered(GoogleRequest(a), "model", left, more)
    <2>1. Named(c)
      BY <1>1, <1>10, Earlier DEF a
    <2>2. Answered(MergeConsecutive(GoogleContents(c)), "model", due, gone)
      BY <1>1, <2>1 DEF AllAnswered, GoogleRequest, due, gone
    <2>3. GoogleContents(c) \in Seq(ContentSet) /\ GoogleContents(a) = Append(GoogleContents(c), GoogleMessage(m))
      BY <1>1, <1>2, GoogleContentsAre DEF a
    <2>4. /\ GoogleMessage(m) \in ContentSet /\ GoogleMessage(m).role = "user"
          /\ CallsIn(GoogleMessage(m)) = {} /\ ResultsIn(GoogleMessage(m)) = r
      <3>1. {<<x.name>> : x \in Range(m.calls)} = {}
        <4>1. Range(m.calls) = {}
          BY <1>2 DEF Range
        <4>2. QED BY <4>1
      <3>2. m.role # "system" /\ (m.role # "assistant" => m.calls = <<>>)
        BY <1>2
      <3>3. /\ GoogleMessage(m) \in ContentSet
            /\ GoogleMessage(m).role = IF m.role = "assistant" THEN "model" ELSE "user"
            /\ CallsIn(GoogleMessage(m)) = {<<x.name>> : x \in Range(m.calls)}
            /\ ResultsIn(GoogleMessage(m)) = IF m.role = "tool" THEN {m.answers} ELSE {}
        BY <1>2, <3>2, GoogleConverts
      <3>4. QED BY <1>2, <3>1, <3>3 DEF r
    <2>5. due # {} /\ ~(due \subseteq more) => Last(MergeConsecutive(GoogleContents(c))).role \in {"model", "user"}
      <3>1. SUFFICES ASSUME due # {}, ~(due \subseteq more)
                     PROVE  Last(MergeConsecutive(GoogleContents(c))).role \in {"model", "user"}
        OBVIOUS
      <3>2. y \in MessageSet /\ y.role # "system" /\ (y.role # "assistant" => y.calls = <<>>)
        BY <1>7, <3>1 DEF Speech
      <3>3. GoogleMessage(y).role = IF y.role = "assistant" THEN "model" ELSE "user"
        BY <3>2, GoogleConverts
      <3>4. QED BY <1>7, <3>1, <3>3 DEF GoogleRequest
    <2>6. Answered(MergeConsecutive(Append(GoogleContents(c), GoogleMessage(m))), "model", left, more)
      <3>1. /\ ResultsIn(GoogleMessage(m)) \cup left \subseteq due /\ due \ more \subseteq ResultsIn(GoogleMessage(m)) \cup left
            /\ gone \subseteq more
        BY <1>4, <1>b, <2>4 DEF a, gone, more
      <3>2. QED BY <2>2, <2>3, <2>4, <2>5, <3>1, OthersTurn
    <2>7. QED BY <2>3, <2>6 DEF GoogleRequest
  <1>11. AllAnswered(a, rest, l2)
    BY <1>9, <1>10 DEF AllAnswered, left, more
  <1>12. QED BY <1>3, <1>4, <1>5, <1>6, <1>11, <1>a, <1>b, <1>d DEF WireOK, a

(* A message of the model, when no call waits; its calls wait.             *)
LEMMA ModelKeeps ==
  ASSUME NEW c, NEW l, NEW none, none = <<>>, WireOK(c, none, l), NEW m \in Plain, NEW p \in Seq(Refs),
         m.role = "assistant", c[Len(c)].role \in {"user", "tool"},
         Len(p) = Len(m.calls), \A i \in 1..Len(p) : p[i] = m.calls[i].id,
         m.from = "google" /\ (\A k \in 1..Len(m.calls) : Len(m.calls[k].id) = 1)
           => \A k \in 1..Len(m.calls) : m.calls[k].id = <<m.calls[k].name>>,
         m.from # "none"
  PROVE  WireOK(Append(c, m), p, l)
PROOF
  <1> DEFINE a == Append(c, m)
             n == Len(c)
             ids == {x.id : x \in Range(m.calls)}
             due == Range(p)
             nobody == Range(none)
             y == c[n]
             gone == Gone(c, l)
             more == Gone(a, l)
  <1>1. /\ c \in Seq(Plain) /\ c # <<>> /\ l \subseteq Places(c)
        /\ Waiting(c, none) /\ Followed(c, none, l) /\ AllAnswered(c, none, l)
    BY DEF WireOK
  <1>2. m \in Speech /\ m \in MessageSet /\ m.calls \in Seq(ToolCallRec)
    <2>1. m \in Speech /\ m \in MessageSet
      BY DEF Plain, Speech
    <2>2. QED BY <2>1, MessageFields
  <1>3. /\ a \in Seq(Plain) /\ Len(a) = n + 1 /\ n \in Nat \ {0} /\ a[n + 1] = m
        /\ (\A i \in 1..n : a[i] = c[i]) /\ a # <<>>
    BY <1>1, AppendedIs
  <1>4. due = ids
    <2>1. Len(p) \in Nat /\ DOMAIN p = 1..Len(p) /\ DOMAIN m.calls = 1..Len(p)
      BY <1>2
    <2>2. QED BY <2>1 DEF Range
  <1>a. /\ Places(c) \subseteq Places(a) /\ (\A x \in Places(c) : IdAt(a, x) = IdAt(c, x))
        /\ (\A x \in Places(a) : x \in Places(c) \/ (x[1] = n + 1 /\ x[2] \in 1..Len(m.calls)))
        /\ gone \subseteq more
    BY <1>1, PlacesGrow
  <1>5. Followed(a, p, l)
    <2>1. SUFFICES ASSUME NEW x \in Places(a), x \notin l
                   PROVE  IF x[1] + x[2] <= Len(a) THEN a[x[1] + x[2]].role = "tool"
                          ELSE x[1] + x[2] <= Len(a) + Len(p)
      BY DEF Followed
    <2>2. CASE x \in Places(c)
      <3>1. x[1] \in 1..n /\ x[2] \in Nat \ {0}
        BY <2>2 DEF Places
      <3>2. PICK at \in Nat : at = x[1] + x[2]
        BY <1>3, <3>1
      <3>3. IF at <= n THEN c[at].role = "tool" ELSE at <= n + Len(none)
        BY <1>1, <2>1, <2>2, <3>2 DEF Followed
      <3>4. Len(none) = 0
        OBVIOUS
      <3>5. at \in 1..n /\ c[at].role = "tool"
        BY <1>3, <3>1, <3>2, <3>3, <3>4
      <3>6. a[at] = c[at] /\ at <= Len(a)
        BY <1>3, <3>5
      <3>7. QED BY <3>2, <3>5, <3>6
    <2>3. CASE x \notin Places(c)
      <3>1. x[1] = n + 1 /\ x[2] \in 1..Len(p)
        BY <1>a, <2>3
      <3>2. PICK i \in Nat, k \in Nat \ {0} : i = n + 1 /\ x[1] = i /\ x[2] = k /\ k <= Len(p)
        BY <1>3, <3>1
      <3>3. i = Len(a) /\ Len(p) \in Nat
        BY <1>3, <3>2
      <3>4. ~(i + k <= Len(a)) /\ i + k <= Len(a) + Len(p)
        BY <3>2, <3>3
      <3>5. QED BY <3>2, <3>4
    <2>4. QED BY <2>2, <2>3
  <1>b. OpenIs(a, p)
    <2>1. SUFFICES ASSUME NEW j \in 1..Len(p)
                   PROVE  \E x \in Places(a) : x[1] + x[2] = Len(a) + j /\ IdAt(a, x) = p[j]
      BY DEF OpenIs
    <2> DEFINE x == <<n + 1, j>>
    <2>2. j \in Nat \ {0} /\ j <= Len(a[n + 1].calls) /\ n + 1 \in 1..Len(a)
      BY <1>3
    <2>3. x \in Places(a)
      BY <2>2 DEF Places
    <2>4. x[1] + x[2] = Len(a) + j
      BY <1>3
    <2>5. IdAt(a, x) = p[j]
      BY <1>3 DEF IdAt
    <2>6. QED BY <2>3, <2>4, <2>5
  <1>6. Waiting(a, p)
    BY <1>3 DEF Waiting
  <1>7. /\ y \in Speech /\ y.role \in {"user", "tool"}
        /\ Last(MergeConsecutive(OpenAIRequest(c))).role = OpenAIMessage(y).role
        /\ Last(AnthropicRequest(c)).role = AnthropicMessage(y).role
        /\ Last(GoogleRequest(c)).role = GoogleMessage(y).role
    <2>1. y.role \in {"user", "tool"}
      OBVIOUS
    <2> HIDE DEF y
    <2>2. QED BY <1>1, <2>1, LastTurns DEF y
  <1>8. nobody = {}
    BY DEF Range
  <1> HIDE DEF a, due, ids, nobody, y, gone, more
  <1>c. more = gone
    <2>1. \A x \in l : IdAt(a, x) = IdAt(c, x)
      BY <1>1, <1>a DEF a
    <2>2. QED BY <2>1 DEF Gone, gone, more
  <1>9. ASSUME Numbered(a)
        PROVE  /\ Answered(MergeConsecutive(OpenAIRequest(a)), "assistant", due, more)
               /\ Answered(AnthropicRequest(a), "assistant", due, more)
    <2>1. Numbered(c)
      BY <1>1, <1>9, Earlier DEF a
    <2>a. /\ Answered(MergeConsecutive(OpenAIRequest(c)), "assistant", {}, gone)
          /\ Answered(MergeConsecutive(AnthropicContents(c)), "assistant", {}, gone)
      BY <1>1, <1>8, <2>1 DEF AllAnswered, AnthropicRequest, nobody, gone
    <2>2. /\ Answered(MergeConsecutive(OpenAIRequest(c)), "assistant", {}, more)
          /\ Answered(MergeConsecutive(AnthropicContents(c)), "assistant", {}, more)
      BY <1>c, <2>a
    <2>3. OpenAIRequest(c) \in Seq(ContentSet) /\ OpenAIRequest(a) = Append(OpenAIRequest(c), OpenAIMessage(m))
      BY <1>1, OpenAIRequestIs DEF a
    <2>4. AnthropicContents(c) \in Seq(ContentSet)
          /\ AnthropicContents(a) = Append(AnthropicContents(c), AnthropicMessage(m))
      BY <1>1, <1>2, AnthropicContentsAre DEF a
    <2>5. /\ OpenAIMessage(m) \in ContentSet /\ OpenAIMessage(m).role = "assistant"
          /\ CallsIn(OpenAIMessage(m)) = due
      BY <1>2, <1>4, OpenAIConverts DEF ids
    <2>6. /\ AnthropicMessage(m) \in ContentSet /\ AnthropicMessage(m).role = "assistant"
          /\ CallsIn(AnthropicMessage(m)) = due
      BY <1>2, <1>4, AnthropicConverts DEF ids
    <2>7. /\ Last(MergeConsecutive(OpenAIRequest(c))).role # "assistant"
          /\ Last(MergeConsecutive(AnthropicContents(c))).role # "assistant"
      <3>1. y \in MessageSet
        BY <1>7, Speaking
      <3>2. OpenAIMessage(y).role = y.role
        BY <3>1, OpenAIConverts
      <3>3. AnthropicMessage(y).role = IF y.role = "tool" THEN "user" ELSE y.role
        BY <3>1, AnthropicConverts
      <3>4. QED BY <1>7, <3>2, <3>3 DEF AnthropicRequest
    <2>8. Answered(MergeConsecutive(Append(OpenAIRequest(c), OpenAIMessage(m))), "assistant", due, more)
      BY <2>2, <2>3, <2>5, <2>7, ModelTurn
    <2>9. Answered(MergeConsecutive(Append(AnthropicContents(c), AnthropicMessage(m))), "assistant", due, more)
      BY <2>2, <2>4, <2>6, <2>7, ModelTurn
    <2>10. QED BY <2>3, <2>4, <2>8, <2>9 DEF AnthropicRequest
  <1>10. ASSUME Named(a) PROVE Answered(GoogleRequest(a), "model", due, more)
    <2>1. /\ Named(c) /\ m.from \in {"google", "none"}
          /\ \A k \in 1..Len(m.calls) : Len(m.calls[k].id) = 1
      BY <1>1, <1>10, Earlier DEF a
    <2>2. Answered(MergeConsecutive(GoogleContents(c)), "model", {}, more)
      BY <1>1, <1>8, <1>c, <2>1 DEF AllAnswered, GoogleRequest, nobody, gone
    <2>3. GoogleContents(c) \in Seq(ContentSet) /\ GoogleContents(a) = Append(GoogleContents(c), GoogleMessage(m))
      BY <1>1, <1>2, GoogleContentsAre DEF a
    <2>4. {<<x.name>> : x \in Range(m.calls)} = due
      <3>1. \A k \in 1..Len(m.calls) : m.calls[k].id = <<m.calls[k].name>>
        BY <2>1
      <3>2. DOMAIN m.calls = 1..Len(m.calls)
        BY <1>2
      <3>3. \A x \in Range(m.calls) : x.id = <<x.name>>
        BY <3>1, <3>2 DEF Range
      <3>4. QED BY ZenonT(60), <1>4, <3>3 DEF ids
    <2>5. /\ GoogleMessage(m) \in ContentSet /\ GoogleMessage(m).role = "model"
          /\ CallsIn(GoogleMessage(m)) = due
      <3>1. m.role # "system" /\ (m.role # "assistant" => m.calls = <<>>)
        OBVIOUS
      <3>2. /\ GoogleMessage(m) \in ContentSet
            /\ GoogleMessage(m).role = IF m.role = "assistant" THEN "model" ELSE "user"
            /\ CallsIn(GoogleMessage(m)) = {<<x.name>> : x \in Range(m.calls)}
        BY <1>2, <3>1, GoogleConverts
      <3>3. QED BY <2>4, <3>2
    <2>6. Last(MergeConsecutive(GoogleContents(c))).role # "model"
      <3>1. y \in MessageSet /\ y.role # "system" /\ (y.role # "assistant" => y.calls = <<>>)
        BY <1>7 DEF Speech
      <3>2. GoogleMessage(y).role = IF y.role = "assistant" THEN "model" ELSE "user"
        BY <3>1, GoogleConverts
      <3>3. QED BY <1>7, <3>2 DEF GoogleRequest
    <2>7. Answered(MergeConsecutive(Append(GoogleContents(c), GoogleMessage(m))), "model", due, more)
      BY <2>2, <2>3, <2>5, <2>6, ModelTurn
    <2>8. QED BY <2>3, <2>7 DEF GoogleRequest
  <1>11. AllAnswered(a, p, l)
    BY <1>9, <1>10 DEF AllAnswered, due, more
  <1>12. QED BY <1>1, <1>3, <1>5, <1>6, <1>11, <1>a, <1>b DEF WireOK, a

LEMMA SpokenMessage ==
  ASSUME NEW role \in {"system", "user", "assistant", "tool"}, NEW text \in BOOLEAN,
         NEW cs \in Seq(ToolCallRec), NEW r \in Refs,
         NEW from \in {"openai", "anthropic", "google", "ollama", "none"},
         role # "assistant" => cs = <<>>
  PROVE  /\ Message(role, text, cs, r, from) \in Plain
         /\ Message(role, text, cs, r, from).role = role
         /\ Message(role, text, cs, r, from).calls = cs
         /\ Message(role, text, cs, r, from).answers = r
         /\ Message(role, text, cs, r, from).from = from
PROOF BY DEF Message, Plain, MessageSet

LEMMA PlainMessage ==
  ASSUME NEW role \in {"user", "tool"}, NEW r \in Refs
  PROVE  /\ Message(role, TRUE, <<>>, r, "none") \in Plain
         /\ Message(role, TRUE, <<>>, r, "none").role = role
         /\ Message(role, TRUE, <<>>, r, "none").answers = r
PROOF
  <1>1. <<>> \in Seq(ToolCallRec)
    OBVIOUS
  <1>2. QED BY <1>1 DEF Message, Plain, MessageSet

LEMMA Ids ==
  ASSUME NEW way \in {"chat", "stream"}, NEW s \in WireServices, NEW name \in Names,
         NEW i \in Nat, NEW n \in Nat
  PROVE  /\ CallId(s, way, name, i, n) \in Refs
         /\ s = "google" /\ Len(CallId(s, way, name, i, n)) = 1 => CallId(s, way, name, i, n) = <<name>>
PROOF
  <1>1. CASE s = "google" /\ way = "chat"
    <2>1. CallId(s, way, name, i, n) = <<name>>
      BY <1>1 DEF CallId, GoogleCallId
    <2>2. QED BY <2>1 DEF Refs
  <1>2. CASE s = "google" /\ way # "chat"
    <2>1. CallId(s, way, name, i, n) = <<name, i>>
      BY <1>2 DEF CallId, GoogleCallId
    <2>2. Len(<<name, i>>) = 2
      OBVIOUS
    <2>3. <<name, i>> \in Refs
      BY DEF Refs
    <2>4. QED BY <2>1, <2>2, <2>3
  <1>3. CASE s = "ollama"
    <2>1. CallId(s, way, name, i, n) = <<"call", i>>
      BY <1>3 DEF CallId, OllamaCallId
    <2>2. QED BY <1>3, <2>1 DEF Refs
  <1>4. CASE s # "google" /\ s # "ollama"
    <2>1. CallId(s, way, name, i, n) = <<"id", n, i>>
      BY <1>4 DEF CallId
    <2>2. QED BY <1>4, <2>1 DEF Refs
  <1>5. QED BY <1>1, <1>2, <1>3, <1>4

(* The user goes on, or the target of a hand-off begins.                   *)
LEMMA UserKeeps ==
  ASSUME WireInv, Growing, conv' = Append(conv, Message("user", TRUE, <<>>, <<>>, "none")),
         pending' = <<>>, unanswered' = unanswered \cup Open(conv), service' \in WireServices
  PROVE  WireInv'
PROOF
  <1> DEFINE m == Message("user", TRUE, <<>>, <<>>, "none")
             none == <<>>
  <1>1. m \in Plain /\ m.role = "user"
    <2>1. none \in Refs
      BY PartFacts
    <2>2. QED BY <2>1, PlainMessage
  <1>2. conv' = Append(conv, m) /\ pending' = none /\ Len(conv) < MaxMessages
    BY DEF Growing
  <1>3. WireOK(conv, pending, unanswered)
    BY DEF WireInv
  <1> HIDE DEF m
  <1>4. WireOK(Append(conv, m), pending', unanswered')
    BY <1>1, <1>2, <1>3, OthersKeep
  <1>5. Len(Append(conv, m)) = Len(conv) + 1 /\ Len(conv) \in Nat
    BY <1>1, <1>3, AppendedIs DEF WireOK
  <1>6. Len(conv') <= MaxMessages
    BY <1>2, <1>5, WireBounds
  <1>7. QED BY <1>2, <1>4, <1>6 DEF WireInv

LEMMA SayKeeps ==
  ASSUME WireInv, Say
  PROVE  WireInv'
PROOF
  <1>1. /\ pending = <<>> /\ pending' = <<>> /\ service' = service /\ unanswered' = unanswered
        /\ Growing /\ conv' = Append(conv, Message("user", TRUE, <<>>, <<>>, "none"))
    BY DEF Say
  <1>2. /\ conv \in Seq(Plain) /\ Followed(conv, pending, unanswered) /\ Len(conv) \in Nat
        /\ service \in WireServices
    BY DEF WireInv, WireOK
  <1>3. Open(conv) \subseteq unanswered
    <2>1. SUFFICES ASSUME NEW x \in Open(conv), x \notin unanswered PROVE FALSE
      OBVIOUS
    <2>2. x \in Places(conv) /\ x[1] + x[2] > Len(conv) /\ x[1] \in Nat /\ x[2] \in Nat
      BY <1>2 DEF Open, Places
    <2>3. ~(x[1] + x[2] <= Len(conv)) /\ Len(pending) = 0
      BY <1>1, <1>2, <2>2
    <2>4. x[1] + x[2] <= Len(conv) + Len(pending)
      BY <1>2, <2>1, <2>2, <2>3 DEF Followed
    <2>5. QED BY <1>2, <2>2, <2>3, <2>4
  <1>4. unanswered' = unanswered \cup Open(conv) /\ service' \in WireServices
    BY <1>1, <1>2, <1>3
  <1>5. QED BY <1>1, <1>4, UserKeeps

LEMMA HandOffKeeps ==
  ASSUME WireInv, NEW s \in WireServices, HandOff(s)
  PROVE  WireInv'
PROOF
  <1>1. conv \in Seq(Plain)
    BY DEF WireInv, WireOK
  <1>2. WaitingPlaces = Open(conv)
    BY <1>1, PlacesAre
  <1>3. /\ pending' = <<>> /\ service' \in WireServices /\ unanswered' = unanswered \cup Open(conv)
        /\ Growing /\ conv' = Append(conv, Message("user", TRUE, <<>>, <<>>, "none"))
    BY <1>2 DEF HandOff
  <1>4. QED BY <1>3, UserKeeps

LEMMA ReturnKeeps ==
  ASSUME WireInv, Return
  PROVE  WireInv'
PROOF
  <1> DEFINE m == Message("tool", TRUE, <<>>, Head(pending), "none")
             none == <<>>
             h == Head(pending)
  <1>1. pending # <<>> /\ conv' = Append(conv, m) /\ pending' = Tail(pending) /\ service' = service
        /\ Len(conv) < MaxMessages /\ unanswered' = unanswered
    BY DEF Return, Growing
  <1>2. WireOK(conv, pending, unanswered)
    BY DEF WireInv
  <1>3. m \in Plain /\ m.role = "tool" /\ m.answers = h
    <2>1. h \in Refs
      BY <1>1, <1>2 DEF WireOK
    <2> HIDE DEF h
    <2>2. /\ Message("tool", TRUE, <<>>, h, "none") \in Plain
          /\ Message("tool", TRUE, <<>>, h, "none").role = "tool"
          /\ Message("tool", TRUE, <<>>, h, "none").answers = h
      BY <2>1, PlainMessage
    <2>3. QED BY <2>2 DEF h
  <1> HIDE DEF m
  <1>4. WireOK(Append(conv, m), pending', unanswered')
    BY <1>1, <1>2, <1>3, OthersKeep
  <1>5. Len(Append(conv, m)) = Len(conv) + 1 /\ Len(conv) \in Nat
    BY <1>2, <1>3, AppendedIs DEF WireOK
  <1>6. Len(conv') <= MaxMessages
    BY <1>1, <1>5, WireBounds
  <1>7. QED BY <1>1, <1>4, <1>6 DEF WireInv

LEMMA AnswersKeeps ==
  ASSUME WireInv, NEW way \in {"chat", "stream"}, NEW text \in BOOLEAN,
         NEW n \in 0..2, NEW names \in [1..n -> Names], Answers(way, text, names)
  PROVE  WireInv'
PROOF
  <1> DEFINE cs == [i \in DOMAIN names |->
                      [name |-> names[i], id |-> CallId(service, way, names[i], i - 1, Len(conv))]]
             none == <<>>
             m == Message("assistant", text, cs, none, service)
             p == [i \in DOMAIN cs |-> cs[i].id]
  <1>1. /\ pending = <<>> /\ Last(conv).role \in {"user", "tool"}
        /\ conv' = Append(conv, m) /\ pending' = p /\ service' = service
        /\ Len(conv) < MaxMessages /\ unanswered' = unanswered
    BY DEF Answers, Growing
  <1>2. WireOK(conv, <<>>, unanswered) /\ conv \in Seq(Plain) /\ conv # <<>> /\ Len(conv) \in Nat
        /\ Len(conv) <= MaxMessages /\ service \in WireServices
    BY <1>1 DEF WireInv, WireOK
  <1>3. \A i \in 1..n : names[i] \in Names /\ i - 1 \in Nat
    OBVIOUS
  <1>4. \A i \in 1..n :
          /\ CallId(service, way, names[i], i - 1, Len(conv)) \in Refs
          /\ service = "google" /\ Len(CallId(service, way, names[i], i - 1, Len(conv))) = 1
               => CallId(service, way, names[i], i - 1, Len(conv)) = <<names[i]>>
    BY <1>2, <1>3, Ids
  <1>5. /\ cs \in Seq(ToolCallRec) /\ Len(cs) = n /\ DOMAIN cs = 1..n
        /\ \A i \in 1..n : /\ cs[i].id = CallId(service, way, names[i], i - 1, Len(conv))
                           /\ cs[i].name = names[i]
    <2>1. \A i \in 1..n : [name |-> names[i], id |-> CallId(service, way, names[i], i - 1, Len(conv))]
                            \in ToolCallRec
      BY <1>3, <1>4 DEF ToolCallRec
    <2>2. DOMAIN names = 1..n /\ n \in Nat
      OBVIOUS
    <2>3. QED BY <2>1, <2>2
  <1> HIDE DEF cs
  <1>6. /\ m \in Plain /\ m.role = "assistant" /\ m.calls = cs /\ m.from = service
    <2>1. none \in Refs /\ service \in {"openai", "anthropic", "google", "ollama", "none"}
      BY <1>2, PartFacts DEF WireServices
    <2> HIDE DEF none
    <2>2. QED BY <1>5, <2>1, SpokenMessage
  <1>7. p \in Seq(Refs) /\ Len(p) = n /\ \A i \in 1..n : p[i] = cs[i].id
    BY <1>4, <1>5
  <1>8. conv[Len(conv)].role \in {"user", "tool"}
    BY <1>1, <1>2 DEF Last
  <1> HIDE DEF m, p
  <1>9. WireOK(Append(conv, m), p, unanswered)
    <2> DEFINE nobody == <<>>
    <2>1. m.from = "google" /\ (\A k \in 1..Len(m.calls) : Len(m.calls[k].id) = 1)
           => \A k \in 1..Len(m.calls) : m.calls[k].id = <<m.calls[k].name>>
      BY <1>4, <1>5, <1>6
    <2>2. Len(p) = Len(m.calls) /\ \A i \in 1..Len(p) : p[i] = m.calls[i].id
      BY <1>5, <1>6, <1>7
    <2>3. m.from # "none"
      BY <1>2, <1>6 DEF WireServices
    <2>4. WireOK(conv, nobody, unanswered) /\ nobody = <<>>
      BY <1>2
    <2> HIDE DEF nobody
    <2>5. QED BY <1>6, <1>7, <1>8, <2>1, <2>2, <2>3, <2>4, ModelKeeps
  <1>10. Len(Append(conv, m)) = Len(conv) + 1
    BY <1>2, <1>6, AppendedIs
  <1>11. Len(conv') <= MaxMessages
    BY <1>1, <1>2, <1>10, WireBounds
  <1>12. QED BY <1>1, <1>2, <1>9, <1>11 DEF WireInv

LEMMA InitWire ==
  ASSUME Init
  PROVE  WireInv
PROOF
  <1> DEFINE m == Message("system", TRUE, <<>>, <<>>, "none")
             none == <<>>
             w == OpenAIMessage(m)
  <1>1. conv = <<m>> /\ pending = none /\ service \in WireServices /\ unanswered = {}
    BY DEF Init, WireInit
  <1>2. /\ m \in Plain /\ m \notin Speech /\ m.role = "system" /\ m.calls = <<>> /\ m \in MessageSet
    <2>1. none \in Seq(ToolCallRec) /\ none \in Refs
      BY PartFacts
    <2>2. m.role = "system" /\ m.calls = <<>>
      BY DEF Message
    <2>3. m \in MessageSet
      BY <2>1 DEF Message, MessageSet
    <2>4. QED BY <2>2, <2>3 DEF Plain, Speech
  <1> HIDE DEF m
  <1>3. /\ conv \in Seq(Plain) /\ Len(conv) = 1 /\ conv[1] = m /\ conv # <<>>
        /\ Range(conv) = {m} /\ none \in Seq(Plain) /\ conv = Append(none, m)
    <2>1. conv \in Seq(Plain) /\ Len(conv) = 1 /\ conv[1] = m /\ DOMAIN conv = {1}
      BY <1>1, <1>2
    <2>2. none \in Seq(Plain) /\ <<m>> = Append(none, m)
      OBVIOUS
    <2>3. QED BY <1>1, <2>1, <2>2 DEF Range
  <1>4. pending \in Seq(Refs) /\ Range(pending) = {} /\ Len(pending) = 0
    BY <1>1 DEF Range
  <1>5. Len(conv) <= MaxMessages
    BY <1>3, WireBounds
  <1>6. Waiting(conv, pending)
    BY <1>1 DEF Waiting
  <1>7. Followed(conv, pending, unanswered) /\ OpenIs(conv, pending) /\ unanswered \subseteq Places(conv)
    <2>1. \A i \in 1..Len(conv) : Len(conv[i].calls) = 0
      BY <1>2, <1>3
    <2>2. Places(conv) = {}
      BY <2>1 DEF Places
    <2>3. QED BY <1>1, <1>4, <2>2 DEF Followed, OpenIs
  <1>8. MergeConsecutive(none) = none /\ none \in Seq(ContentSet)
    BY MergeEmpty
  <1>9. \A a : Answered(none, a, {}, {})
    <2>1. Len(none) = 0
      OBVIOUS
    <2>2. QED BY <2>1 DEF Answered
  <1>10. Answered(MergeConsecutive(OpenAIRequest(conv)), "assistant", {}, {})
    <2>1. /\ w \in ContentSet /\ w.role = "system" /\ CallsIn(w) = {} /\ ResultsIn(w) = {}
      <3>1. {x.id : x \in Range(m.calls)} = {}
        <4>1. Range(m.calls) = {}
          BY <1>2 DEF Range
        <4>2. QED BY <4>1
      <3>2. QED BY <1>2, <3>1, OpenAIConverts
    <2>2. OpenAIRequest(none) = none
      BY DEF OpenAIRequest
    <2>3. OpenAIRequest(conv) = Append(none, w)
      <3>1. OpenAIRequest(Append(none, m)) = Append(OpenAIRequest(none), w)
        BY <1>2, <1>3, OpenAIRequestIs
      <3>2. QED BY <1>3, <2>2, <3>1
    <2> DEFINE nobody == {}
    <2>4. ResultsIn(w) \cup nobody \subseteq nobody /\ nobody \ nobody \subseteq ResultsIn(w) \cup nobody
          /\ nobody \subseteq nobody
          /\ Answered(MergeConsecutive(none), "assistant", nobody, nobody)
          /\ w.role # "assistant" /\ CallsIn(w) = {}
          /\ (nobody # {} => Last(MergeConsecutive(none)).role \in {"assistant", w.role} \/ nobody \subseteq nobody)
      BY <1>8, <1>9, <2>1
    <2> HIDE DEF nobody, w, none
    <2>5. Answered(MergeConsecutive(Append(none, w)), "assistant", nobody, nobody)
      BY <1>8, <2>1, <2>4, OthersTurn
    <2>6. QED BY <2>3, <2>5 DEF nobody
  <1>11. Conversation(conv) = <<>>
    <2>1. Conversation(conv) \in Seq(Speech) /\ Range(Conversation(conv)) = Range(conv) \cap Speech
      BY <1>3, ConversationIs
    <2>2. Range(Conversation(conv)) = {}
      BY <1>2, <1>3, <2>1
    <2>3. ASSUME NEW u \in Seq(Speech), u # <<>> PROVE Range(u) # {}
      <3>1. 1 \in DOMAIN u
        BY <2>3
      <3>2. QED BY <3>1 DEF Range
    <2>4. QED BY <2>1, <2>2, <2>3
  <1>12. AnthropicContents(conv) = none /\ GoogleContents(conv) = none
    BY <1>11 DEF AnthropicContents, GoogleContents
  <1>13. /\ Answered(AnthropicRequest(conv), "assistant", {}, {})
         /\ Answered(GoogleRequest(conv), "model", {}, {})
    BY <1>8, <1>9, <1>12 DEF AnthropicRequest, GoogleRequest
  <1>14. AllAnswered(conv, pending, unanswered)
    <2>1. Gone(conv, unanswered) = {}
      BY <1>1 DEF Gone
    <2>2. QED BY <1>4, <1>10, <1>13, <2>1 DEF AllAnswered
  <1>15. WireOK(conv, pending, unanswered)
    BY <1>3, <1>4, <1>6, <1>7, <1>14 DEF WireOK
  <1>16. QED BY <1>1, <1>5, <1>15 DEF WireInv

LEMMA NextWire ==
  ASSUME WireInv, [Next]_vars
  PROVE  WireInv'
PROOF
  <1>1. CASE Say
    BY <1>1, SayKeeps
  <1>2. CASE Return
    BY <1>2, ReturnKeeps
  <1>3. ASSUME NEW way \in {"chat", "stream"}, NEW text \in BOOLEAN,
               NEW names \in UNION {[1..n -> Names] : n \in 0..2}, Answers(way, text, names)
        PROVE  WireInv'
    <2>1. PICK n \in 0..2 : names \in [1..n -> Names]
      OBVIOUS
    <2>2. QED BY <1>3, <2>1, AnswersKeeps
  <1>4. ASSUME NEW s \in WireServices, TakeOver(s) PROVE WireInv'
    BY <1>4 DEF TakeOver, WireInv
  <1>a. ASSUME NEW s \in WireServices, HandOff(s) PROVE WireInv'
    BY <1>a, HandOffKeeps
  <1>5. CASE UNCHANGED wireVars
    BY <1>5 DEF wireVars, WireInv
  <1>6. QED BY <1>1, <1>2, <1>3, <1>4, <1>5, <1>a
            DEF Next, WireNext, vars, Client_, Stream_, Wire_, Feed_, Remote_

LEMMA AnsweredTurns ==
  ASSUME NEW turns \in Seq(ContentSet), NEW a, Answered(turns, a, {}, Gone(conv, unanswered))
  PROVE  TurnsAnswered(turns)
PROOF
  <1>1. DOMAIN turns = 1..Len(turns) /\ Len(turns) \in Nat
    OBVIOUS
  <1>2. UnansweredIds = Gone(conv, unanswered)
    BY DEF UnansweredIds, Gone, IdAt
  <1>3. ASSUME NEW i \in 1..Len(turns), CallsIn(turns[i]) # {}, i < Len(turns)
        PROVE  /\ ResultsIn(turns[i + 1]) \subseteq CallsIn(turns[i])
               /\ CallsIn(turns[i]) \ UnansweredIds \subseteq ResultsIn(turns[i + 1])
    <2>1. i \in 1..(Len(turns) - 1)
      BY <1>1, <1>3
    <2>2. Balanced(ResultsIn(turns[i + 1]), {}, CallsIn(turns[i]), Gone(conv, unanswered))
      BY <1>3, <2>1 DEF Answered
    <2>3. QED BY <1>2, <2>2 DEF Balanced
  <1>4. QED BY <1>1, <1>3 DEF TurnsAnswered

LEMMA ResultsComeAfter ==
  ASSUME WireInv, pending = <<>>
  PROVE  ResultsFollow(OllamaRequest(conv))
PROOF
  <1> DEFINE r == OllamaRequest(conv)
  <1>1. conv \in Seq(Plain) /\ Followed(conv, pending, unanswered) /\ Len(conv) \in Nat
        /\ DOMAIN conv = 1..Len(conv) /\ Len(pending) = 0
    BY DEF WireInv, WireOK
  <1>2. DOMAIN r = 1..Len(conv) /\ \A i \in 1..Len(conv) : r[i] = OllamaMessage(conv[i])
    BY <1>1 DEF OllamaRequest
  <1>3. \A i \in 1..Len(conv) : conv[i] \in MessageSet
    BY <1>1, PlainIsMessage
  <1> HIDE DEF r
  <1>4. ASSUME NEW i \in 1..Len(conv), NEW k \in 1..Len(PartsThatCall(r[i].parts)),
               <<i, k>> \notin unanswered
        PROVE  i + k \in DOMAIN r /\ ResultsIn(r[i + k]) # {}
    <2>1. k \in 1..Len(conv[i].calls)
      <3>1. IF conv[i].role = "tool"
            THEN PartsThatCall(r[i].parts) = <<>>
            ELSE Len(PartsThatCall(r[i].parts)) = Len(conv[i].calls)
        BY <1>2, <1>3, OllamaConverts
      <3>2. CASE conv[i].role = "tool"
        <4>1. Len(PartsThatCall(r[i].parts)) = 0
          BY <3>1, <3>2
        <4>2. QED BY <1>4, <4>1
      <3>3. CASE conv[i].role # "tool"
        BY <1>4, <3>1, <3>3
      <3>4. QED BY <3>2, <3>3
    <2>2. k \in Nat \ {0} /\ k <= Len(conv[i].calls)
      <3>1. Len(conv[i].calls) \in Nat
        BY <1>1, MessageCalls
      <3>2. QED BY <2>1, <3>1
    <2> DEFINE x == <<i, k>>
    <2>3. x \in Places(conv) /\ x[1] = i /\ x[2] = k
      BY <2>2 DEF Places
    <2>4. IF i + k <= Len(conv) THEN conv[i + k].role = "tool" ELSE i + k <= Len(conv) + Len(pending)
      <3>1. x \in Places(conv) \ unanswered
        BY <1>4, <2>3
      <3> HIDE DEF x
      <3>2. QED BY <1>1, <2>3, <3>1 DEF Followed
    <2>5. i + k \in 1..Len(conv) /\ conv[i + k].role = "tool"
      BY <1>1, <2>2, <2>4
    <2>6. ResultsIn(OllamaMessage(conv[i + k])) # {}
      BY <1>3, <2>5, OllamaConverts
    <2>7. QED BY <1>2, <2>5, <2>6
  <1>5. \A i \in DOMAIN r : \A k \in 1..Len(PartsThatCall(r[i].parts)) :
          <<i, k>> \in unanswered \/ (i + k \in DOMAIN r /\ ResultsIn(r[i + k]) # {})
    BY <1>2, <1>4
  <1>6. QED BY <1>5 DEF ResultsFollow, PartsThatCall, r

LEMMA WireInvFaithful ==
  ASSUME WireInv
  PROVE  WireFaithful
PROOF
  <1>1. /\ service \in WireServices /\ conv \in Seq(Plain) /\ AllAnswered(conv, pending, unanswered)
        /\ DOMAIN conv = 1..Len(conv)
    BY DEF WireInv, WireOK
  <1>2. (References("openai") \/ References("anthropic")) => Numbered(conv)
    BY <1>1 DEF References, AnswersFrom, Numbered
  <1>3. References("google") => Named(conv)
    <2>1. \A i \in 1..Len(conv) : DOMAIN conv[i].calls = 1..Len(conv[i].calls)
      <3>1. \A i \in 1..Len(conv) : conv[i] \in MessageSet
        BY <1>1, PlainIsMessage
      <3>2. QED BY <3>1, MessageFields
    <2>2. QED BY <1>1, <2>1 DEF References, AnswersFrom, Named
  <1>4. pending = <<>> => Range(pending) = {}
    BY DEF Range
  <1>5. CASE service = "anthropic"
    <2> DEFINE s == AnthropicContents(conv)
    <2>1. s \in Seq(ContentSet)
      BY <1>1, AnthropicContentsAre
    <2> HIDE DEF s
    <2>2. /\ MergeConsecutive(s) \in Seq(ContentSet)
          /\ PartsOf(MergeConsecutive(s)) = PartsOf(s) /\ Alternating(MergeConsecutive(s))
      BY <2>1, Merged
    <2>3. ASSUME pending = <<>>, References(service) PROVE TurnsAnswered(MergeConsecutive(s))
      <3>1. Answered(MergeConsecutive(s), "assistant", {}, Gone(conv, unanswered))
        BY <1>1, <1>2, <1>4, <1>5, <2>3 DEF AllAnswered, AnthropicRequest, s
      <3>2. QED BY <2>2, <3>1, AnsweredTurns
    <2>4. QED BY <1>5, <2>2, <2>3 DEF WireFaithful, AnthropicRequest, s
  <1>6. CASE service = "google"
    <2> DEFINE s == GoogleContents(conv)
    <2>1. s \in Seq(ContentSet)
      BY <1>1, GoogleContentsAre
    <2> HIDE DEF s
    <2>2. /\ MergeConsecutive(s) \in Seq(ContentSet)
          /\ PartsOf(MergeConsecutive(s)) = PartsOf(s) /\ Alternating(MergeConsecutive(s))
      BY <2>1, Merged
    <2>3. ASSUME pending = <<>>, References(service) PROVE TurnsAnswered(MergeConsecutive(s))
      <3>1. Answered(MergeConsecutive(s), "model", {}, Gone(conv, unanswered))
        BY <1>1, <1>3, <1>4, <1>6, <2>3 DEF AllAnswered, GoogleRequest, s
      <3>2. QED BY <2>2, <3>1, AnsweredTurns
    <2>4. QED BY <1>6, <2>2, <2>3 DEF WireFaithful, GoogleRequest, s
  <1>7. CASE service = "openai"
    <2> DEFINE s == OpenAIRequest(conv)
    <2>1. s \in Seq(ContentSet)
      BY <1>1, OpenAIRequestIs
    <2> HIDE DEF s
    <2>2. MergeConsecutive(s) \in Seq(ContentSet)
      BY <2>1, Merged
    <2>3. ASSUME pending = <<>>, References(service) PROVE TurnsAnswered(MergeConsecutive(s))
      <3>1. Answered(MergeConsecutive(s), "assistant", {}, Gone(conv, unanswered))
        BY <1>1, <1>2, <1>4, <1>7, <2>3 DEF AllAnswered, s
      <3>2. QED BY <2>2, <3>1, AnsweredTurns
    <2>4. QED BY <1>7, <2>3 DEF WireFaithful, s
  <1>8. CASE service = "ollama"
    BY <1>8, ResultsComeAfter DEF WireFaithful
  <1>9. QED BY <1>1, <1>5, <1>6, <1>7, <1>8 DEF WireServices

(***************************************************************************)
(* What is sent is the conversation.  In every behaviour, whatever agents  *)
(* answered in turn and wherever one handed over to another, merging keeps *)
(* every part in its order and the roles of a request alternate; and when  *)
(* no call waits the results of each turn are of calls of the turn before, *)
(* all of them but those that a hand-off left, as long as the ids are the  *)
(* service's own, and for ollama as many results as calls follow up to a   *)
(* hand-off (anthropic.go:347-398, google.go:262-295, 398-412,             *)
(* openai.go:262-285, ollama.go:163-187, runner.go:303-349).               *)
(***************************************************************************)
THEOREM RequestsAreFaithful == Spec => []WireFaithful
PROOF
  <1>1. WireInv /\ [Next]_vars => WireInv'
    BY NextWire
  <1>2. Init => WireInv
    BY InitWire
  <1>3. WireInv => WireFaithful
    BY WireInvFaithful
  <1>4. QED BY <1>1, <1>2, <1>3, PTL DEF Spec

(***************************************************************************)
(* Every variable is of its type: the invariants of the five exchanges     *)
(* together.                                                               *)
(***************************************************************************)
ExchangesInv ==
  /\ about \in Subjects
  /\ CallInv /\ StreamInv /\ WireInv /\ FeedInv /\ RemoteInv

LEMMA ExchangesInvTypeOK ==
  ASSUME ExchangesInv
  PROVE  TypeOK
PROOF
  <1>1. ClientTypeOK
    <2>1. /\ stack \in Stacks /\ call \in ChatRec /\ call.member \in DOMAIN stack
          /\ call.client \in DOMAIN stack[call.member].clients
          /\ call.attempt <= Client.retries /\ turn \in [DOMAIN stack -> Nat]
      BY DEF ExchangesInv, CallInv, CallTyped
    <2>2. Client.retries \in Nat
      BY <2>1, StackFacts DEF Client, Member
    <2>3. call.attempt \in Nat /\ call.stage \in {"idle", "trying", "waiting", "done"}
          /\ call.result \in {"none", "ok", "error"}
      BY <2>1 DEF ChatRec
    <2>4. call.attempt \in 0..Client.retries
      BY <2>1, <2>2, <2>3
    <2>5. QED BY <2>1, <2>3, <2>4 DEF ClientTypeOK, Member
  <1>2. StreamTypeOK
    BY DEF ExchangesInv, StreamInv, StreamTyped, StreamTypeOK, ReaderRec, GotRec
  <1>3. WireTypeOK
    <2>1. service \in WireServices /\ Len(conv) <= MaxMessages /\ conv \in Seq(Plain)
          /\ unanswered \subseteq Places(conv)
      BY DEF ExchangesInv, WireInv, WireOK
    <2>2. \A i \in DOMAIN conv : conv[i] \in MessageSet
      BY <2>1, PlainIsMessage
    <2>a. unanswered \subseteq CallPlaces
      BY <2>1, PlacesAre
    <2>3. QED BY <2>1, <2>2, <2>a, MessageFields DEF WireTypeOK
  <1>4. FeedTypeOK
    BY DEF ExchangesInv, FeedInv, FeedTyped, FeedTypeOK, FeedRec
  <1>5. RemoteTypeOK
    BY DEF ExchangesInv, RemoteInv, RemoteTyped, LockOK, RemoteTypeOK, CallRec, Stages
  <1>6. QED BY <1>1, <1>2, <1>3, <1>4, <1>5 DEF TypeOK, ExchangesInv

(* In every behaviour each variable of the five exchanges is of its type:  *)
(* a call is at a member and a client there is and within its retries, a   *)
(* channel holds no more than its capacity, and who reads holds the mutex. *)
THEOREM ExchangesTyped == Spec => []TypeOK
PROOF
  <1>1. Init => ExchangesInv
    <2> SUFFICES ASSUME Init PROVE ExchangesInv
      OBVIOUS
    <2>2. about \in Subjects
      BY DEF Init
    <2>3. QED BY <2>2, InitCall, InitStream, InitWire, InitFeed, InitRemote DEF ExchangesInv
  <1>2. ExchangesInv /\ [Next]_vars => ExchangesInv'
    <2> SUFFICES ASSUME ExchangesInv, [Next]_vars PROVE ExchangesInv'
      OBVIOUS
    <2>2. about' \in Subjects
      BY DEF ExchangesInv, Next, vars, Client_, Stream_, Wire_, Feed_, Remote_
    <2>3. CallInv /\ StreamInv /\ WireInv /\ FeedInv /\ RemoteInv
      BY DEF ExchangesInv
    <2>4. CallInv' /\ StreamInv' /\ WireInv' /\ FeedInv' /\ RemoteInv'
      BY <2>3, NextCall, NextStream, NextWire, NextFeed, NextRemote
    <2>5. QED BY <2>2, <2>4 DEF ExchangesInv
  <1>3. ExchangesInv => TypeOK
    BY ExchangesInvTypeOK
  <1>4. QED BY <1>1, <1>2, <1>3, PTL DEF Spec
=============================================================================
