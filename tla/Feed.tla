-------------------------------- MODULE Feed --------------------------------
(***************************************************************************)
(* How the messages of a platform come into the channel the bridge reads:  *)
(* the polling connectors (connector/telegram, slack, twitter, email, and  *)
(* github when it polls) and the webhooks (connector/whatsapp, and github  *)
(* with WebhookPort).  The items of the platform are numbered in the order *)
(* they were made, one channel or repository is followed, and the platform *)
(* is external: it answers a poll as the connector's query asks.           *)
(***************************************************************************)
EXTENDS Naturals, Sequences, FiniteSets, SequencesExt, Selection

CONSTANTS
  MaxItems,    \* bound: the items the platform makes
  QueueCap,    \* capacity of the channel (64 in the code)
  PageSize     \* items in one answer of slack and github (10 and 30)

ASSUME FeedBounds ==
  /\ MaxItems \in Nat
  /\ QueueCap \in Nat \ {0}
  /\ PageSize \in Nat \ {0}

VARIABLES
  kind,        \* kind: which connector it is
  published,   \* published: the number of items so far
  confirmed,   \* confirmed: the updates telegram no longer keeps
  feed,        \* feed: the connector
  queue,       \* queue: its channel
  entered,     \* entered: history: what this process has put into it
  taken,       \* taken: what the bridge has taken out of it
  lost,        \* lost: history: what was in it when a process ended
  signal       \* signal: whether the context is done or Stop was called

feedVars == <<kind, published, confirmed, feed, queue, entered, taken, lost, signal>>

Pollers == {"telegram", "slack", "twitter", "twitterNewestFirst", "github", "email"}
Hooks == {"whatsapp", "githubHook"}

(* Every third item of telegram and whatsapp is not a message with a text. *)
IsMessage(i) == kind \in {"telegram", "whatsapp"} => i % 3 # 2

NewFeed == [stage |-> "idle", cursor |-> 0, batch |-> <<>>, newest |-> 0, start |-> 0]

FeedInit ==
  /\ published = 0
  /\ confirmed = 0
  /\ feed = NewFeed
  /\ queue = <<>>
  /\ entered = <<>>
  /\ taken = <<>>
  /\ lost = {}
  /\ signal = "none"

OldestFirst(after) == [i \in 1..(published - after) |-> after + i]
Page(after) ==
  LET all == Reverse(OldestFirst(after)) IN
  SubSeq(all, 1, IF Len(all) < PageSize THEN Len(all) ELSE PageSize)

(* What the platforms answer a poll.  An offset tells telegram what it can *)
(* forget; email finds whatever nobody read and skips what it knows.       *)
Confirmed == IF feed.cursor > confirmed THEN feed.cursor ELSE confirmed
TelegramUpdates == OldestFirst(Confirmed)
SlackHistory == Page(feed.cursor)
GithubEvents == Selected(Page(0), LAMBDA i : i > feed.cursor)
TwitterMentions ==
  IF kind = "twitter" THEN OldestFirst(feed.cursor) ELSE Reverse(OldestFirst(feed.cursor))
EmailUnseen == Selected(OldestFirst(0), LAMBDA uid : uid > feed.cursor)

(* Mutant of Room: the capacity is off by one.                             *)
RoomForOneMore == Len(queue) <= QueueCap

Room == Len(queue) < QueueCap
Enter(i) ==
  /\ queue' = Append(queue, i)
  /\ entered' = Append(entered, i)

Publish ==
  /\ published < MaxItems
  /\ published' = published + 1
  /\ feed' = IF kind \in Hooks /\ feed.stage = "idle"
             THEN [feed EXCEPT !.batch = Append(@, published + 1)] ELSE feed
  /\ UNCHANGED <<kind, confirmed, queue, entered, taken, lost, signal>>

(* All but telegram pick at random between a signal and their ticker.      *)
MayPoll(k) == kind = k /\ feed.stage = "idle" /\ signal # "cancelled"

(* Mutant of NewestOf: slack continues from the last message of the page.  *)
LastOf(page) == page[Len(page)]

NewestOf(page) == page[1]

Receive(answer) ==
  /\ answer # <<>>
  /\ feed' = [feed EXCEPT !.stage = "sending", !.batch = answer, !.newest = NewestOf(answer)]
  /\ UNCHANGED <<kind, published, queue, entered, taken, lost, signal>>

PollTelegram ==
  /\ MayPoll("telegram") /\ signal = "none"
  /\ Receive(TelegramUpdates)
  /\ confirmed' = Confirmed
PollSlack == MayPoll("slack") /\ Receive(SlackHistory) /\ UNCHANGED confirmed
PollGithub == MayPoll("github") /\ Receive(GithubEvents) /\ UNCHANGED confirmed
PollTwitter ==
  /\ MayPoll("twitter") \/ MayPoll("twitterNewestFirst")
  /\ Receive(TwitterMentions)
  /\ UNCHANGED confirmed
PollEmail == MayPoll("email") /\ Receive(EmailUnseen) /\ UNCHANGED confirmed
Poll == PollTelegram \/ PollSlack \/ PollGithub \/ PollTwitter \/ PollEmail

(* A poll that fails is repeated; github forgets what it did not get.      *)
PollFails ==
  /\ MayPoll("github")
  /\ feed' = [feed EXCEPT !.cursor = published]
  /\ UNCHANGED <<kind, published, confirmed, queue, entered, taken, lost, signal>>

(* The next item goes into the channel, which may have to be waited for.   *)
Current == Head(feed.batch)
Passed(cursor) == [feed EXCEPT !.batch = Tail(@), !.cursor = cursor]
Passing(kinds) ==
  /\ kind \in kinds /\ feed.stage = "sending" /\ feed.batch # <<>>
  /\ UNCHANGED <<kind, published, confirmed, taken, lost, signal>>

SendUpdate ==
  /\ Passing({"telegram"})
  /\ IF IsMessage(Current) THEN Room /\ Enter(Current) ELSE UNCHANGED <<queue, entered>>
  /\ feed' = Passed(Current)
SendMention ==
  /\ Passing({"twitter", "twitterNewestFirst"})
  /\ Room /\ Enter(Current)
  /\ feed' = Passed(Current)
SendEvent ==
  /\ Passing({"slack", "github"})
  /\ Room /\ Enter(Current)
  /\ feed' = Passed(feed.cursor)

(* Email drops what finds no room.                                         *)
SendMail ==
  /\ Passing({"email"})
  /\ IF Room THEN Enter(Current) ELSE UNCHANGED <<queue, entered>>
  /\ feed' = Passed(Current)
Send == SendUpdate \/ SendMention \/ SendEvent \/ SendMail

(* A done context ends a wait for room, and telegram's Start with it.      *)
EnqueueCancelled ==
  /\ Passing(Pollers \ {"email"})
  /\ signal = "cancelled" /\ IsMessage(Current)
  /\ feed' = [feed EXCEPT !.batch = <<>>,
                          !.stage = IF kind = "telegram" THEN "closed" ELSE "idle"]
  /\ UNCHANGED <<queue, entered>>

(* Slack continues after the newest of the page, github from now on.       *)
EndAt(cursor) ==
  /\ feed.stage = "sending" /\ feed.batch = <<>>
  /\ feed' = [feed EXCEPT !.stage = "idle", !.cursor = cursor]
  /\ UNCHANGED <<kind, published, confirmed, queue, entered, taken, lost, signal>>
EndHistory == kind = "slack" /\ EndAt(feed.newest)
EndEvents == kind = "github" /\ EndAt(published)
EndPoll == EndHistory \/ EndEvents \/ (kind \notin {"slack", "github"} /\ EndAt(feed.cursor))

(* A handler of a webhook puts its message in, or drops it when there is   *)
(* no room; whatsapp passes over what has no text.  Once the channel is    *)
(* closed a send panics, which ends the handler.                           *)
Offer(i) ==
  /\ IF feed.stage = "idle" /\ IsMessage(i) /\ Room THEN Enter(i) ELSE UNCHANGED <<queue, entered>>
  /\ feed' = [feed EXCEPT !.batch = Selected(@, LAMBDA j : j # i)]
  /\ UNCHANGED <<kind, published, confirmed, taken, lost, signal>>
HandleWhatsApp == kind = "whatsapp" /\ \E i \in Range(feed.batch) : Offer(i)
HandleGithub == kind = "githubHook" /\ \E i \in Range(feed.batch) : Offer(i)
Handle == HandleWhatsApp \/ HandleGithub

Heard == signal = "cancelled" \/ (signal = "stopped" /\ kind # "githubHook")

CloseFeed ==
  /\ feed.stage = "idle"
  /\ Heard
  /\ feed' = [feed EXCEPT !.stage = "closed"]
  /\ UNCHANGED <<kind, published, confirmed, queue, entered, taken, lost, signal>>

TakeItem ==
  /\ queue # <<>>
  /\ queue' = Tail(queue)
  /\ taken' = Append(taken, Head(queue))
  /\ UNCHANGED <<kind, published, confirmed, feed, entered, lost, signal>>

Signal(s) ==
  /\ signal = "none"
  /\ signal' = s
  /\ UNCHANGED <<kind, published, confirmed, feed, queue, entered, taken, lost>>

(* The process ends, once, and another starts: the cursor is not kept.     *)
Restart ==
  /\ signal = "none"
  /\ feed.start = 0 /\ entered # <<>>
  /\ lost' = lost \cup Range(queue)
  /\ queue' = <<>>
  /\ entered' = <<>>
  /\ feed' = [NewFeed EXCEPT !.start = confirmed + 1]
  /\ UNCHANGED <<kind, published, confirmed, taken, signal>>

FeedStep == Poll \/ Send \/ EnqueueCancelled \/ EndPoll \/ Handle \/ CloseFeed \/ TakeItem
FeedNext ==
  \/ FeedStep \/ Publish \/ PollFails \/ Restart
  \/ \E s \in {"cancelled", "stopped"} : Signal(s)

-----------------------------------------------------------------------------
(* Properties.                                                             *)

FeedTypeOK ==
  /\ feed.stage \in {"idle", "sending", "closed"}
  /\ feed.cursor \in 0..published /\ confirmed \in 0..published
  /\ Len(queue) <= QueueCap
  /\ signal \in {"none", "cancelled", "stopped"}

Messages(after, upTo) ==
  Selected([i \in 1..(upTo - after) |-> after + i], IsMessage)
Begun == IF feed.start = 0 THEN 0 ELSE feed.start - 1

(* One process passes on no message twice, as long as twitter lists the    *)
(* oldest mention first; what telegram and twitter give comes in order and *)
(* without a gap up to the cursor; and an update is gone from telegram     *)
(* only when it was taken, is in the channel or was there when the process *)
(* ended (telegram.go:77-100, slack.go:146-165, twitter.go:160-174).       *)
FeedFaithful ==
  /\ kind # "twitterNewestFirst" => IsInjective(entered)
  /\ kind = "telegram" /\ feed.cursor > 0 => entered = Messages(Begun, feed.cursor)
  /\ kind = "twitter" => entered = Messages(0, feed.cursor)
  /\ kind = "telegram" =>
       \A i \in 1..confirmed :
         IsMessage(i) => i \in Range(taken) \cup Range(queue) \cup lost

(* A feed that hears it shall end closes its channel, if the bridge goes   *)
(* on taking what is in it.                                                *)
FeedsClose == Heard ~> feed.stage = "closed"
=============================================================================
