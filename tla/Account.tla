------------------------------- MODULE Account -------------------------------
(***************************************************************************)
(* One connector's account and the three missions that act through it:     *)
(* direct messages, public replies under our posts, and comments under     *)
(* other people's.  Each counts what the tables say was done this hour.    *)
(* The two comment missions work inside one transaction per pass, so what  *)
(* they have done is public before it is in a table; a direct message is   *)
(* counted once its row says "sent".  What the connector calls an error    *)
(* may have been taken by the platform all the same.                       *)
(*                                                                         *)
(* The connector is one that answers for delivery: the lines of the others *)
(* are "queued" and never counted.                                         *)
(* Comments are numbered by occurred_at.  An hour is what lies between two *)
(* steps HourPasses; a day, and the quiet time of a person, is a run.      *)
(***************************************************************************)
EXTENDS Integers, FiniteSets, FiniteSetsExt

CONSTANTS
  Comments,    \* the comments people leave under our posts, 1..n
  PostOf,      \* the post of each
  Casts,       \* what they may be to classify_comment: "reply", "hide" or "skip"
  Targets,     \* leads whose feed is worth a visit
  AccountCap,  \* hourly_cap
  CommentCap,  \* comment_hourly_cap
  PerPostCap,  \* comment_per_post_cap
  VisitCap,    \* proactive_comment_daily_cap
  Share,       \* budget_share of the visits, in percent
  Senders,     \* how many sender runs may have a line of the account in hand
  MaxIrregular \* bound: lines of managers, acts that an error hides and passes
               \* that die, together

ASSUME AccountAssumption ==
  /\ Comments = 1..Cardinality(Comments) /\ IsFiniteSet(Comments)
  /\ IsFiniteSet(Targets) /\ Comments \cap Targets = {}
  /\ Casts \subseteq [Comments -> {"reply", "hide", "skip"}]
  /\ {AccountCap, CommentCap, PerPostCap, VisitCap, Senders} \subseteq Nat \ {0}
  /\ Share \in 0..100 /\ MaxIrregular \in Nat

VARIABLES
  kindOf,   \* what each comment is
  written,  \* comments left so far: 1..written
  note,     \* post_comment.status, "away" while it has no row
  feeds,    \* outbound_comment: newest posts judged, people written to
  dm,       \* lines claimed in this hour whose outcome is not recorded
  hour,     \* committed actions of this hour, by mission
  reply,    \* the comment pass: its grant, its queue, its uncommitted rows
  visit,    \* the visiting pass, likewise
  said,     \* how often each comment and each lead was written to
  hidden,   \* how often an error hid a comment from each lead
  lost,     \* actions of this hour that no table knows of
  byHand,   \* lines claimed in this hour that managers wrote
  mixed,    \* two acts or missions were under way at once this hour
  passDeaths

accountVars == <<kindOf, written, note, feeds, dm, hour, reply, visit, said, hidden,
                 lost, byHand, mixed, passDeaths>>
------------------------------------------------------------------------------
Idling(rows) == [open |-> FALSE, left |-> 0, queue |-> {}, done |-> 0,
                 rows |-> rows]
NoPass == Idling(<<>>)
AtWork == reply.open \/ visit.open
NoActs == [dm |-> 0, reply |-> 0, visit |-> 0]

\* account_spend.  A slip: the sender's own lines only, as it once was.
DmSpend(h) == h.dm
AccountSpend(h) == h.dm + h.reply + h.visit
Left(h) == Max({0, AccountCap - AccountSpend(h)})

\* share_of
Entitled(n) == (n * Share) \div 100
ShareOf(h)  == Max({0, Min({Entitled(AccountCap) - Entitled(AccountSpend(h)),
                            Left(h)})})

\* What the platform has seen of this account since the hour began, or more.
Acts == hour.dm + hour.reply + hour.visit + dm + reply.done + visit.done + lost
Irregular == byHand + lost + passDeaths + MapThenSumSet(LAMBDA t : hidden[t], Targets)
------------------------------------------------------------------------------
Writes ==
  /\ written < Cardinality(Comments)
  /\ written' = written + 1
  /\ UNCHANGED <<kindOf, note, feeds, dm, hour, reply, visit, said, hidden,
                 lost, byHand,
                 mixed, passDeaths>>

\* What is in flight is on record, if at all, in the hour of its claim (sent_at).
HourPasses ==
  /\ Acts > 0 \/ mixed
  /\ hour' = NoActs /\ dm' = 0
  /\ lost' = 0 /\ byHand' = 0
  /\ mixed' = AtWork
  /\ UNCHANGED <<kindOf, written, note, feeds, reply, visit, said, hidden,
                 passDeaths>>

\* _cap_reached is asked of what the system writes, not of a manager's line;
\* then the line is claimed, and the connector takes its time.
StartsDm ==
  /\ dm < Senders /\ dm' = dm + 1
  /\ \/ Left(hour) > 0 /\ byHand' = byHand
     \/ Irregular < MaxIrregular /\ byHand' = byHand + 1
  /\ mixed' = (mixed \/ AtWork \/ dm > 0)
  /\ UNCHANGED <<kindOf, written, note, feeds, hour, reply, visit, said,
                 hidden, lost, passDeaths>>

\* "sent" and counted; not sent; or sent, and the row says an error or the run
\* was killed before it said anything.
EndsDm ==
  /\ dm > 0 /\ dm' = dm - 1
  /\ \/ hour' = [hour EXCEPT !.dm = @ + 1] /\ lost' = lost
     \/ UNCHANGED <<hour, lost>>
     \/ Irregular < MaxIrregular /\ lost' = lost + 1 /\ hour' = hour
  /\ UNCHANGED <<kindOf, written, note, feeds, reply, visit, said, hidden,
                 byHand, mixed, passDeaths>>
------------------------------------------------------------------------------
(* The comment pass (ingest_comments_branch).                              *)
\* fetch_own_comments since the newest stored one; a post may fail.
Stored(rows) == {c \in Comments : rows[c] # "away"}
Fetched(answering) == {c \in 1..written : /\ \A d \in Stored(note) : c > d
                                          /\ PostOf[c] \in answering}
Pending(rows)   == {c \in Comments : rows[c] = "pending"}
FirstOf(S, n)   == {c \in S : Cardinality({d \in S : d < c}) < n}
ReplyGrant(h)   == Min({Max({0, CommentCap - h.reply}), Left(h)})

\* CommentService.ingest and the beginning of process, in one transaction,
\* which is over when there is no grant.
Ingested(answering) == [c \in Comments |-> IF c \in Fetched(answering)
                                           THEN "pending" ELSE note[c]]
OpensPass ==
  /\ ~reply.open
  /\ \E answering \in SUBSET {PostOf[c] : c \in Comments} :
     LET rows  == Ingested(answering)
         grant == ReplyGrant(hour)
     IN \/ /\ grant = 0
           /\ note' = rows /\ UNCHANGED <<reply, mixed>>
        \/ /\ grant > 0 /\ Pending(rows) # {}
           /\ reply' = [Idling(rows) EXCEPT
                          !.open = TRUE, !.left = grant,
                          !.queue = FirstOf(Pending(rows), 2 * grant)]
           /\ mixed' = (mixed \/ visit.open \/ dm > 0)
           /\ note' = note
  /\ UNCHANGED <<kindOf, written, feeds, dm, hour, visit, said, hidden, lost,
                 byHand, passDeaths>>

Turn(c) == /\ reply.open /\ reply.done < reply.left
           /\ c \in reply.queue /\ \A d \in reply.queue : c <= d
\* A slip: the row of an answered comment is left as it is.
ForgetsReply(c, status) ==
  [reply EXCEPT !.queue = @ \ {c},
                !.rows = IF status = "replied" THEN @
                         ELSE [@ EXCEPT ![c] = status],
                !.done = IF status = "replied" THEN @ + 1 ELSE @]
Marks(c, status) ==
  [reply EXCEPT !.queue = @ \ {c}, !.rows = [@ EXCEPT ![c] = status],
                !.done = IF status = "replied" THEN @ + 1 ELSE @]
RepliedUnder(rows, p) ==
  Cardinality({c \in Comments : PostOf[c] = p /\ rows[c] = "replied"})
PostIsFull(c) == RepliedUnder(reply.rows, PostOf[c]) >= PerPostCap

\* What a pass does with the comment at the head of its queue.  A slip: one
\* that is passed over keeps its status.
LeavesSkipped(c) ==
  /\ kindOf[c] = "skip" \/ (kindOf[c] = "reply" /\ PostIsFull(c))
  /\ reply' = Marks(c, "pending") /\ UNCHANGED <<said, lost>>
Skips(c) ==
  /\ kindOf[c] = "skip" \/ (kindOf[c] = "reply" /\ PostIsFull(c))
  /\ reply' = Marks(c, "skipped") /\ UNCHANGED <<said, lost>>
\* A failed deletion leaves the comment pending for the next pass, however
\* often; one that is gone already or not ours to delete fails for good.
Hides(c) ==
  /\ kindOf[c] = "hide"
  /\ reply' = Marks(c, "hidden") /\ UNCHANGED <<said, lost>>
HideFails(c) ==
  /\ kindOf[c] = "hide"
  /\ reply' = Marks(c, "pending") /\ UNCHANGED <<said, lost>>
Replies(c) ==
  /\ kindOf[c] = "reply" /\ ~PostIsFull(c)
  /\ \/ reply' = Marks(c, "replied") /\ said' = [said EXCEPT ![c] = @ + 1] /\ lost' = lost
     \/ reply' = Marks(c, "error") /\ UNCHANGED <<said, lost>>
     \/ /\ Irregular < MaxIrregular /\ lost' = lost + 1
        /\ reply' = Marks(c, "error") /\ said' = [said EXCEPT ![c] = @ + 1]
Handles(c) ==
  /\ Turn(c)
  /\ Skips(c) \/ Hides(c) \/ HideFails(c) \/ Replies(c)
  /\ UNCHANGED <<kindOf, written, note, feeds, dm, hour, visit, hidden,
                 byHand, mixed, passDeaths>>

\* The queue is done, or the grant is.
CommitsPass ==
  /\ reply.open /\ (reply.queue = {} \/ reply.done >= reply.left)
  /\ note' = reply.rows
  /\ hour' = [hour EXCEPT !.reply = @ + reply.done]
  /\ reply' = NoPass
  /\ UNCHANGED <<kindOf, written, feeds, dm, visit, said, hidden, lost,
                 byHand, mixed, passDeaths>>
------------------------------------------------------------------------------
(* The visits (proactive_comments_branch).                                 *)
\* A person publishes again: the newest post has no row.
Publishes(t) ==
  /\ t \in feeds.seen /\ ~visit.open
  /\ feeds' = [feeds EXCEPT !.seen = @ \ {t}]
  /\ UNCHANGED <<kindOf, written, note, dm, hour, reply, visit, said, hidden,
                 lost, byHand,
                 mixed, passDeaths>>

LeftToday     == Max({0, VisitCap - Cardinality(feeds.wrote)})
VisitGrant(h) == Min({LeftToday, ShareOf(h)})
OpensVisits ==
  /\ ~visit.open /\ VisitGrant(hour) > 0
  /\ visit' = [Idling(feeds) EXCEPT !.open = TRUE, !.left = VisitGrant(hour)]
  /\ mixed' = (mixed \/ reply.open \/ dm > 0)
  /\ UNCHANGED <<kindOf, written, note, feeds, dm, hour, reply, said, hidden,
                 lost, byHand, passDeaths>>

\* seen and wrote_to_recently.
Welcome(t)    == t \notin visit.rows.seen \cup visit.rows.wrote
Calls(t, wrote) ==
  [visit EXCEPT !.rows.seen = @ \cup {t}, !.rows.wrote = @ \cup wrote,
                !.done = @ + Cardinality(wrote)]

\* Judged not worth it, refused by the platform or answered with an error: the
\* row stays, and the post is never looked at again.  Behind an error the
\* comment may be public; only the rows "sent" count as written to.
Visits(t) ==
  /\ visit.open /\ visit.done < visit.left /\ Welcome(t)
  /\ \/ visit' = Calls(t, {}) /\ UNCHANGED <<said, hidden, lost>>
     \/ /\ visit' = Calls(t, {t}) /\ said' = [said EXCEPT ![t] = @ + 1]
        /\ UNCHANGED <<hidden, lost>>
     \/ /\ Irregular < MaxIrregular
        /\ visit' = Calls(t, {}) /\ said' = [said EXCEPT ![t] = @ + 1]
        /\ hidden' = [hidden EXCEPT ![t] = @ + 1] /\ lost' = lost + 1
  /\ UNCHANGED <<kindOf, written, note, feeds, dm, hour, reply, byHand, mixed,
                 passDeaths>>

CommitsVisits ==
  /\ visit.open
  /\ feeds' = visit.rows
  /\ hour' = [hour EXCEPT !.visit = @ + visit.done]
  /\ visit' = NoPass
  /\ UNCHANGED <<kindOf, written, note, dm, reply, said, hidden, lost, byHand,
                 mixed, passDeaths>>

\* A killed job or a database error takes the whole pass with it.
PassDies ==
  /\ Irregular < MaxIrregular /\ passDeaths' = passDeaths + 1
  /\ \/ /\ reply.open /\ lost' = lost + reply.done
        /\ reply' = NoPass /\ visit' = visit
     \/ /\ visit.open /\ lost' = lost + visit.done
        /\ visit' = NoPass /\ reply' = reply
  /\ UNCHANGED <<kindOf, written, note, feeds, dm, hour, said, hidden, byHand,
                 mixed>>
------------------------------------------------------------------------------
AccountInit ==
  /\ kindOf \in Casts
  /\ written = 0 /\ note = [c \in Comments |-> "away"]
  /\ feeds = [seen |-> {}, wrote |-> {}]
  /\ hour = NoActs /\ dm = 0
  /\ reply = NoPass /\ visit = NoPass
  /\ said = [x \in Comments \cup Targets |-> 0]
  /\ hidden = [t \in Targets |-> 0]
  /\ lost = 0 /\ byHand = 0 /\ mixed = FALSE /\ passDeaths = 0

AccountNext ==
  \/ Writes
  \/ HourPasses
  \/ StartsDm
  \/ EndsDm
  \/ OpensPass
  \/ \E c \in Comments : Handles(c)
  \/ CommitsPass
  \/ \E t \in Targets : Publishes(t) \/ Visits(t)
  \/ OpensVisits
  \/ CommitsVisits
  \/ PassDies

\* The passes are hourly jobs with an end; an hour ends; and a pass that finds
\* a grant again and again is begun with one.
GrantedPass == OpensPass /\ reply'.open
PassGoesOn  == CommitsPass \/ \E c \in Comments : Handles(c)
AccountFairness ==
  /\ WF_accountVars(HourPasses)
  /\ SF_accountVars(GrantedPass)
  /\ WF_accountVars(PassGoesOn)
AccountSpec == AccountInit /\ [][AccountNext]_accountVars /\ AccountFairness
------------------------------------------------------------------------------
(* Statuses are those the code writes; a pass never exceeds its grant, nor *)
(* the replies of an hour their own cap, whatever the other missions do.   *)
NoteStatus == {"away", "pending", "replied", "hidden", "skipped", "error"}
Feeds == [seen : SUBSET Targets, wrote : SUBSET Targets]
PassOver(Rows) == [open : {TRUE}, left : Nat, queue : SUBSET Comments, done : Nat,
                   rows : Rows]
AccountTypeOK ==
  /\ kindOf \in Casts /\ written \in 0..Cardinality(Comments)
  /\ note \in [Comments -> NoteStatus]
  /\ feeds \in Feeds
  /\ dm \in 0..Senders
  /\ hour \in [dm : Nat, reply : Nat, visit : Nat]
  /\ reply.open => reply \in PassOver([Comments -> NoteStatus])
  /\ visit.open => visit \in PassOver(Feeds)
  /\ hour.reply + reply.done <= CommentCap
  /\ reply.done <= reply.left /\ (~reply.open => reply = NoPass)
  /\ visit.done <= visit.left /\ (~visit.open => visit = NoPass)
  /\ said \in [Comments \cup Targets -> Nat] /\ hidden \in [Targets -> Nat]
  /\ lost \in Nat /\ byHand \in Nat
  /\ mixed \in BOOLEAN /\ passDeaths \in Nat

(* Nobody is written to twice in public: a second line under one comment   *)
(* takes a pass that died between posting and its commit; a second one to  *)
(* one person in the quiet time takes that, or a comment that an error has *)
(* hidden.  Each costs at most one line too many.                          *)
NeverTwice ==
  /\ \A c \in Comments : said[c] <= 1 + passDeaths
  /\ \A t \in Targets : said[t] <= 1 + passDeaths + hidden[t]

(* "The cap belongs to the connector" (budget.py): the hour's actions of   *)
(* all missions together stay below it while they come one after the       *)
(* other, but for what managers write, which is counted and not held, and  *)
(* what no table knows of.  A pass that is open while others act has been  *)
(* granted what they are spending, and lines in flight are not yet counted:*)
(* then the cap is passed by the two grants and the other runs at most.    *)
Overshoot == CommentCap + Entitled(AccountCap) + Senders - 1
CeilingHolds ==
  /\ ~mixed => Acts <= AccountCap + lost + byHand
  /\ Acts <= AccountCap + Overshoot + lost + byHand

(* The comments that have a row are all decided in the end, however many   *)
(* direct messages, errors and dead passes are in the way, but for the one *)
(* that is to be hidden: its deletion may fail for ever, and it stays the  *)
(* oldest of a queue that is cut at twice the grant.  With a second of its *)
(* kind in an account of small grants nothing behind them is looked at.    *)
CommentsSettled ==
  Cardinality({c \in Comments : kindOf[c] = "hide"}) < 2 =>
    <>[](\A c \in Pending(note) : kindOf[c] = "hide")
==============================================================================
