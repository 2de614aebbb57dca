------------------------------- MODULE OfficeProofs -------------------------------
(***************************************************************************)
(* What the public missions, the attachments and the whole back office     *)
(* promise, for any comments, people, caps and attachments and however     *)
(* often a pass dies or a button is pressed.                               *)
(*                                                                         *)
(* Account.  The records of an open pass are in no table, so the invariant *)
(* speaks of both: a line under a comment is in the status that the open   *)
(* pass, or else the table, has of it, or its record died with a pass.  A  *)
(* pass that works alone was granted what the hour had left, and what it   *)
(* has done is within the grant.  What is spent, in flight and granted is  *)
(* together within the cap, or passes it by what managers wrote and what   *)
(* was granted before it was spent.                                        *)
(*                                                                         *)
(* Attachments.  A press and a pass each write what they have changed of a *)
(* row that both have read.  As long as the table knows of no order for an *)
(* attachment, nor an open pass that will write it, the broker has none    *)
(* but those of dead passes, of presses that are over and of requests gone *)
(* astray.                                                                 *)
(***************************************************************************)
EXTENDS BackOffice, SilenceProofs

\* The steps of each, whatever is fair among them.
AccountRuns == AccountInit /\ [][AccountNext]_accountVars
MediaRuns   == MediaInit /\ [][MediaNext]_mediaVars

(* Max and Min of two numbers.                                             *)
LEMMA OfTwo ==
  ASSUME NEW a \in Int, NEW b \in Int
  PROVE  /\ Max({a, b}) \in {a, b} /\ Max({a, b}) >= a /\ Max({a, b}) >= b
         /\ Min({a, b}) \in {a, b} /\ Min({a, b}) <= a /\ Min({a, b}) <= b
<1>1. \E x \in {a, b} : \A y \in {a, b} : x >= y
  OBVIOUS
<1>2. \E x \in {a, b} : \A y \in {a, b} : x <= y
  OBVIOUS
<1>3. Max({a, b}) \in {a, b} /\ \A y \in {a, b} : Max({a, b}) >= y
  BY <1>1 DEF Max
<1>4. Min({a, b}) \in {a, b} /\ \A y \in {a, b} : Min({a, b}) <= y
  BY <1>2 DEF Min
<1>. QED
  BY <1>3, <1>4

(* A pass is granted what its own cap and the connector's leave, and no    *)
(* more, and never less than nothing.                                      *)
LEMMA Grants ==
  ASSUME NEW h \in [dm : Nat, reply : Nat, visit : Nat], h.reply <= CommentCap,
         feeds \in Feeds
  PROVE  /\ Left(h) \in Nat
         /\ Left(h) > 0 => AccountSpend(h) + Left(h) <= AccountCap
         /\ ReplyGrant(h) \in Nat
         /\ ReplyGrant(h) > 0 => AccountSpend(h) + ReplyGrant(h) <= AccountCap
         /\ h.reply + ReplyGrant(h) <= CommentCap
         /\ VisitGrant(h) \in Nat
         /\ VisitGrant(h) > 0 => AccountSpend(h) + VisitGrant(h) <= AccountCap
         /\ VisitGrant(h) <= Entitled(AccountCap) \/ VisitGrant(h) = 0
         /\ Entitled(AccountCap) \in Nat
<1>. DEFINE spent == AccountSpend(h)
            open  == AccountCap - spent
            room  == CommentCap - h.reply
            rest  == Entitled(AccountCap) - Entitled(spent)
            today == VisitCap - Cardinality(feeds.wrote)
<1>1. /\ AccountCap \in Nat /\ CommentCap \in Nat /\ VisitCap \in Nat
      /\ Share \in Nat
  BY AccountAssumption
<1>2. spent \in Nat /\ open \in Int /\ room \in Nat /\ room \in Int
        /\ h.reply \in Nat
  BY <1>1 DEF AccountSpend
<1>3. rest \in Int /\ Entitled(AccountCap) \in Nat /\ rest <= Entitled(AccountCap)
  <2>1. \A n \in Nat : n * Share \in Nat
    BY <1>1
  <2>2. \A k \in Nat : k \div 100 \in Nat
    OBVIOUS
  <2>3. Entitled(AccountCap) \in Nat /\ Entitled(spent) \in Nat
    BY <1>1, <1>2, <2>1, <2>2 DEF Entitled
  <2>. QED
    BY <2>3
<1>4. today \in Int
  <2>1. IsFiniteSet(feeds.wrote)
    BY AccountAssumption, FS_Subset DEF Feeds
  <2>. QED
    BY <1>1, <2>1, FS_CardinalityType
<1>5. /\ Left(h) = Max({0, open}) /\ ReplyGrant(h) = Min({Max({0, room}), Left(h)})
      /\ ShareOf(h) = Max({0, Min({rest, Left(h)})})
      /\ VisitGrant(h) = Min({Max({0, today}), ShareOf(h)})
  BY DEF Left, ReplyGrant, ShareOf, VisitGrant, LeftToday
<1>6. open = AccountCap - spent /\ room = CommentCap - h.reply
  OBVIOUS
<1>. HIDE DEF spent, open, room, rest, today
<1>0. 0 \in Int
  OBVIOUS
<1>7. Left(h) \in Nat /\ (Left(h) > 0 => spent + Left(h) <= AccountCap)
  <2>1. Max({0, open}) \in {0, open} /\ Max({0, open}) >= 0
    BY <1>0, <1>2, OfTwo, Zenon
  <2>. QED
    BY <1>1, <1>2, <1>5, <1>6, <2>1
<1>8. /\ ReplyGrant(h) \in Nat /\ ReplyGrant(h) <= Left(h)
      /\ h.reply + ReplyGrant(h) <= CommentCap
  <2>1. Max({0, room}) \in {0, room} /\ Max({0, room}) >= 0 /\ Max({0, room}) >= room
    BY <1>0, <1>2, OfTwo, Zenon
  <2>2. Max({0, room}) = room
    BY <1>2, <2>1
  <2>3. Left(h) \in Int /\ room \in Int
    BY <1>2, <1>7
  <2>4. /\ Min({room, Left(h)}) \in {room, Left(h)}
        /\ Min({room, Left(h)}) <= room /\ Min({room, Left(h)}) <= Left(h)
    BY <2>3, OfTwo, Zenon
  <2>5. ReplyGrant(h) = Min({room, Left(h)})
    BY <1>5, <2>2
  <2>. QED
    BY <1>1, <1>2, <1>6, <1>7, <2>4, <2>5
<1>9. /\ ShareOf(h) \in Nat /\ ShareOf(h) <= Left(h)
      /\ ShareOf(h) <= rest \/ ShareOf(h) = 0
  <2>. DEFINE least == Min({rest, Left(h)})
  <2>1. Left(h) \in Int
    BY <1>7
  <2>2. least \in {rest, Left(h)} /\ least <= Left(h) /\ least <= rest
    BY <1>3, <2>1, OfTwo, Zenon
  <2>3. least \in Int /\ ShareOf(h) = Max({0, least})
    BY <1>3, <1>5, <2>1, <2>2
  <2>. HIDE DEF least
  <2>4. Max({0, least}) \in {0, least} /\ Max({0, least}) >= 0
    BY <1>0, <2>3, OfTwo, Zenon
  <2>. QED
    BY <1>7, <2>2, <2>3, <2>4
<1>10. /\ VisitGrant(h) \in Nat /\ VisitGrant(h) <= ShareOf(h)
  <2>. DEFINE most == Max({0, today})
  <2>1. most \in {0, today} /\ most >= 0
    BY <1>0, <1>4, OfTwo, Zenon
  <2>2. most \in Nat /\ ShareOf(h) \in Int /\ VisitGrant(h) = Min({most, ShareOf(h)})
    BY <1>4, <1>5, <1>9, <2>1
  <2>4. most \in Int /\ ShareOf(h) \in Int
    BY <2>2
  <2>. HIDE DEF most
  <2>3. Min({most, ShareOf(h)}) \in {most, ShareOf(h)} /\ Min({most, ShareOf(h)}) <= ShareOf(h)
    BY <2>4, OfTwo, Zenon
  <2>. QED
    BY <1>9, <2>2, <2>3
<1>. QED
  BY <1>1, <1>2, <1>3, <1>7, <1>8, <1>9, <1>10 DEF spent
------------------------------------------------------------------------------
(* Where a comment and a feed stand: in the open pass, or in the tables.   *)
Standing(c) == IF reply.open THEN reply.rows[c] ELSE note[c]
Feed        == IF visit.open THEN visit.rows ELSE feeds

\* Each line under a comment is in its status, or died with a pass; each to a
\* person is on record, died with a pass or was hidden by an error.
Final == {"replied", "error"}
AnsweredOnce == \A c \in Comments :
  said[c] <= passDeaths + (IF Standing(c) \in Final THEN 1 ELSE 0)
WrittenToOnce == \A t \in Targets :
  said[t] <= passDeaths + hidden[t] + (IF t \in Feed.wrote THEN 1 ELSE 0)

\* What a pass has still to look at is undecided.
QueuePending == reply.open => \A c \in reply.queue : reply.rows[c] = "pending"

\* What is spent, in flight and granted.  A pass that is alone has been granted
\* no more than what is left; one that is not, no more than the cap would allow.
Reserved == AccountSpend(hour) + dm + reply.left + visit.left
GrantsFit ==
  /\ hour.reply + reply.left <= CommentCap
  /\ visit.left <= Entitled(AccountCap)
  /\ ~mixed => Reserved <= AccountCap + byHand
  /\ Reserved <= AccountCap + Overshoot + byHand

AccountInvariant ==
  AccountTypeOK /\ AnsweredOnce /\ WrittenToOnce /\ QueuePending /\ GrantsFit

(* The two passes are records, open or shut.                               *)
LEMMA Passes ==
  ASSUME AccountTypeOK
  PROVE  /\ reply.left \in Nat /\ reply.done \in Nat
         /\ visit.left \in Nat /\ visit.done \in Nat
         /\ reply.open => reply \in PassOver([Comments -> NoteStatus])
         /\ visit.open => visit \in PassOver(Feeds)
         /\ ~reply.open => reply.left = 0 /\ reply.done = 0
         /\ ~visit.open => visit.left = 0 /\ visit.done = 0
         /\ AccountSpend(hour) \in Nat /\ hour.reply \in Nat
         /\ AccountCap \in Nat /\ CommentCap \in Nat
         /\ AccountSpend(NoActs) = 0 /\ NoActs.reply = 0
         /\ ~NoPass.open /\ NoPass.left = 0 /\ NoPass.done = 0
         /\ hour \in [dm : Nat, reply : Nat, visit : Nat] /\ feeds \in Feeds
         /\ hour.reply + reply.done <= CommentCap
         /\ reply.done <= reply.left /\ visit.done <= visit.left
         /\ dm \in Nat /\ dm <= Senders /\ byHand \in Nat
<1>1. reply.open => reply \in PassOver([Comments -> NoteStatus])
  BY DEF AccountTypeOK
<1>2. visit.open => visit \in PassOver(Feeds)
  BY DEF AccountTypeOK
<1>3. ~NoPass.open /\ NoPass.left = 0 /\ NoPass.done = 0
  BY DEF NoPass, Idling
<1>4. (~reply.open => reply = NoPass) /\ (~visit.open => visit = NoPass)
  BY DEF AccountTypeOK
<1>5. AccountSpend(hour) \in Nat /\ hour.reply \in Nat
  BY DEF AccountTypeOK, AccountSpend
<1>8. /\ AccountCap \in Nat /\ CommentCap \in Nat
      /\ AccountSpend(NoActs) = 0 /\ NoActs.reply = 0
  BY AccountAssumption DEF AccountSpend, NoActs
<1>9. /\ hour \in [dm : Nat, reply : Nat, visit : Nat] /\ feeds \in Feeds
      /\ hour.reply + reply.done <= CommentCap
      /\ reply.done <= reply.left /\ visit.done <= visit.left
      /\ dm \in Nat /\ dm <= Senders /\ byHand \in Nat
  BY AccountAssumption DEF AccountTypeOK
<1>6. ASSUME NEW Rows, NEW p, p.open => p \in PassOver(Rows), ~p.open => p = NoPass
      PROVE  p.left \in Nat /\ p.done \in Nat
  <2>1. CASE p.open
    BY <1>6, <2>1 DEF PassOver
  <2>2. CASE ~p.open
    <3>1. p = NoPass
      BY <1>6, <2>2
    <3>. QED
      BY <1>3, <3>1
  <2>. QED
    BY <2>1, <2>2
<1>7. /\ reply.left \in Nat /\ reply.done \in Nat
      /\ visit.left \in Nat /\ visit.done \in Nat
  BY <1>1, <1>2, <1>4, <1>6
<1>. QED
  BY <1>1, <1>2, <1>3, <1>4, <1>5, <1>6, <1>7, <1>8, <1>9

(* By how much grants that overlap may pass the cap.                       *)
LEMMA Bounds ==
  /\ AccountCap \in Nat \ {0} /\ CommentCap \in Nat \ {0} /\ Senders \in Nat \ {0}
  /\ Entitled(AccountCap) \in Nat /\ Overshoot \in Nat
  /\ Overshoot = CommentCap + Entitled(AccountCap) + Senders - 1
<1>1. AccountCap \in Nat \ {0} /\ CommentCap \in Nat \ {0} /\ Senders \in Nat \ {0}
  BY AccountAssumption
<1>2. AccountCap * Share \in Nat
  BY <1>1, AccountAssumption
<1>3. \A k \in Nat : k \div 100 \in Nat
  OBVIOUS
<1>4. Entitled(AccountCap) \in Nat
  BY <1>2, <1>3 DEF Entitled
<1>. QED
  BY <1>1, <1>4 DEF Overshoot

(* No hour has begun and no pass is open.                                  *)
LEMMA AccountBegins == AccountInit => AccountInvariant
<1>. SUFFICES ASSUME AccountInit PROVE AccountInvariant
  OBVIOUS
<1>. USE DEF AccountInit, NoPass, Idling, NoActs
<1>1. Cardinality(Comments) \in Nat
  BY AccountAssumption, FS_CardinalityType
<1>2. AccountTypeOK
  <2>1. written \in 0..Cardinality(Comments) /\ passDeaths \in Nat
          /\ kindOf \in Casts /\ dm \in 0..Senders /\ byHand \in Nat
    BY <1>1, AccountAssumption
  <2>2. note \in [Comments -> NoteStatus] /\ feeds \in Feeds
    BY DEF NoteStatus, Feeds
  <2>3. /\ hour \in [dm : Nat, reply : Nat, visit : Nat]
        /\ said \in [Comments \cup Targets -> Nat] /\ hidden \in [Targets -> Nat]
    OBVIOUS
  <2>4. hour.reply + reply.done <= CommentCap
    BY AccountAssumption
  <2>5. ~reply.open /\ ~visit.open /\ reply.done <= reply.left /\ visit.done <= visit.left
    OBVIOUS
  <2>6. reply = NoPass /\ visit = NoPass /\ lost \in Nat /\ mixed \in BOOLEAN
    OBVIOUS
  <2>. QED
    BY <2>1, <2>2, <2>3, <2>4, <2>5, <2>6, Zenon DEF AccountTypeOK
<1>3. AnsweredOnce /\ WrittenToOnce /\ QueuePending
  BY DEF AnsweredOnce, WrittenToOnce, QueuePending, Standing, Feed, Final
<1>4. GrantsFit
  BY Bounds DEF GrantsFit, AccountSpend, Reserved
<1>. QED
  BY <1>2, <1>3, <1>4 DEF AccountInvariant

(* The hour, the direct messages and new comments.                         *)
LEMMA HourKeeps ==
  ASSUME AccountInvariant, Writes \/ HourPasses \/ StartsDm \/ EndsDm
  PROVE  AccountInvariant'
<1>t. /\ AccountTypeOK /\ AnsweredOnce /\ WrittenToOnce /\ QueuePending
      /\ GrantsFit
  BY DEF AccountInvariant
<1>1. CASE Writes
  <2>c. Cardinality(Comments) \in Nat
    BY AccountAssumption, FS_CardinalityType
  <2>1. AccountTypeOK'
    BY <1>t, <1>1, <2>c DEF Writes, AccountTypeOK
  <2>2. AnsweredOnce' /\ WrittenToOnce' /\ QueuePending' /\ GrantsFit'
    BY <1>t, <1>1 DEF Writes, AnsweredOnce, WrittenToOnce, QueuePending,
                      GrantsFit, Standing, Feed, AccountSpend, Reserved
  <2>. QED
    BY <2>1, <2>2 DEF AccountInvariant
<1>2. CASE HourPasses
  <2>1. /\ hour' = NoActs /\ dm' = 0 /\ lost' = 0 /\ byHand' = 0
        /\ mixed' \in BOOLEAN /\ reply' = reply /\ visit' = visit
        /\ ~mixed' => ~reply.open /\ ~visit.open
    BY <1>2, Zenon DEF HourPasses, AtWork
  <2>n. hour' \in [dm : Nat, reply : Nat, visit : Nat] /\ hour'.reply = 0
    BY <2>1 DEF NoActs
  <2>2. /\ reply.left <= CommentCap /\ reply.done <= CommentCap
        /\ reply.done \in Nat
    BY <1>t, Passes DEF GrantsFit
  <2>3. AccountTypeOK'
    BY <1>t, <1>2, <2>1, <2>n, <2>2, Bounds DEF HourPasses, AccountTypeOK
  <2>4. AnsweredOnce' /\ WrittenToOnce' /\ QueuePending'
    BY <1>t, <1>2 DEF HourPasses, AnsweredOnce, WrittenToOnce, QueuePending,
                      Standing, Feed
  <2>5. GrantsFit'
    <3>1. AccountSpend(hour') = 0
      BY <2>1, Passes, <1>t
    <3>2. Reserved' = reply.left + visit.left
      BY <1>t, <2>1, <3>1, Passes DEF Reserved
    <3>3. ~mixed' => Reserved' = 0
      BY <1>t, <2>1, <3>2, Passes
    <3>4. Reserved' <= AccountCap + Overshoot
      BY <1>t, <2>2, <3>2, Bounds, Passes DEF GrantsFit
    <3>5. hour'.reply + reply.left <= CommentCap
      BY <1>t, <2>n, <2>2, Passes
    <3>. QED
      BY <1>t, <2>1, <3>3, <3>4, <3>5, Bounds DEF GrantsFit
  <2>. QED
    BY <2>3, <2>4, <2>5 DEF AccountInvariant
<1>3. CASE StartsDm
  <2>1. /\ dm < Senders /\ dm' = dm + 1 /\ reply' = reply /\ visit' = visit
        /\ hour' = hour /\ mixed' \in BOOLEAN
        /\ (Left(hour) > 0 /\ byHand' = byHand) \/ byHand' = byHand + 1
        /\ ~mixed' => ~mixed /\ ~reply.open /\ ~visit.open /\ ~(dm > 0)
    BY <1>t, <1>3, Zenon DEF StartsDm, AtWork, AccountTypeOK
  <2>2. AccountTypeOK'
    BY <1>t, <1>3, <2>1, Bounds DEF StartsDm, AccountTypeOK
  <2>3. AnsweredOnce' /\ WrittenToOnce' /\ QueuePending'
    BY <1>t, <1>3 DEF StartsDm, AnsweredOnce, WrittenToOnce, QueuePending,
                      Standing, Feed
  <2>4. Reserved \in Nat /\ Reserved' = Reserved + 1
    BY <1>t, <2>1, Passes DEF Reserved
  <2>5. GrantsFit'
    <3>1. CASE Left(hour) > 0 /\ byHand' = byHand
      <4>1. AccountSpend(hour) + 1 <= AccountCap
        <5>1. Left(hour) \in Nat /\ AccountSpend(hour) + Left(hour) <= AccountCap
          BY <1>t, <3>1, Grants, Passes
        <5>. QED
          BY <1>t, <3>1, <5>1, Passes
      <4>2. ~mixed' => Reserved' <= AccountCap + byHand
        BY <1>t, <2>1, <2>4, <4>1, Passes DEF Reserved
      <4>3. Reserved' <= AccountCap + Overshoot + byHand
        <5>1. reply.left <= CommentCap
          BY <1>t, Passes, Bounds DEF GrantsFit
        <5>2. dm + 1 <= Senders
          BY <1>t, <2>1, Bounds, Passes
        <5>3. visit.left <= Entitled(AccountCap)
          BY <1>t DEF GrantsFit
        <5>. QED
          BY <1>t, <2>4, <4>1, <5>1, <5>2, <5>3, Passes, Bounds DEF Reserved
      <4>. QED
        BY <1>t, <2>1, <3>1, <4>2, <4>3 DEF GrantsFit
    <3>2. CASE byHand' = byHand + 1
      <4>1. ~mixed' => Reserved' <= AccountCap + byHand'
        BY <1>t, <2>1, <2>4, <3>2, Passes DEF GrantsFit
      <4>2. Reserved' <= AccountCap + Overshoot + byHand'
        BY <1>t, <2>4, <3>2, Passes, Bounds DEF GrantsFit
      <4>. QED
        BY <1>t, <2>1, <4>1, <4>2 DEF GrantsFit
    <3>. QED
      BY <2>1, <3>1, <3>2
  <2>. QED
    BY <2>2, <2>3, <2>5 DEF AccountInvariant
<1>4. CASE EndsDm
  <2>1. /\ dm > 0 /\ dm' = dm - 1 /\ lost' \in {lost, lost + 1}
        /\ hour' = hour \/ hour' = [hour EXCEPT !.dm = @ + 1]
        /\ reply' = reply /\ visit' = visit /\ mixed' = mixed /\ byHand' = byHand
    BY <1>4 DEF EndsDm
  <2>2. /\ hour' \in [dm : Nat, reply : Nat, visit : Nat] /\ hour'.reply = hour.reply
        /\ AccountSpend(hour') <= AccountSpend(hour) + 1 /\ AccountSpend(hour') \in Nat
    BY <1>t, <2>1 DEF AccountTypeOK, AccountSpend
  <2>3. AccountTypeOK'
    BY <1>t, <1>4, <2>1, <2>2, Bounds DEF EndsDm, AccountTypeOK
  <2>4. AnsweredOnce' /\ WrittenToOnce' /\ QueuePending'
    BY <1>t, <1>4 DEF EndsDm, AnsweredOnce, WrittenToOnce, QueuePending,
                      Standing, Feed
  <2>5. Reserved \in Nat /\ Reserved' \in Nat /\ Reserved' <= Reserved
    BY <1>t, <2>1, <2>2, Passes DEF Reserved
  <2>6. GrantsFit'
    BY <1>t, <2>1, <2>2, <2>5, Bounds, Passes DEF GrantsFit
  <2>. QED
    BY <2>3, <2>4, <2>6 DEF AccountInvariant
<1>. QED
  BY <1>1, <1>2, <1>3, <1>4

(* New rows are pending ones, in the place of none.                        *)
LEMMA IngestKeeps ==
  ASSUME AccountTypeOK, NEW answering
  PROVE  /\ Ingested(answering) \in [Comments -> NoteStatus]
         /\ \A c \in Comments :
              Ingested(answering)[c] \in Final <=> note[c] \in Final
<1>1. note \in [Comments -> NoteStatus]
  BY DEF AccountTypeOK
<1>2. Ingested(answering) \in [Comments -> NoteStatus]
  BY <1>1 DEF Ingested, NoteStatus
<1>3. ASSUME NEW c \in Comments, c \in Fetched(answering)
      PROVE  note[c] = "away"
  <2>1. c \in Int
    BY AccountAssumption, FS_CardinalityType
  <2>2. ~(c > c)
    BY <2>1
  <2>. QED
    BY <1>3, <2>2 DEF Fetched, Stored
<1>4. ASSUME NEW c \in Comments
      PROVE  Ingested(answering)[c] \in Final <=> note[c] \in Final
  BY <1>3 DEF Ingested, Final
<1>. QED
  BY <1>2, <1>4

(* A comment pass begins from the rows as they are.                        *)
LEMMA OpensPassKeeps ==
  ASSUME AccountInvariant, OpensPass
  PROVE  AccountInvariant'
<1>t. /\ AccountTypeOK /\ AnsweredOnce /\ WrittenToOnce /\ QueuePending
      /\ GrantsFit
  BY DEF AccountInvariant
<1>1. /\ ~reply.open
      /\ UNCHANGED <<kindOf, written, feeds, dm, hour, visit, said, hidden, lost,
                     byHand, passDeaths>>
  BY DEF OpensPass
<1>2. PICK answering :
        \/ /\ ReplyGrant(hour) = 0
           /\ note' = Ingested(answering) /\ UNCHANGED <<reply, mixed>>
        \/ /\ ReplyGrant(hour) > 0
           /\ reply' = [Idling(Ingested(answering)) EXCEPT
                          !.open = TRUE, !.left = ReplyGrant(hour),
                          !.queue = FirstOf(Pending(Ingested(answering)),
                                            2 * ReplyGrant(hour))]
           /\ mixed' = (mixed \/ visit.open \/ dm > 0)
           /\ note' = note
  BY Zenon DEF OpensPass
<1>. DEFINE rows  == Ingested(answering)
            grant == ReplyGrant(hour)
<1>3. /\ rows \in [Comments -> NoteStatus]
      /\ \A c \in Comments : rows[c] \in Final <=> note[c] \in Final
  BY <1>t, IngestKeeps
<1>4. /\ hour \in [dm : Nat, reply : Nat, visit : Nat] /\ feeds \in Feeds
      /\ hour.reply <= CommentCap
  BY <1>t, <1>1, Passes
<1>5. /\ grant \in Nat /\ hour.reply + grant <= CommentCap
      /\ grant > 0 => AccountSpend(hour) + grant <= AccountCap
  BY <1>4, Grants
<1>6. CASE grant = 0
  <2>1. note' = rows /\ reply' = reply /\ mixed' = mixed
    BY <1>2, <1>6
  <2>2. AccountTypeOK'
    BY <1>t, <1>1, <1>3, <2>1 DEF AccountTypeOK
  <2>3. AnsweredOnce'
    BY <1>t, <1>1, <1>3, <2>1 DEF AnsweredOnce, Standing
  <2>4. WrittenToOnce' /\ QueuePending' /\ GrantsFit'
    BY <1>t, <1>1, <2>1 DEF WrittenToOnce, QueuePending, GrantsFit, Feed,
                            AccountSpend, Reserved
  <2>. QED
    BY <2>2, <2>3, <2>4 DEF AccountInvariant
<1>7. CASE grant > 0
  <2>. DEFINE queue == FirstOf(Pending(rows), 2 * grant)
  <2>1. /\ mixed' = (mixed \/ visit.open \/ dm > 0) /\ note' = note
        /\ reply' = [Idling(rows) EXCEPT !.open = TRUE, !.left = grant, !.queue = queue]
    BY <1>2, <1>5, <1>7
  <2>2. queue \subseteq Pending(rows) /\ queue \subseteq Comments
    BY DEF FirstOf, Pending
  <2>. HIDE DEF rows, grant, queue
  <2>3. /\ reply'.open /\ reply'.rows = rows /\ reply'.left = grant
        /\ reply'.queue = queue /\ reply'.done = 0
        /\ reply' \in PassOver([Comments -> NoteStatus])
    <3>1. /\ Idling(rows) \in [open : BOOLEAN, left : Nat, queue : SUBSET Comments,
                               done : Nat, rows : [Comments -> NoteStatus]]
          /\ Idling(rows).rows = rows /\ Idling(rows).done = 0
      BY <1>3 DEF Idling
    <3>2. /\ reply'.open /\ reply'.rows = rows /\ reply'.left = grant
          /\ reply'.queue = queue /\ reply'.done = 0
      BY <2>1, <3>1
    <3>3. reply' \in PassOver([Comments -> NoteStatus])
      BY <1>5, <2>1, <2>2, <3>1 DEF PassOver
    <3>. QED
      BY <3>2, <3>3
  <2>4. mixed' \in BOOLEAN /\ (~mixed' => ~mixed /\ ~visit.open /\ ~(dm > 0))
    BY <1>t, <2>1, Zenon DEF AccountTypeOK
  <2>5. AccountTypeOK'
    <3>1. hour.reply + reply'.done <= CommentCap /\ reply'.done <= reply'.left
      BY <1>4, <1>5, <2>3
    <3>. QED
      BY <1>t, <1>1, <2>1, <2>3, <2>4, <3>1 DEF AccountTypeOK
  <2>6. AnsweredOnce'
    BY <1>t, <1>1, <1>3, <2>3 DEF AnsweredOnce, Standing
  <2>7. WrittenToOnce'
    BY <1>t, <1>1 DEF WrittenToOnce, Feed
  <2>8. QueuePending'
    BY <2>2, <2>3 DEF QueuePending, Pending
  <2>9. GrantsFit'
    <3>1. hour'.reply + reply'.left <= CommentCap
      BY <1>1, <1>5, <2>3
    <3>2. Reserved' = AccountSpend(hour) + dm + grant + visit.left
      BY <1>1, <2>3 DEF Reserved
    <3>3. visit.left <= Entitled(AccountCap)
      BY <1>t DEF GrantsFit
    <3>4. ~mixed' => Reserved' <= AccountCap + byHand
      BY <1>t, <1>5, <1>7, <2>4, <3>2, Passes
    <3>5. Reserved' <= AccountCap + Overshoot + byHand
      BY <1>t, <1>5, <1>7, <3>2, <3>3, Passes, Bounds
    <3>. QED
      BY <1>1, <3>1, <3>3, <3>4, <3>5 DEF GrantsFit
  <2>. QED
    BY <2>5, <2>6, <2>7, <2>8, <2>9 DEF AccountInvariant
<1>. QED
  BY <1>5, <1>6, <1>7

(* What a pass does with one comment: its row, its queue and its count.    *)
LEMMA MarksKeeps ==
  ASSUME AccountTypeOK, QueuePending, NEW c \in Comments, Turn(c),
         NEW status \in NoteStatus, reply' = Marks(c, status)
  PROVE  /\ reply.open /\ reply'.open /\ reply'.left = reply.left
         /\ reply' \in PassOver([Comments -> NoteStatus])
         /\ reply'.rows = [reply.rows EXCEPT ![c] = status]
         /\ reply'.queue = reply.queue \ {c}
         /\ reply'.done = IF status = "replied" THEN reply.done + 1 ELSE reply.done
         /\ reply'.done <= reply.left /\ reply.done < reply.left
         /\ reply.rows \in [Comments -> NoteStatus] /\ reply.rows[c] = "pending"
         /\ QueuePending'
<1>1. reply.open /\ reply.done < reply.left /\ c \in reply.queue
  BY DEF Turn
<1>2. reply \in PassOver([Comments -> NoteStatus])
  BY <1>1, Passes
<1>3. /\ reply.left \in Nat /\ reply.done \in Nat /\ reply.queue \subseteq Comments
      /\ reply.rows \in [Comments -> NoteStatus]
  BY <1>2 DEF PassOver
<1>4. /\ reply'.open /\ reply'.left = reply.left
      /\ reply'.rows = [reply.rows EXCEPT ![c] = status]
      /\ reply'.queue = reply.queue \ {c}
      /\ reply'.done = IF status = "replied" THEN reply.done + 1 ELSE reply.done
      /\ reply' \in PassOver([Comments -> NoteStatus])
  <2>. DEFINE rows  == [reply.rows EXCEPT ![c] = status]
              done  == IF status = "replied" THEN reply.done + 1 ELSE reply.done
              queue == reply.queue \ {c}
  <2>1. rows \in [Comments -> NoteStatus] /\ done \in Nat /\ queue \subseteq Comments
    BY <1>3
  <2>2. reply' = [reply EXCEPT !.queue = queue, !.rows = rows, !.done = done]
    BY DEF Marks
  <2>. HIDE DEF rows, done, queue
  <2>3. reply' \in PassOver([Comments -> NoteStatus]) /\ reply'.open
          /\ reply'.left = reply.left
    BY <1>1, <1>2, <2>1, <2>2 DEF PassOver
  <2>4. reply'.rows = rows /\ reply'.queue = queue /\ reply'.done = done
    BY <1>2, <2>2 DEF PassOver
  <2>. QED
    BY <2>3, <2>4 DEF rows, queue, done
<1>5. reply'.done <= reply.left
  BY <1>1, <1>3, <1>4
<1>6. reply.rows[c] = "pending" /\ QueuePending'
  BY <1>1, <1>3, <1>4 DEF QueuePending
<1>. QED
  BY <1>1, <1>3, <1>4, <1>5, <1>6

(* A comment that is written under becomes replied in the same step.       *)
LEMMA HandlesKeeps ==
  ASSUME AccountInvariant, NEW c \in Comments, Handles(c)
  PROVE  AccountInvariant'
<1>t. /\ AccountTypeOK /\ AnsweredOnce /\ WrittenToOnce /\ QueuePending
      /\ GrantsFit
  BY DEF AccountInvariant
<1>1. Turn(c) /\ UNCHANGED <<kindOf, written, note, feeds, dm, hour, visit, hidden,
                             byHand, mixed, passDeaths>>
  BY DEF Handles
<1>2. PICK status \in NoteStatus :
        /\ reply' = Marks(c, status) /\ lost' \in {lost, lost + 1}
        /\ said' = said \/ (status \in Final /\ said' = [said EXCEPT ![c] = @ + 1])
  <2>1. CASE Skips(c)
    BY <2>1 DEF Skips, NoteStatus
  <2>2. CASE Hides(c)
    BY <2>2 DEF Hides, NoteStatus
  <2>3. CASE HideFails(c)
    BY <2>3 DEF HideFails, NoteStatus
  <2>4. CASE Replies(c)
    BY <2>4 DEF Replies, NoteStatus, Final
  <2>. QED
    BY <2>1, <2>2, <2>3, <2>4 DEF Handles
<1>3. /\ reply.open /\ reply'.open /\ reply'.left = reply.left
      /\ reply' \in PassOver([Comments -> NoteStatus])
      /\ reply'.rows = [reply.rows EXCEPT ![c] = status]
      /\ reply'.done = IF status = "replied" THEN reply.done + 1 ELSE reply.done
      /\ reply'.done <= reply.left /\ reply.done < reply.left
      /\ reply.rows \in [Comments -> NoteStatus] /\ reply.rows[c] = "pending"
      /\ QueuePending'
  BY <1>t, <1>1, <1>2, MarksKeeps
<1>4. said' \in [Comments \cup Targets -> Nat]
  <2>1. said \in [Comments \cup Targets -> Nat]
    BY <1>t DEF AccountTypeOK
  <2>. QED
    BY <1>2, <2>1
<1>5. AccountTypeOK'
  <2>1. hour.reply + reply'.done <= CommentCap
    BY <1>t, <1>3, Passes DEF GrantsFit, PassOver
  <2>. QED
    BY <1>t, <1>1, <1>2, <1>3, <1>4, <2>1 DEF AccountTypeOK
<1>6. AnsweredOnce'
  <2>1. said \in [Comments \cup Targets -> Nat] /\ passDeaths \in Nat
    BY <1>t, AccountAssumption DEF AccountTypeOK
  <2>2. \A d \in Comments : said[d] <= passDeaths + (IF reply.rows[d] \in Final THEN 1 ELSE 0)
    BY <1>t, <1>3 DEF AnsweredOnce, Standing
  <2>3. ASSUME NEW d \in Comments
        PROVE  said'[d] <= passDeaths + (IF reply'.rows[d] \in Final THEN 1 ELSE 0)
    BY <1>2, <1>3, <2>1, <2>2 DEF Final
  <2>. QED
    BY <1>1, <1>3, <2>3 DEF AnsweredOnce, Standing
<1>7. WrittenToOnce'
  <2>1. said \in [Comments \cup Targets -> Nat]
    BY <1>t DEF AccountTypeOK
  <2>2. \A t \in Targets : said'[t] = said[t]
    BY <1>2, <2>1, AccountAssumption
  <2>. QED
    BY <1>t, <1>1, <2>2 DEF WrittenToOnce, Feed
<1>8. GrantsFit'
  BY <1>t, <1>1, <1>3 DEF GrantsFit, AccountSpend, Reserved
<1>. QED
  BY <1>3, <1>5, <1>6, <1>7, <1>8 DEF AccountInvariant

(* What a pass has done it was granted: the tables take it over.           *)
LEMMA CommitsPassKeeps ==
  ASSUME AccountInvariant, CommitsPass
  PROVE  AccountInvariant'
<1>t. /\ AccountTypeOK /\ AnsweredOnce /\ WrittenToOnce /\ QueuePending
      /\ GrantsFit
  BY DEF AccountInvariant
<1>1. /\ reply.open /\ note' = reply.rows /\ reply' = NoPass
      /\ hour' = [hour EXCEPT !.reply = @ + reply.done]
      /\ UNCHANGED <<kindOf, written, feeds, dm, visit, said, hidden, lost, byHand,
                     mixed, passDeaths>>
  BY DEF CommitsPass
<1>2. reply \in PassOver([Comments -> NoteStatus]) /\ ~reply'.open /\ reply'.left = 0
        /\ reply'.done = 0
  BY <1>t, <1>1, Passes
<1>3. reply.rows \in [Comments -> NoteStatus] /\ reply.done \in Nat /\ reply.left \in Nat
  BY <1>2 DEF PassOver
<1>4. /\ hour' \in [dm : Nat, reply : Nat, visit : Nat]
      /\ hour'.reply = hour.reply + reply.done
      /\ AccountSpend(hour') = AccountSpend(hour) + reply.done
  BY <1>t, <1>1, <1>3, Passes DEF AccountSpend
<1>5. AccountTypeOK'
  <2>1. hour'.reply + reply'.done <= CommentCap
    BY <1>t, <1>2, <1>3, <1>4, Passes
  <2>2. reply'.done <= reply'.left
    BY <1>2
  <2>. QED
    BY <1>t, <1>1, <1>2, <1>3, <1>4, <2>1, <2>2 DEF AccountTypeOK
<1>6. AnsweredOnce' /\ WrittenToOnce' /\ QueuePending'
  BY <1>t, <1>1, <1>2 DEF AnsweredOnce, WrittenToOnce, QueuePending, Standing, Feed
<1>7. GrantsFit'
  <2>1. hour'.reply + reply'.left <= CommentCap
    BY <1>t, <1>2, <1>3, <1>4, Passes
  <2>2. Reserved \in Nat /\ Reserved' \in Nat /\ Reserved' <= Reserved
    BY <1>t, <1>1, <1>2, <1>3, <1>4, Passes DEF Reserved
  <2>. QED
    BY <1>t, <1>1, <2>1, <2>2, Bounds, Passes DEF GrantsFit
<1>. QED
  BY <1>5, <1>6, <1>7 DEF AccountInvariant

(* A person publishes again.                                               *)
LEMMA PublishesKeeps ==
  ASSUME AccountInvariant, NEW t \in Targets, Publishes(t)
  PROVE  AccountInvariant'
<1>t. /\ AccountTypeOK /\ AnsweredOnce /\ WrittenToOnce /\ QueuePending
      /\ GrantsFit
  BY DEF AccountInvariant
<1>1. /\ ~visit.open /\ feeds' = [feeds EXCEPT !.seen = @ \ {t}]
      /\ UNCHANGED <<kindOf, written, note, dm, hour, reply, visit, said, hidden, lost,
                     byHand, mixed, passDeaths>>
  BY DEF Publishes
<1>2. feeds' \in Feeds /\ feeds'.wrote = feeds.wrote
  BY <1>t, <1>1, Passes DEF Feeds
<1>3. AccountTypeOK'
  BY <1>t, <1>1, <1>2 DEF AccountTypeOK
<1>4. AnsweredOnce' /\ WrittenToOnce' /\ QueuePending' /\ GrantsFit'
  BY <1>t, <1>1, <1>2 DEF AnsweredOnce, WrittenToOnce, QueuePending, GrantsFit,
                          Standing, Feed, AccountSpend, Reserved
<1>. QED
  BY <1>3, <1>4 DEF AccountInvariant

(* The visits begin from the posts and people as they are.                 *)
LEMMA OpensVisitsKeeps ==
  ASSUME AccountInvariant, OpensVisits
  PROVE  AccountInvariant'
<1>t. /\ AccountTypeOK /\ AnsweredOnce /\ WrittenToOnce /\ QueuePending
      /\ GrantsFit
  BY DEF AccountInvariant
<1>. DEFINE grant == VisitGrant(hour)
<1>1. /\ ~visit.open /\ grant > 0 /\ mixed' = (mixed \/ reply.open \/ dm > 0)
      /\ visit' = [Idling(feeds) EXCEPT !.open = TRUE, !.left = grant]
      /\ UNCHANGED <<kindOf, written, note, feeds, dm, hour, reply, said, hidden, lost,
                     byHand, passDeaths>>
  BY DEF OpensVisits
<1>2. /\ hour \in [dm : Nat, reply : Nat, visit : Nat] /\ feeds \in Feeds
      /\ hour.reply <= CommentCap
  BY <1>t, Passes DEF GrantsFit
<1>3. /\ grant \in Nat /\ AccountSpend(hour) + grant <= AccountCap
      /\ grant <= Entitled(AccountCap)
  BY <1>1, <1>2, Grants
<1>. HIDE DEF grant
<1>4. /\ Idling(feeds) \in [open : BOOLEAN, left : Nat, queue : SUBSET Comments,
                            done : Nat, rows : Feeds]
      /\ Idling(feeds).rows = feeds /\ Idling(feeds).done = 0
  BY <1>2 DEF Idling
<1>5. /\ visit'.open /\ visit'.left = grant /\ visit'.done = 0
      /\ visit'.rows = feeds
  BY <1>1, <1>4
<1>6. visit' \in PassOver(Feeds)
  BY <1>1, <1>3, <1>4 DEF PassOver
<1>7. mixed' \in BOOLEAN /\ (~mixed' => ~mixed /\ ~reply.open /\ ~(dm > 0))
  BY <1>t, <1>1, Zenon DEF AccountTypeOK
<1>8. AccountTypeOK'
  <2>1. visit'.done <= visit'.left
    BY <1>3, <1>5
  <2>. QED
    BY <1>t, <1>1, <1>5, <1>6, <1>7, <2>1 DEF AccountTypeOK
<1>9. AnsweredOnce' /\ WrittenToOnce' /\ QueuePending'
  BY <1>t, <1>1, <1>5 DEF AnsweredOnce, WrittenToOnce, QueuePending, Standing, Feed
<1>10. GrantsFit'
  <2>1. Reserved' = AccountSpend(hour) + dm + reply.left + grant
    BY <1>1, <1>5 DEF Reserved
  <2>2. reply.left <= CommentCap
    BY <1>t, Passes, Bounds DEF GrantsFit
  <2>3. ~mixed' => Reserved' <= AccountCap + byHand
    BY <1>t, <1>3, <1>7, <2>1, Passes
  <2>4. Reserved' <= AccountCap + Overshoot + byHand
    BY <1>t, <1>1, <1>3, <2>1, <2>2, Passes, Bounds
  <2>. QED
    BY <1>t, <1>1, <1>3, <1>5, <2>3, <2>4 DEF GrantsFit
<1>. QED
  BY <1>8, <1>9, <1>10 DEF AccountInvariant

(* Who is written to had not been.                                         *)
LEMMA VisitsKeeps ==
  ASSUME AccountInvariant, NEW t \in Targets, Visits(t)
  PROVE  AccountInvariant'
<1>t. /\ AccountTypeOK /\ AnsweredOnce /\ WrittenToOnce /\ QueuePending
      /\ GrantsFit
  BY DEF AccountInvariant
<1>1. /\ visit.open /\ visit.done < visit.left /\ Welcome(t)
      /\ UNCHANGED <<kindOf, written, note, feeds, dm, hour, reply, byHand, mixed,
                     passDeaths>>
  BY DEF Visits
<1>2. PICK wrote \in {{}, {t}} :
        /\ visit' = Calls(t, wrote) /\ lost' \in {lost, lost + 1}
        /\ \/ said' = said /\ hidden' = hidden
           \/ wrote = {t} /\ said' = [said EXCEPT ![t] = @ + 1] /\ hidden' = hidden
           \/ /\ said' = [said EXCEPT ![t] = @ + 1]
              /\ hidden' = [hidden EXCEPT ![t] = @ + 1]
  BY Zenon DEF Visits
<1>3. Cardinality(wrote) = IF wrote = {} THEN 0 ELSE 1
  BY <1>2, FS_EmptySet, FS_Singleton
<1>4. /\ visit \in PassOver(Feeds) /\ visit.rows \in Feeds
      /\ visit.left \in Nat /\ visit.done \in Nat
  BY <1>t, <1>1, Passes DEF PassOver
<1>5. /\ visit' \in PassOver(Feeds) /\ visit'.open /\ visit'.left = visit.left
      /\ visit'.rows.wrote = visit.rows.wrote \cup wrote
      /\ visit'.done = visit.done + Cardinality(wrote)
  <2>. DEFINE rows == [visit.rows EXCEPT !.seen = @ \cup {t}, !.wrote = @ \cup wrote]
              done == visit.done + Cardinality(wrote)
  <2>1. rows \in Feeds /\ rows.wrote = visit.rows.wrote \cup wrote /\ done \in Nat
    <3>1. visit.rows.seen \cup {t} \subseteq Targets
      BY <1>4 DEF Feeds
    <3>2. visit.rows.wrote \cup wrote \subseteq Targets
      BY <1>2, <1>4 DEF Feeds
    <3>3. rows \in Feeds /\ rows.wrote = visit.rows.wrote \cup wrote
      BY <1>4, <3>1, <3>2 DEF Feeds
    <3>4. done \in Nat
      BY <1>3, <1>4
    <3>. QED
      BY <3>3, <3>4
  <2>2. visit' = [visit EXCEPT !.rows = rows, !.done = done]
    BY <1>2, <1>4 DEF Calls, PassOver, Feeds
  <2>. HIDE DEF rows, done
  <2>3. visit' \in PassOver(Feeds) /\ visit'.open /\ visit'.left = visit.left
    BY <1>1, <1>4, <2>1, <2>2 DEF PassOver
  <2>4. visit'.rows = rows /\ visit'.done = done
    BY <1>4, <2>2 DEF PassOver
  <2>. QED
    BY <2>1, <2>3, <2>4 DEF done
<1>6. said' \in [Comments \cup Targets -> Nat] /\ hidden' \in [Targets -> Nat]
  <2>1. said \in [Comments \cup Targets -> Nat] /\ hidden \in [Targets -> Nat]
    BY <1>t DEF AccountTypeOK
  <2>. QED
    BY <1>2, <2>1
<1>7. AccountTypeOK'
  <2>1. visit'.done <= visit'.left
    BY <1>1, <1>3, <1>4, <1>5
  <2>. QED
    BY <1>t, <1>1, <1>2, <1>5, <1>6, <2>1 DEF AccountTypeOK
<1>8. AnsweredOnce'
  <2>1. said \in [Comments \cup Targets -> Nat]
    BY <1>t DEF AccountTypeOK
  <2>2. \A c \in Comments : said'[c] = said[c]
    BY <1>2, <2>1, AccountAssumption
  <2>. QED
    BY <1>t, <1>1, <2>2 DEF AnsweredOnce, Standing
<1>9. WrittenToOnce'
  <2>1. /\ said \in [Comments \cup Targets -> Nat] /\ passDeaths \in Nat
        /\ hidden \in [Targets -> Nat]
    BY <1>t, AccountAssumption DEF AccountTypeOK
  <2>2. \A u \in Targets :
          said[u] <= passDeaths + hidden[u] + (IF u \in visit.rows.wrote THEN 1 ELSE 0)
    BY <1>t, <1>1 DEF WrittenToOnce, Feed
  <2>3. t \notin visit.rows.wrote
    BY <1>1 DEF Welcome
  <2>4. ASSUME NEW u \in Targets
        PROVE  said'[u] <= passDeaths + hidden'[u]
                             + (IF u \in visit'.rows.wrote THEN 1 ELSE 0)
    BY <1>2, <1>5, <2>1, <2>2, <2>3
  <2>. QED
    BY <1>1, <1>5, <2>4 DEF WrittenToOnce, Feed
<1>10. QueuePending' /\ GrantsFit'
  BY <1>t, <1>1, <1>5 DEF QueuePending, GrantsFit, AccountSpend, Reserved
<1>. QED
  BY <1>7, <1>8, <1>9, <1>10 DEF AccountInvariant

(* The tables take the visits over.                                        *)
LEMMA CommitsVisitsKeeps ==
  ASSUME AccountInvariant, CommitsVisits
  PROVE  AccountInvariant'
<1>t. /\ AccountTypeOK /\ AnsweredOnce /\ WrittenToOnce /\ QueuePending
      /\ GrantsFit
  BY DEF AccountInvariant
<1>1. /\ visit.open /\ feeds' = visit.rows /\ visit' = NoPass
      /\ hour' = [hour EXCEPT !.visit = @ + visit.done]
      /\ UNCHANGED <<kindOf, written, note, dm, reply, said, hidden, lost, byHand,
                     mixed, passDeaths>>
  BY DEF CommitsVisits
<1>2. /\ visit \in PassOver(Feeds) /\ ~visit'.open /\ visit'.left = 0
      /\ visit'.done = 0
  BY <1>t, <1>1, Passes
<1>3. visit.rows \in Feeds /\ visit.done \in Nat /\ visit.left \in Nat
  BY <1>2 DEF PassOver
<1>4. /\ hour' \in [dm : Nat, reply : Nat, visit : Nat] /\ hour'.reply = hour.reply
      /\ AccountSpend(hour') = AccountSpend(hour) + visit.done
  BY <1>t, <1>1, <1>3, Passes DEF AccountSpend
<1>5. AccountTypeOK'
  <2>1. visit'.done <= visit'.left
    BY <1>2
  <2>. QED
    BY <1>t, <1>1, <1>2, <1>3, <1>4, <2>1 DEF AccountTypeOK
<1>6. AnsweredOnce' /\ WrittenToOnce' /\ QueuePending'
  BY <1>t, <1>1, <1>2 DEF AnsweredOnce, WrittenToOnce, QueuePending, Standing, Feed
<1>7. GrantsFit'
  <2>1. Reserved \in Nat /\ Reserved' \in Nat /\ Reserved' <= Reserved
    BY <1>t, <1>1, <1>2, <1>3, <1>4, Passes DEF Reserved
  <2>. QED
    BY <1>t, <1>1, <1>2, <1>4, <2>1, Bounds, Passes DEF GrantsFit
<1>. QED
  BY <1>5, <1>6, <1>7 DEF AccountInvariant

(* A pass that dies leaves a public line without a row, once for each.     *)
LEMMA PassDiesKeeps ==
  ASSUME AccountInvariant, PassDies
  PROVE  AccountInvariant'
<1>t. /\ AccountTypeOK /\ AnsweredOnce /\ WrittenToOnce /\ QueuePending
      /\ GrantsFit
  BY DEF AccountInvariant
<1>1. /\ passDeaths' = passDeaths + 1
      /\ UNCHANGED <<kindOf, written, note, feeds, dm, hour, said, hidden, byHand, mixed>>
  BY DEF PassDies
<1>2. \/ reply.open /\ lost' = lost + reply.done /\ reply' = NoPass /\ visit' = visit
      \/ visit.open /\ lost' = lost + visit.done /\ visit' = NoPass /\ reply' = reply
  BY DEF PassDies
<1>3. /\ said \in [Comments \cup Targets -> Nat] /\ passDeaths \in Nat
      /\ hidden \in [Targets -> Nat] /\ lost \in Nat
  BY <1>t, AccountAssumption DEF AccountTypeOK
<1>4. lost' \in Nat /\ passDeaths' \in Nat
  BY <1>t, <1>1, <1>2, <1>3, Passes
<1>5. /\ reply'.left <= reply.left /\ reply'.left \in Nat /\ reply'.done \in Nat
      /\ visit'.left <= visit.left /\ visit'.left \in Nat
      /\ reply'.done <= reply.done /\ reply'.done <= reply'.left
      /\ visit'.done <= visit'.left
      /\ reply' = reply \/ (reply' = NoPass /\ ~reply'.open)
      /\ visit' = visit \/ (visit' = NoPass /\ ~visit'.open)
  <2>1. /\ ~NoPass.open /\ NoPass.left = 0 /\ NoPass.done = 0
        /\ reply.left \in Nat /\ reply.done \in Nat
        /\ visit.left \in Nat /\ visit.done \in Nat
        /\ reply.done <= reply.left /\ visit.done <= visit.left
    BY <1>t, Passes
  <2>2. (reply' = reply \/ reply' = NoPass) /\ (visit' = visit \/ visit' = NoPass)
    BY <1>2
  <2>. QED
    BY <2>1, <2>2
<1>6. AccountTypeOK'
  <2>1. hour'.reply + reply'.done <= CommentCap
    BY <1>t, <1>1, <1>5, Passes
  <2>. QED
    BY <1>t, <1>1, <1>4, <1>5, <2>1 DEF AccountTypeOK
<1>7. AnsweredOnce'
  <2>1. ASSUME NEW c \in Comments PROVE said[c] <= passDeaths + 1
    BY <1>t, <1>3 DEF AnsweredOnce
  <2>2. ASSUME NEW c \in Comments PROVE said'[c] <= passDeaths' /\ said'[c] \in Nat
    BY <1>1, <1>3, <2>1
  <2>. QED
    BY <1>4, <2>2 DEF AnsweredOnce
<1>8. WrittenToOnce'
  <2>1. ASSUME NEW u \in Targets PROVE said[u] <= passDeaths + hidden[u] + 1
    BY <1>t, <1>3 DEF WrittenToOnce
  <2>2. ASSUME NEW u \in Targets
        PROVE  /\ said'[u] <= passDeaths' + hidden'[u]
               /\ said'[u] \in Nat /\ hidden'[u] \in Nat
    BY <1>1, <1>3, <2>1
  <2>. QED
    BY <1>4, <2>2 DEF WrittenToOnce
<1>9. QueuePending'
  BY <1>t, <1>5 DEF QueuePending
<1>10. GrantsFit'
  <2>1. hour.reply + reply'.left <= CommentCap
    BY <1>t, <1>5, Passes DEF GrantsFit
  <2>2. Reserved \in Nat /\ Reserved' \in Nat /\ Reserved' <= Reserved
    BY <1>t, <1>1, <1>5, Passes DEF Reserved
  <2>3. visit'.left <= Entitled(AccountCap)
    BY <1>t, <1>5, Passes, Bounds DEF GrantsFit
  <2>. QED
    BY <1>t, <1>1, <2>1, <2>2, <2>3, Bounds, Passes DEF GrantsFit
<1>. QED
  BY <1>6, <1>7, <1>8, <1>9, <1>10 DEF AccountInvariant

(* The invariant holds in every state of the account.                      *)
LEMMA AccountInduction == AccountRuns => []AccountInvariant
<1>1. ASSUME AccountInvariant, [AccountNext]_accountVars PROVE AccountInvariant'
  <2>1. CASE UNCHANGED accountVars
    BY <1>1, <2>1 DEF accountVars, AccountInvariant, AccountTypeOK, AnsweredOnce,
       WrittenToOnce, QueuePending, GrantsFit, Standing, Feed, AccountSpend,
       Reserved
  <2>2. CASE AccountNext
    BY <1>1, <2>2, HourKeeps, OpensPassKeeps, HandlesKeeps, CommitsPassKeeps,
       PublishesKeeps, VisitsKeeps, OpensVisitsKeeps, CommitsVisitsKeeps,
       PassDiesKeeps, Zenon DEF AccountNext
  <2>. QED
    BY <1>1, <2>1, <2>2
<1>. QED
  BY <1>1, AccountBegins, PTL DEF AccountRuns

(* What it says of the lines and of the hour.                              *)
LEMMA AccountShows ==
  AccountInvariant => AccountTypeOK /\ NeverTwice /\ CeilingHolds
<1>. SUFFICES ASSUME AccountInvariant PROVE AccountTypeOK /\ NeverTwice /\ CeilingHolds
  OBVIOUS
<1>t. AccountTypeOK /\ AnsweredOnce /\ WrittenToOnce /\ GrantsFit
  BY DEF AccountInvariant
<1>1. /\ said \in [Comments \cup Targets -> Nat] /\ hidden \in [Targets -> Nat]
      /\ passDeaths \in Nat /\ lost \in Nat
  BY <1>t, AccountAssumption DEF AccountTypeOK
<1>2. NeverTwice
  <2>1. ASSUME NEW c \in Comments PROVE said[c] <= 1 + passDeaths
    BY <1>t, <1>1 DEF AnsweredOnce
  <2>2. ASSUME NEW u \in Targets PROVE said[u] <= 1 + passDeaths + hidden[u]
    BY <1>t, <1>1 DEF WrittenToOnce
  <2>. QED
    BY <2>1, <2>2 DEF NeverTwice
<1>3. CeilingHolds
  <2>1. Acts = AccountSpend(hour) + dm + reply.done + visit.done + lost
    BY <1>t, <1>1, Passes DEF Acts, AccountSpend, AccountTypeOK
  <2>2. Acts <= Reserved + lost /\ Acts \in Nat /\ Reserved \in Nat
    BY <1>t, <1>1, <2>1, Passes DEF Reserved
  <2>. QED
    BY <1>t, <1>1, <2>2, Passes, Bounds DEF CeilingHolds, GrantsFit
<1>. QED
  BY <1>t, <1>2, <1>3
------------------------------------------------------------------------------
(* A session writes the fields it has changed and no others.               *)
LEMMA WrittenIs ==
  ASSUME NEW now \in Line, NEW seen \in Line, NEW mine \in Line
  PROVE  LET w == Written(now, seen, mine)
         IN  /\ w \in Line
             /\ w.pending = IF mine.pending = seen.pending THEN now.pending ELSE mine.pending
             /\ w.job = IF mine.job = seen.job THEN now.job ELSE mine.job
<1>. DEFINE w == Written(now, seen, mine)
            New(f) == IF mine[f] = seen[f] THEN now[f] ELSE mine[f]
<1>1. DOMAIN now = {"text", "pending", "job", "bytes"}
  BY DEF Line
<1>2. w = [f \in {"text", "pending", "job", "bytes"} |-> New(f)]
  BY <1>1 DEF Written
<1>3. /\ w.text = New("text") /\ w.pending = New("pending")
      /\ w.job = New("job") /\ w.bytes = New("bytes")
  BY <1>2
<1>4. /\ New("text") \in Text /\ New("pending") \in BOOLEAN
      /\ New("job") \in BOOLEAN /\ New("bytes") \in BOOLEAN
  BY DEF Line
<1>5. w = [text |-> w.text, pending |-> w.pending, job |-> w.job, bytes |-> w.bytes]
  BY <1>2
<1>6. w \in Line
  BY <1>3, <1>4, <1>5 DEF Line
<1>. QED
  BY <1>3, <1>6

(* What may come of one attachment at the broker: an id is kept or gained  *)
(* while the row waits, and one that is lost belonged to a job that ended  *)
(* or was dropped for a request that went astray.                          *)
LEMMA RecognisedIs ==
  ASSUME NEW m \in Media, NEW r \in Line, NEW s \in Recognised(m, r)
  PROVE  /\ s.row \in Line /\ s.begun \in {0, 1} /\ s.over \in {0, 1}
         /\ s.astray \in {0, 1}
         /\ s.begun = 1 => ~r.job /\ (s.row.job \/ s.astray = 1)
         /\ r.job /\ ~s.row.job /\ s.row.pending => s.over = 1 \/ s.astray = 1
<1>1. ASSUME NEW what \in {Words, Again, Never}
      PROVE  /\ Heard(r) \in Line /\ ~Heard(r).pending /\ ~Heard(r).job
             /\ Released(r) \in Line /\ ~Released(r).pending /\ ~Released(r).job
  BY DEF Heard, Released, Line, Text
<1>2. Words # Again /\ Words # Never /\ Never # Again
  BY DEF Words, Again, Never
<1>3. ASSUME NEW q, NEW b, NEW o
      PROVE  /\ Said(q, Words, b, o).row = Heard(q) /\ Said(q, Never, b, o).row = Released(q)
             /\ Said(q, Again, b, o).row = q
             /\ \A what \in {Words, Again, Never} :
                  /\ Said(q, what, b, o).what = what
                  /\ Said(q, what, b, o).begun = b /\ Said(q, what, b, o).over = o
                  /\ Said(q, what, b, o).astray = 0
             /\ LET g == GoneAstray(q, b)
                IN  g.row = q /\ g.begun = b /\ g.over = 0 /\ g.astray = 1
  BY <1>2 DEF Said, GoneAstray
<1>. DEFINE off == [r EXCEPT !.job = FALSE]
            on  == [r EXCEPT !.job = TRUE]
<1>4. /\ off \in Line /\ ~off.job /\ off.pending = r.pending
      /\ on \in Line /\ on.job /\ on.pending = r.pending
  BY DEF Line
<1>8. /\ Polls(r) = {Said(r, Again, 0, 0), Said(off, Again, 0, 1), Said(r, Words, 0, 1),
                     GoneAstray(off, 0)}
      /\ Submits(r) = {Said(on, Again, 1, 0), Said(r, Again, 0, 0), Said(r, Words, 0, 0),
                       Said(r, Never, 0, 0), GoneAstray(r, 1)}
  BY DEF Polls, Submits
<1>. HIDE DEF off, on
<1>9. /\ m \in Voices /\ r.job => Recognised(m, r) = Polls(r)
      /\ m \in Voices /\ ~r.job => Recognised(m, r) = Submits(r)
  <2>1. m \in Voices => m \notin Pictures
    BY MediaAssumption
  <2>. QED
    BY <2>1 DEF Recognised
<1>5. CASE m \in Voices /\ r.job
  <2>1. s \in Polls(r)
    BY <1>5, <1>9
  <2>2. CASE s = Said(r, Again, 0, 0)
    BY <1>2, <1>3, <1>5, <2>2
  <2>3. CASE s = Said(off, Again, 0, 1)
    BY <1>2, <1>3, <1>4, <1>5, <2>3
  <2>4. CASE s = Said(r, Words, 0, 1)
    BY <1>1, <1>2, <1>3, <1>5, <2>4
  <2>5. CASE s = GoneAstray(off, 0)
    BY <1>3, <1>4, <1>5, <2>5
  <2>. QED
    BY <1>8, <2>1, <2>2, <2>3, <2>4, <2>5
<1>6. CASE m \in Voices /\ ~r.job
  <2>1. s \in Submits(r)
    BY <1>6, <1>9
  <2>2. CASE s = Said(on, Again, 1, 0)
    BY <1>2, <1>3, <1>4, <1>6, <2>2
  <2>3. CASE s = Said(r, Again, 0, 0)
    BY <1>2, <1>3, <1>6, <2>3
  <2>4. CASE s = Said(r, Words, 0, 0) \/ s = Said(r, Never, 0, 0)
    BY <1>1, <1>2, <1>3, <1>6, <2>4
  <2>5. CASE s = GoneAstray(r, 1)
    BY <1>3, <1>6, <2>5
  <2>. QED
    BY <1>8, <2>1, <2>2, <2>3, <2>4, <2>5
<1>7. CASE m \in Pictures
  <2>1. s \in {Said(r, Words, 0, 0), Said(r, Again, 0, 0)}
    BY <1>7, MediaAssumption DEF Recognised
  <2>2. CASE s = Said(r, Words, 0, 0)
    BY <1>1, <1>2, <1>3, <2>2
  <2>3. CASE s = Said(r, Again, 0, 0)
    BY <1>2, <1>3, <2>3
  <2>. QED
    BY <2>1, <2>2, <2>3
<1>. QED
  BY <1>5, <1>6, <1>7 DEF Media
Pass == [open : {TRUE}, queue : SUBSET Media, seen : [Media -> Line],
         rows : [Media -> Line], listed : SUBSET Media, later : SUBSET Media,
         ended : SUBSET Media]

\* The rows of a pass that it has not come to, or not listed, are as it read
\* them.
PassRows ==
  pass.open =>
    /\ pass.queue \subseteq pass.listed
    /\ \A m \in Media :
         /\ m \in pass.listed => pass.seen[m].pending
         /\ ~Locked(m) => pass.rows[m] = pass.seen[m]

MediaTyped ==
  /\ MediaTypeOK
  /\ pass \in Pass \/ pass = NoBackfill
  /\ press.of = {} \/ (presses > 0 /\ \E m \in Media : press.of = {m})
  /\ press.seen \in Line
  /\ presses \in Nat /\ crashes \in Nat

\* What was wasted on m so far: its presses that are over, the dead passes and
\* the requests gone astray.
Spent(m) == crashes + presses + astray[m] - (IF press.of = {m} THEN 1 ELSE 0)

\* The table knows no order of m, and no pass has one it will still write, or
\* has given m up.
NoOrder(m) ==
  /\ line[m].pending /\ ~line[m].job
  /\ ~(Locked(m) /\ (~pass.rows[m].pending \/ (pass.rows[m].job /\ ~pass.seen[m].job)))

\* A row that a pass leaves waiting has lost its id if the job has ended, or for
\* a request that went astray.
JobsKnown ==
  \A m \in Media :
    /\ jobs[m] <= 1 + Spent(m)
    /\ NoOrder(m) => jobs[m] <= Spent(m)
    /\ pass.open /\ m \in pass.queue /\ ~pass.seen[m].job => jobs[m] <= Spent(m)
    /\ pass.open /\ pass.seen[m].job /\ ~pass.rows[m].job /\ pass.rows[m].pending
         => m \in pass.ended \/ jobs[m] <= Spent(m)

MediaInvariant == MediaTyped /\ PassRows /\ JobsKnown

(* Nothing is ordered, and nobody presses.                                 *)
LEMMA MediaBegins == MediaInit => MediaInvariant
<1>. SUFFICES ASSUME MediaInit PROVE MediaInvariant
  OBVIOUS
<1>1. NoLine \in Line /\ Flagged \in Line
  BY DEF NoLine, Flagged, Line, Text
<1>2. ~pass.open /\ pass.listed = {} /\ pass.queue = {} /\ press.of = {} /\ press.seen = NoLine
  BY DEF MediaInit, NoBackfill, NoPress
<1>3. MediaTyped
  <2>1. line \in [Media -> Line] /\ fresh \subseteq Media /\ due \subseteq Media
          /\ jobs \in [Media -> Nat] /\ astray \in [Media -> Nat]
    BY <1>1 DEF MediaInit
  <2>. QED
    BY <1>1, <1>2, <2>1 DEF MediaTyped, MediaTypeOK, MediaInit
<1>4. JobsKnown
  BY <1>2 DEF JobsKnown, MediaInit, Spent
<1>. QED
  BY <1>2, <1>3, <1>4 DEF MediaInvariant, PassRows

(* One attachment of the pass: its row, and perhaps an order at the broker *)
(* of one that was not known to be ordered.                                *)
LEMMA HandledKeeps ==
  ASSUME MediaInvariant, NEW m \in Media, ItsTurn(m),
         NEW r \in Line, NEW deferred \in BOOLEAN, NEW begun \in {0, 1},
         NEW over \in {0, 1}, NEW gone \in {0, 1}, Done(m, r, deferred, over),
         jobs' = [jobs EXCEPT ![m] = @ + begun],
         astray' = [astray EXCEPT ![m] = @ + gone],
         UNCHANGED <<line, fresh, due, press, presses, crashes>>,
         pass.rows[m].job /\ ~r.job /\ r.pending => over = 1 \/ gone = 1,
         begun = 1 => ~pass.rows[m].job /\ ((r.pending => r.job) \/ gone = 1)
  PROVE  MediaInvariant'
<1>t. MediaTyped /\ PassRows /\ JobsKnown
  BY DEF MediaInvariant
<1>1. pass.open /\ m \in pass.queue
  BY DEF ItsTurn
<1>2. pass \in Pass
  BY <1>t, <1>1 DEF MediaTyped, NoBackfill
<1>. DEFINE rows  == [pass.rows EXCEPT ![m] = r]
            queue == pass.queue \ {m}
            later == IF deferred THEN pass.later \cup {m} ELSE pass.later
            ended == IF over = 1 THEN pass.ended \cup {m} ELSE pass.ended
<1>3. pass' = [pass EXCEPT !.queue = queue, !.rows = rows, !.later = later,
                           !.ended = ended]
  BY DEF Done
<1>4. /\ rows \in [Media -> Line] /\ queue \subseteq Media /\ later \subseteq Media
      /\ ended \subseteq Media
  BY <1>2 DEF Pass
<1>. HIDE DEF rows, queue, later, ended
<1>5. pass' \in Pass /\ pass'.open
  BY <1>2, <1>3, <1>4 DEF Pass
<1>6. /\ pass'.queue = queue /\ pass'.rows = rows /\ pass'.ended = ended
      /\ pass'.seen = pass.seen /\ pass'.listed = pass.listed
  BY <1>2, <1>3 DEF Pass
<1>7. /\ pass.rows \in [Media -> Line] /\ pass.seen \in [Media -> Line]
      /\ jobs \in [Media -> Nat] /\ crashes \in Nat /\ presses \in Nat
      /\ astray \in [Media -> Nat]
  BY <1>t, <1>2 DEF Pass, MediaTyped, MediaTypeOK
<1>8. /\ m \in pass.listed /\ ~Locked(m) /\ pass.rows[m] = pass.seen[m]
      /\ pass.queue \subseteq pass.listed
  BY <1>t, <1>1 DEF PassRows, Locked
<1>9. \A k \in Media : Locked(k)' <=> (Locked(k) \/ k = m)
  BY <1>6, <1>8 DEF Locked, queue
<1>10. rows[m] = r /\ \A k \in Media : k # m => rows[k] = pass.rows[k]
  BY <1>7 DEF rows
<1>11. MediaTyped'
  BY <1>t, <1>5, <1>6, <1>4, <1>7 DEF MediaTyped, MediaTypeOK
<1>12. PassRows'
  <2>1. ASSUME NEW k \in Media
        PROVE  /\ k \in pass.listed => pass.seen[k].pending
               /\ ~Locked(k)' => rows[k] = pass.seen[k]
    BY <1>t, <1>1, <1>8, <1>9, <1>10 DEF PassRows
  <2>2. queue \subseteq pass.listed
    BY <1>8 DEF queue
  <2>. QED
    BY <1>6, <2>1, <2>2 DEF PassRows
<1>13. JobsKnown'
  <2>1. ASSUME NEW k \in Media
        PROVE  /\ Spent(k)' = (IF k = m THEN Spent(k) + gone ELSE Spent(k))
               /\ Spent(k) \in Int /\ jobs[k] \in Nat
               /\ jobs'[k] = IF k = m THEN jobs[k] + begun ELSE jobs[k]
    BY <1>7 DEF Spent
  <2>2. ASSUME NEW k \in Media, k # m
        PROVE  /\ jobs'[k] <= 1 + Spent(k)'
               /\ NoOrder(k)' => jobs'[k] <= Spent(k)'
               /\ pass'.open /\ k \in pass'.queue /\ ~pass'.seen[k].job
                    => jobs'[k] <= Spent(k)'
               /\ pass'.seen[k].job /\ ~pass'.rows[k].job /\ pass'.rows[k].pending
                    => k \in pass'.ended \/ jobs'[k] <= Spent(k)'
    <3>1. NoOrder(k)' <=> NoOrder(k)
      BY <1>6, <1>9, <1>10, <2>2 DEF NoOrder
    <3>2. (k \in pass'.queue => k \in pass.queue) /\ (k \in pass.ended => k \in pass'.ended)
      BY <1>6 DEF queue, ended
    <3>3. pass'.rows[k] = pass.rows[k]
      BY <1>6, <1>10, <2>2
    <3>. QED
      BY <1>t, <1>1, <1>6, <2>1, <2>2, <3>1, <3>2, <3>3 DEF JobsKnown
  <2>3. jobs'[m] <= 1 + Spent(m)' /\ (gone = 1 => jobs'[m] <= Spent(m)')
    <3>1. jobs[m] <= 1 + Spent(m)
      BY <1>t DEF JobsKnown
    <3>2. begun = 1 => jobs[m] <= Spent(m)
      BY <1>t, <1>1, <1>8 DEF JobsKnown
    <3>. QED
      BY <2>1, <3>1, <3>2
  <2>4. ASSUME NoOrder(m)' PROVE jobs'[m] <= Spent(m)'
    <3>1. line[m].pending /\ ~line[m].job /\ r.pending /\ ~(r.job /\ ~pass.seen[m].job)
      BY <1>6, <1>9, <1>10, <2>4 DEF NoOrder
    <3>2. CASE gone = 1
      BY <2>3, <3>2
    <3>3. CASE gone = 0
      <4>1. begun = 0
        BY <1>8, <3>1, <3>3
      <4>2. NoOrder(m)
        BY <1>8, <3>1 DEF NoOrder
      <4>. QED
        BY <1>t, <2>1, <3>3, <4>1, <4>2 DEF JobsKnown
    <3>. QED
      BY <3>2, <3>3
  <2>5. m \notin pass'.queue
    BY <1>6 DEF queue
  <2>6. pass'.seen[m].job /\ ~pass'.rows[m].job /\ pass'.rows[m].pending
          => m \in pass'.ended \/ jobs'[m] <= Spent(m)'
    <3>1. over = 1 => m \in pass'.ended
      BY <1>6 DEF ended
    <3>. QED
      BY <1>6, <1>8, <1>10, <2>3, <3>1
  <2>. QED
    BY <2>2, <2>3, <2>4, <2>5, <2>6 DEF JobsKnown
<1>. QED
  BY <1>11, <1>12, <1>13 DEF MediaInvariant

(* The three ways in which a pass handles an attachment.                   *)
LEMMA PassKeeps ==
  ASSUME MediaInvariant, NEW m \in Media,
         TooBig(m) \/ DownloadFails(m) \/ Recognises(m)
  PROVE  MediaInvariant'
<1>1. ItsTurn(m)
  BY DEF TooBig, DownloadFails, Recognises
<1>2. /\ pass.rows \in [Media -> Line] /\ pass.rows[m] \in Line
      /\ jobs \in [Media -> Nat] /\ astray \in [Media -> Nat]
  BY <1>1 DEF MediaInvariant, MediaTyped, MediaTypeOK, ItsTurn
<1>. DEFINE row == pass.rows[m]
            had == [row EXCEPT !.bytes = TRUE]
<1>3. ASSUME NEW q \in Line
      PROVE  Released(q) \in Line /\ ~Released(q).pending /\ ~Released(q).job
  BY DEF Released, Line, Text
<1>4. had \in Line /\ had.job = row.job /\ had.pending = row.pending
  BY <1>2 DEF Line
<1>5. jobs = [jobs EXCEPT ![m] = @ + 0] /\ astray = [astray EXCEPT ![m] = @ + 0]
  BY <1>2
<1>6. CASE TooBig(m) \/ DownloadFails(m)
  <2>1. PICK r \in {row, Released(row)}, deferred \in BOOLEAN :
          /\ Done(m, r, deferred, 0)
          /\ UNCHANGED <<line, fresh, due, press, jobs, astray, presses, crashes>>
          /\ r = row \/ r = Released(row)
    BY <1>6 DEF TooBig, DownloadFails
  <2>2. r \in Line /\ (r.pending => r = row)
    BY <1>2, <1>3, <2>1
  <2>3. /\ jobs' = [jobs EXCEPT ![m] = @ + 0] /\ astray' = [astray EXCEPT ![m] = @ + 0]
        /\ UNCHANGED <<line, fresh, due, press, presses, crashes>>
        /\ pass.rows[m].job /\ ~r.job /\ r.pending => FALSE
    BY <1>5, <2>1, <2>2
  <2>. HIDE DEF row
  <2>4. 0 \in {0, 1} /\ (0 = 1 => FALSE)
    OBVIOUS
  <2>. QED
    BY <1>1, <2>1, <2>2, <2>3, <2>4, HandledKeeps
<1>7. CASE Recognises(m)
  <2>. HIDE DEF row, had
  <2>1. PICK s \in Outcomes(m, had) :
          /\ IF s.what = Again /\ m \in fresh THEN Done(m, s.row, TRUE, s.over)
             ELSE IF s.what = Again THEN Done(m, Released(s.row), FALSE, s.over)
             ELSE Done(m, s.row, FALSE, s.over)
          /\ jobs' = [jobs EXCEPT ![m] = @ + s.begun]
          /\ astray' = [astray EXCEPT ![m] = @ + s.astray]
    BY <1>7 DEF Recognises, row, had
  <2>2. /\ s.row \in Line /\ s.begun \in {0, 1} /\ s.over \in {0, 1} /\ s.astray \in {0, 1}
        /\ s.begun = 1 => ~had.job /\ (s.row.job \/ s.astray = 1)
        /\ had.job /\ ~s.row.job /\ s.row.pending => s.over = 1 \/ s.astray = 1
    BY <1>4, <2>1, RecognisedIs DEF Outcomes
  <2>3. PICK r \in {s.row, Released(s.row)}, deferred \in BOOLEAN :
          /\ Done(m, r, deferred, s.over)
          /\ r = s.row \/ r = Released(s.row)
    BY <2>1
  <2>4. r \in Line /\ (r.pending => r = s.row)
    BY <1>3, <2>2, <2>3
  <2>5. /\ pass.rows[m].job /\ ~r.job /\ r.pending => s.over = 1 \/ s.astray = 1
        /\ s.begun = 1 => ~pass.rows[m].job /\ ((r.pending => r.job) \/ s.astray = 1)
    BY <1>4, <2>2, <2>4 DEF row
  <2>6. UNCHANGED <<line, fresh, due, press, presses, crashes>>
    BY <1>7 DEF Recognises
  <2>. QED
    BY <1>1, <2>1, <2>2, <2>3, <2>4, <2>5, <2>6, HandledKeeps
<1>. QED
  BY <1>6, <1>7

(* A pass begins from the rows as they are.                                *)
LEMMA OpensKeeps ==
  ASSUME MediaInvariant, OpensBackfill
  PROVE  MediaInvariant'
<1>t. MediaTyped /\ PassRows /\ JobsKnown
  BY DEF MediaInvariant
<1>1. /\ ~pass.open
      /\ pass' = [open |-> TRUE, queue |-> Listed, seen |-> line, rows |-> line,
                  listed |-> Listed, later |-> {}, ended |-> {}]
      /\ UNCHANGED <<line, fresh, due, press, jobs, astray, presses, crashes>>
  BY DEF OpensBackfill
<1>2. line \in [Media -> Line]
  BY <1>t DEF MediaTyped, MediaTypeOK
<1>3. /\ pass'.open /\ pass'.queue = Listed /\ pass'.listed = Listed
      /\ pass'.seen = line /\ pass'.rows = line
  BY <1>1
<1>4. pass' \in Pass
  BY <1>1, <1>2 DEF Pass, Listed
<1>5. MediaTyped'
  BY <1>t, <1>1, <1>2, <1>3, <1>4 DEF MediaTyped, MediaTypeOK
<1>6. PassRows'
  BY <1>3 DEF PassRows, Listed
<1>7. \A m \in Media : Spent(m)' = Spent(m)
  BY <1>1 DEF Spent
<1>8. \A m \in Media : ~Locked(m)'
  BY <1>3 DEF Locked
<1>9. pass.listed = {}
  <2>1. pass \notin Pass
    BY <1>1 DEF Pass
  <2>2. pass = NoBackfill
    BY <1>t, <2>1 DEF MediaTyped
  <2>3. NoBackfill.listed = {}
    BY DEF NoBackfill
  <2>. QED
    BY <2>2, <2>3
<1>10. \A m \in Media : ~Locked(m)
  BY <1>9 DEF Locked
<1>11. \A m \in Media : NoOrder(m)' => NoOrder(m)
  BY <1>1, <1>10 DEF NoOrder
<1>12. \A m \in Media : m \in pass'.queue /\ ~pass'.seen[m].job => NoOrder(m)
  BY <1>3, <1>10 DEF NoOrder, Listed
<1>13. JobsKnown'
  BY <1>t, <1>1, <1>3, <1>7, <1>11, <1>12 DEF JobsKnown
<1>. QED
  BY <1>5, <1>6, <1>13 DEF MediaInvariant

(* What a pass writes: if it leaves a row waiting without an id, either    *)
(* the id had gone before or its job is over.                              *)
LEMMA CommitsKeeps ==
  ASSUME MediaInvariant, CommitsBackfill
  PROVE  MediaInvariant'
<1>t. MediaTyped /\ PassRows /\ JobsKnown
  BY DEF MediaInvariant
<1>1. /\ pass.open /\ pass.queue = {}
      /\ line' = [m \in Media |-> Written(line[m], pass.seen[m], pass.rows[m])]
      /\ due' = due \ pass.later /\ jobs' = Ended(pass.ended)
      /\ pass' = NoBackfill
      /\ UNCHANGED <<fresh, press, astray, presses, crashes>>
  BY DEF CommitsBackfill
<1>2. pass \in Pass
  BY <1>t, <1>1 DEF MediaTyped, NoBackfill
<1>3. /\ line \in [Media -> Line] /\ pass.seen \in [Media -> Line]
      /\ pass.rows \in [Media -> Line] /\ jobs \in [Media -> Nat]
      /\ crashes \in Nat /\ presses \in Nat /\ astray \in [Media -> Nat]
  BY <1>t, <1>2 DEF MediaTyped, MediaTypeOK, Pass
<1>4. /\ ~pass'.open /\ pass'.listed = {} /\ pass'.queue = {}
  BY <1>1 DEF NoBackfill
<1>5. ASSUME NEW m \in Media
      PROVE  /\ line'[m] \in Line
             /\ line'[m].pending = IF pass.rows[m].pending = pass.seen[m].pending
                                   THEN line[m].pending ELSE pass.rows[m].pending
             /\ line'[m].job = IF pass.rows[m].job = pass.seen[m].job
                               THEN line[m].job ELSE pass.rows[m].job
  BY <1>1, <1>3, WrittenIs
<1>6. ASSUME NEW m \in Media
      PROVE  /\ jobs'[m] \in Nat /\ jobs'[m] <= jobs[m]
             /\ m \in pass.ended => jobs'[m] = 0 \/ jobs'[m] <= jobs[m] - 1
  BY <1>1, <1>3 DEF Ended
<1>7. MediaTyped'
  <2>1. line' \in [Media -> Line]
    BY <1>1, <1>5
  <2>2. jobs' \in [Media -> Nat]
    BY <1>1, <1>6 DEF Ended
  <2>. QED
    BY <1>t, <1>1, <1>4, <2>1, <2>2 DEF MediaTyped, MediaTypeOK
<1>8. PassRows'
  BY <1>4 DEF PassRows
<1>9. ASSUME NEW m \in Media
      PROVE  Spent(m)' = Spent(m) /\ Spent(m) \in Nat
  <2>1. press.of = {m} => presses > 0
    BY <1>t DEF MediaTyped
  <2>2. Spent(m)' = Spent(m)
    BY <1>1 DEF Spent
  <2>3. CASE press.of = {m}
    BY <1>3, <2>1, <2>2, <2>3 DEF Spent
  <2>4. CASE press.of # {m}
    BY <1>3, <2>2, <2>4 DEF Spent
  <2>. QED
    BY <2>3, <2>4
<1>10. ASSUME NEW m \in Media, NoOrder(m)'
       PROVE  jobs'[m] <= Spent(m)
  <2>1. line'[m].pending /\ ~line'[m].job
    BY <1>10 DEF NoOrder
  <2>2. CASE ~Locked(m)
    <3>1. pass.rows[m] = pass.seen[m]
      BY <1>t, <1>1, <2>2 DEF PassRows
    <3>2. NoOrder(m)
      BY <1>5, <2>1, <2>2, <3>1 DEF NoOrder
    <3>. QED
      BY <1>t, <1>3, <1>6, <1>9, <3>2 DEF JobsKnown
  <2>3. CASE Locked(m)
    <3>1. pass.seen[m].pending
      BY <1>t, <1>1, <2>3 DEF PassRows, Locked
    <3>2. pass.rows[m].pending /\ line[m].pending
      BY <1>5, <2>1, <3>1
    <3>3. CASE pass.rows[m].job = pass.seen[m].job
      <4>1. NoOrder(m)
        BY <1>5, <2>1, <3>2, <3>3 DEF NoOrder
      <4>. QED
        BY <1>t, <1>3, <1>6, <1>9, <4>1 DEF JobsKnown
    <3>4. CASE pass.rows[m].job # pass.seen[m].job
      <4>1. pass.rows[m].job \in BOOLEAN /\ pass.seen[m].job \in BOOLEAN
        BY <1>3 DEF Line
      <4>2. ~pass.rows[m].job /\ pass.seen[m].job
        BY <1>5, <2>1, <3>4, <4>1
      <4>3. m \in pass.ended \/ jobs[m] <= Spent(m)
        BY <1>t, <1>1, <3>2, <4>2 DEF JobsKnown
      <4>4. jobs[m] <= 1 + Spent(m) /\ jobs[m] \in Nat
        BY <1>t, <1>3 DEF JobsKnown
      <4>. QED
        BY <1>6, <1>9, <4>3, <4>4
    <3>. QED
      BY <3>3, <3>4
  <2>. QED
    BY <2>2, <2>3
<1>11. JobsKnown'
  <2>1. ASSUME NEW m \in Media PROVE jobs'[m] <= 1 + Spent(m)
    BY <1>t, <1>3, <1>6, <1>9 DEF JobsKnown
  <2>. QED
    BY <1>4, <1>9, <1>10, <2>1 DEF JobsKnown
<1>. QED
  BY <1>7, <1>8, <1>11 DEF MediaInvariant

(* A pass that dies costs one order at most.                               *)
LEMMA DiesKeeps ==
  ASSUME MediaInvariant, BackfillDies
  PROVE  MediaInvariant'
<1>t. MediaTyped /\ PassRows /\ JobsKnown
  BY DEF MediaInvariant
<1>1. /\ pass' = NoBackfill /\ crashes' = crashes + 1
      /\ UNCHANGED <<line, fresh, due, press, jobs, astray, presses>>
  BY DEF BackfillDies
<1>2. /\ ~pass'.open /\ pass'.listed = {} /\ pass'.queue = {}
  BY <1>1 DEF NoBackfill
<1>3. /\ jobs \in [Media -> Nat] /\ astray \in [Media -> Nat]
      /\ crashes \in Nat /\ presses \in Nat
  BY <1>t DEF MediaTyped, MediaTypeOK
<1>4. MediaTyped'
  BY <1>t, <1>1, <1>2, <1>3 DEF MediaTyped, MediaTypeOK
<1>5. \A m \in Media : Spent(m)' = Spent(m) + 1 /\ Spent(m) \in Int
  BY <1>1, <1>3 DEF Spent
<1>6. JobsKnown'
  <2>1. \A m \in Media : jobs'[m] <= Spent(m)' /\ jobs'[m] <= 1 + Spent(m)'
    BY <1>t, <1>1, <1>3, <1>5 DEF JobsKnown
  <2>. QED
    BY <2>1 DEF JobsKnown
<1>. QED
  BY <1>2, <1>4, <1>6 DEF MediaInvariant, PassRows

(* A press that begins has cost nothing yet.                               *)
LEMMA PressesKeeps ==
  ASSUME MediaInvariant, NEW m \in Media, Presses(m)
  PROVE  MediaInvariant'
<1>t. MediaTyped /\ PassRows /\ JobsKnown
  BY DEF MediaInvariant
<1>1. /\ press.of = {} /\ presses' = presses + 1
      /\ press' = [of |-> {m}, seen |-> line[m]]
      /\ UNCHANGED <<line, fresh, due, pass, jobs, astray, crashes>>
  BY DEF Presses
<1>2. /\ jobs \in [Media -> Nat] /\ crashes \in Nat /\ presses \in Nat
      /\ line \in [Media -> Line] /\ astray \in [Media -> Nat]
  BY <1>t DEF MediaTyped, MediaTypeOK
<1>3. press'.of = {m} /\ press'.seen = line[m] /\ press'.seen \in Line
  BY <1>1, <1>2
<1>4. MediaTyped'
  BY <1>t, <1>1, <1>2, <1>3 DEF MediaTyped, MediaTypeOK
<1>5. \A k \in Media : Spent(k)' >= Spent(k) /\ Spent(k) \in Int /\ Spent(k)' \in Int
  BY <1>1, <1>2, <1>3 DEF Spent
<1>6. \A k \in Media : (NoOrder(k)' <=> NoOrder(k)) /\ (Locked(k)' <=> Locked(k))
  BY <1>1 DEF NoOrder, Locked
<1>7. JobsKnown'
  <2>1. ASSUME NEW k \in Media
        PROVE  /\ jobs[k] <= 1 + Spent(k)'
               /\ NoOrder(k) => jobs[k] <= Spent(k)'
               /\ pass.open /\ k \in pass.queue /\ ~pass.seen[k].job
                    => jobs[k] <= Spent(k)'
               /\ pass.open /\ pass.seen[k].job /\ ~pass.rows[k].job /\ pass.rows[k].pending
                    => k \in pass.ended \/ jobs[k] <= Spent(k)'
    BY <1>t, <1>2, <1>5 DEF JobsKnown
  <2>. QED
    BY <1>1, <1>6, <2>1 DEF JobsKnown
<1>8. PassRows'
  BY <1>t, <1>1, <1>6 DEF PassRows
<1>. QED
  BY <1>4, <1>7, <1>8 DEF MediaInvariant

(* A press that is answered costs one order at most.                       *)
LEMMA PressAnsweredKeeps ==
  ASSUME MediaInvariant, NEW m \in Media, PressAnswered(m)
  PROVE  MediaInvariant'
<1>t. MediaTyped /\ PassRows /\ JobsKnown
  BY DEF MediaInvariant
<1>1. /\ press.of = {m} /\ ~Locked(m) /\ press' = NoPress
      /\ UNCHANGED <<fresh, due, pass, presses, crashes>>
  BY DEF PressAnswered
<1>2. PICK s \in Outcomes(m, press.seen) :
       /\ line' = [line EXCEPT ![m] = Written(@, press.seen, s.row)]
       /\ jobs' = [jobs EXCEPT ![m] = IF s.over = 1 /\ @ > 0 THEN @ - 1
                                      ELSE @ + s.begun]
       /\ astray' = [astray EXCEPT ![m] = @ + s.astray]
  BY DEF PressAnswered
<1>3. /\ jobs \in [Media -> Nat] /\ astray \in [Media -> Nat] /\ crashes \in Nat /\ presses \in Nat
      /\ line \in [Media -> Line] /\ press.seen \in Line /\ presses > 0
  BY <1>t, <1>1 DEF MediaTyped, MediaTypeOK
<1>4. /\ s.row \in Line /\ s.begun \in {0, 1} /\ s.over \in {0, 1} /\ s.astray \in {0, 1}
      /\ s.begun = 1 => ~press.seen.job /\ (s.row.job \/ s.astray = 1)
  BY <1>2, <1>3, RecognisedIs DEF Outcomes
<1>. DEFINE w == Written(line[m], press.seen, s.row)
<1>5. /\ w \in Line
      /\ w.job = IF s.row.job = press.seen.job THEN line[m].job ELSE s.row.job
      /\ w.pending = IF s.row.pending = press.seen.pending THEN line[m].pending
                     ELSE s.row.pending
  BY <1>3, <1>4, WrittenIs
<1>6. line' = [line EXCEPT ![m] = w]
  BY <1>2
<1>. HIDE DEF w
<1>7. press'.of = {} /\ press'.seen \in Line
  BY <1>1 DEF NoPress, NoLine, Line, Text
<1>8. /\ jobs' \in [Media -> Nat] /\ jobs'[m] <= jobs[m] + s.begun
      /\ \A k \in Media : k # m => jobs'[k] = jobs[k]
  BY <1>2, <1>3, <1>4
<1>9. line' \in [Media -> Line] /\ line'[m] = w
        /\ \A k \in Media : k # m => line'[k] = line[k]
  BY <1>3, <1>5, <1>6
<1>10. MediaTyped'
  BY <1>t, <1>1, <1>2, <1>3, <1>4, <1>7, <1>8, <1>9 DEF MediaTyped, MediaTypeOK
<1>11. PassRows'
  BY <1>t, <1>1 DEF PassRows, Locked
<1>12. /\ Spent(m)' = Spent(m) + 1 + s.astray /\ \A k \in Media : k # m => Spent(k)' = Spent(k)
       /\ \A k \in Media : Spent(k) \in Int
  BY <1>1, <1>2, <1>3, <1>4, <1>7 DEF Spent
<1>13. \A k \in Media : Locked(k)' <=> Locked(k)
  BY <1>1 DEF Locked
<1>14. ASSUME NoOrder(m)' PROVE s.begun = 0 \/ s.astray = 1
  <2>1. ~w.job
    BY <1>9, <1>14 DEF NoOrder
  <2>. QED
    BY <1>4, <1>5, <2>1
<1>15. ASSUME NEW k \in Media, k # m, NoOrder(k)' PROVE NoOrder(k)
  BY <1>1, <1>9, <1>13, <1>15 DEF NoOrder
<1>16. jobs[m] <= 1 + Spent(m) /\ jobs[m] \in Nat /\ jobs'[m] \in Nat
  BY <1>t, <1>3, <1>8 DEF JobsKnown
<1>17. JobsKnown'
  <2>1. ASSUME NEW k \in Media, k # m
        PROVE  /\ jobs'[k] <= 1 + Spent(k)'
               /\ NoOrder(k)' => jobs'[k] <= Spent(k)'
               /\ pass'.open /\ k \in pass'.queue /\ ~pass'.seen[k].job
                    => jobs'[k] <= Spent(k)'
               /\ pass'.open /\ pass'.seen[k].job /\ ~pass'.rows[k].job
                     /\ pass'.rows[k].pending
                    => k \in pass'.ended \/ jobs'[k] <= Spent(k)'
    BY <1>t, <1>1, <1>8, <1>12, <1>15, <2>1 DEF JobsKnown
  <2>2. /\ jobs'[m] <= 1 + Spent(m)'
        /\ s.begun = 0 \/ s.astray = 1 => jobs'[m] <= Spent(m)'
    BY <1>4, <1>8, <1>12, <1>16
  <2>3. pass.open /\ m \in pass.queue /\ ~pass.seen[m].job => jobs'[m] <= Spent(m)'
    <3>1. ASSUME pass.open, m \in pass.queue, ~pass.seen[m].job
          PROVE  jobs'[m] <= Spent(m)'
      <4>1. jobs[m] <= Spent(m)
        BY <1>t, <3>1 DEF JobsKnown
      <4>. QED
        BY <1>4, <1>8, <1>12, <1>16, <4>1
    <3>. QED
      BY <3>1
  <2>4. pass.open => pass.rows[m] = pass.seen[m]
    BY <1>t, <1>1 DEF PassRows
  <2>. QED
    BY <1>1, <1>14, <2>1, <2>2, <2>3, <2>4 DEF JobsKnown
<1>. QED
  BY <1>10, <1>11, <1>17 DEF MediaInvariant

(* Windows close and retries come due.                                     *)
LEMMA ClockKeeps ==
  ASSUME MediaInvariant, NEW m \in Media, WindowCloses(m) \/ ComesDue(m)
  PROVE  MediaInvariant'
<1>t. MediaTyped /\ PassRows /\ JobsKnown
  BY DEF MediaInvariant
<1>1. /\ UNCHANGED <<line, pass, press, jobs, astray, presses, crashes>>
      /\ fresh' \subseteq fresh /\ due' \subseteq due \cup {m}
  BY DEF WindowCloses, ComesDue
<1>2. MediaTyped'
  BY <1>t, <1>1 DEF MediaTyped, MediaTypeOK
<1>3. PassRows' /\ JobsKnown'
  BY <1>t, <1>1 DEF PassRows, JobsKnown, Locked, NoOrder, Spent
<1>. QED
  BY <1>2, <1>3 DEF MediaInvariant

(* The invariant holds in every state.                                     *)
LEMMA MediaInduction == MediaRuns => []MediaInvariant
<1>1. ASSUME MediaInvariant, [MediaNext]_mediaVars PROVE MediaInvariant'
  <2>1. CASE UNCHANGED mediaVars
    BY <1>1, <2>1 DEF mediaVars, MediaInvariant, MediaTyped, MediaTypeOK, PassRows,
                      JobsKnown, Locked, NoOrder, Spent
  <2>2. CASE MediaNext
    BY <1>1, <2>2, OpensKeeps, CommitsKeeps, DiesKeeps, PassKeeps, PressesKeeps,
       PressAnsweredKeeps, ClockKeeps, Zenon DEF MediaNext
  <2>. QED
    BY <1>1, <2>1, <2>2
<1>. QED
  BY <1>1, MediaBegins, PTL DEF MediaRuns

(* What it says of the orders.                                             *)
LEMMA MediaShows == MediaInvariant => MediaTypeOK /\ OneJob
<1>. SUFFICES ASSUME MediaInvariant PROVE MediaTypeOK /\ OneJob
  OBVIOUS
<1>1. ASSUME NEW m \in Media PROVE jobs[m] <= 1 + crashes + presses + astray[m]
  <2>1. /\ jobs[m] <= 1 + Spent(m) /\ jobs[m] \in Nat /\ crashes \in Nat /\ presses \in Nat
        /\ astray[m] \in Nat
    BY DEF MediaInvariant, JobsKnown, MediaTyped, MediaTypeOK
  <2>. QED
    BY <2>1 DEF Spent
<1>. QED
  BY <1>1 DEF MediaInvariant, MediaTyped, OneJob

(* However a pass dies between posting and its commit, and whatever the    *)
(* hours, the caps and the other missions do: nobody gets a second public  *)
(* line but for a pass that died or, on a visit, an error that hid the     *)
(* first, and one more for each (the rows under which                      *)
(* CommentService.process and proactive_comments record what they have     *)
(* done).                                                                  *)
THEOREM NeverTwiceAlways == AccountRuns => []NeverTwice
BY AccountInduction, AccountShows, PTL

(* "The cap belongs to the connector" (budget.py), for any caps and share  *)
(* and any number of sender runs: missions that work one after the other   *)
(* stay below it together, but for what managers write; missions and       *)
(* sender runs that overlap pass it by the two grants and the other runs   *)
(* at most.                                                                *)
THEOREM CeilingAlways == AccountRuns => []CeilingHolds
BY AccountInduction, AccountShows, PTL

(* One transcription is at work for an attachment, and one more for every  *)
(* dead pass, press and request whose failure was not the job's: the id    *)
(* that _transcribe leaves on the message is not lost between the two      *)
(* sessions that write the row.                                            *)
THEOREM OneJobAlways == MediaRuns => []OneJob
BY MediaInduction, MediaShows, PTL
------------------------------------------------------------------------------
(* The office does what each of its five jobs does, one at a time.         *)
LEMMA OfficeIsFive ==
  OfficeSpec => GateRuns /\ AccountRuns /\ PeopleRuns /\ MediaRuns /\ WakingRuns
<1>1. OfficeInit => GateInit /\ AccountInit /\ PeopleInit /\ MediaInit /\ WakingInit
  BY DEF OfficeInit
<1>2. [OfficeNext]_officeVars =>
        /\ [GateNext]_gateVars /\ [AccountNext]_accountVars /\ [PeopleNext]_peopleVars
        /\ [MediaNext]_mediaVars /\ [WakingNext]_wakingVars
  BY Zenon DEF OfficeNext, officeVars, InGate, InAccount, InPeople, InMedia, InWaking
<1>. QED
  BY <1>1, <1>2, PTL
     DEF OfficeSpec, GateRuns, AccountRuns, PeopleRuns, MediaRuns, WakingRuns

(* The state of the five jobs has its types, whatever they do.             *)
THEOREM OfficeTypeCorrect == OfficeSpec => []OfficeTypeOK
BY OfficeIsFive, GateTyped, AccountInduction, AccountShows, PeopleInduction,
   MediaInduction, MediaShows, WakingTyped, PTL DEF OfficeTypeOK, PeopleInvariant

(* In the whole office, each with the exceptions it names: one voice on a  *)
(* manager's phone, no second public line, no hour above the connector's   *)
(* cap, no transcription ordered twice.                                    *)
THEOREM OfficeSafe ==
  OfficeSpec => [](OneVoice /\ NeverTwice /\ CeilingHolds /\ OneJob)
BY OfficeIsFive, OneVoiceAlways, NeverTwiceAlways, CeilingAlways, OneJobAlways, PTL

(* In the whole office, of every step: a question that came with an answer *)
(* due is answered, what the CRM says off is off, a chat keeps its lead,   *)
(* and no lead is woken more often than its threads explain.               *)
THEOREM OfficeSteps ==
  OfficeSpec => QuestionsAnswered /\ SilenceStandsDown /\ HistoryStays /\ Sparing
BY OfficeIsFive, AskerAnswered, LearnedAndOff, HistoryKept, SparingAlways, PTL
===================================================================================
